------------------------- MODULE TelemetryCounters -------------------------
(***************************************************************************)
(* coordination/telemetry.ts: live contribution counters.  A record adds   *)
(* to the pending bucket of its event; the durable alarm flushes due       *)
(* buckets to the time series (adapters/relational-sql-store.ts), which    *)
(* replaces a bucket by the cumulative value it is given.                  *)
(*                                                                         *)
(* One template, one event per record, one contribution per event.  Every  *)
(* await between two accesses to shared state is a step boundary, and the  *)
(* clock may tick at each.  The coordinator is not frozen here: freezes    *)
(* are the subject of ArchiveOperation.                                    *)
(***************************************************************************)
EXTENDS Integers, FiniteSetsExt

CONSTANTS
    Request,     \* HTTP calls that may be in flight together
    Event,       \* idempotency keys: the paints that clients report
    Occurred,    \* when each event happened
    Resolution, Grace, Retention,  \* the windows of ports/counter-store.ts
    BatchLimit,  \* FLUSH_BATCH_LIMIT
    Cap,         \* Number.MAX_SAFE_INTEGER
    MaxTime,     \* bound: the clock stops here
    MaxSends,    \* bound: calls ever made
    Faults       \* faults that happen: "d1", "db", "crash"

FlushableAfter == Resolution + Grace
ExpiresAfter == FlushableAfter + Retention
\* Mutant: an event key is kept only as long as its bucket may be.
KeptForExpiry == ExpiresAfter
IdempotencyRetention == ExpiresAfter + Grace

Flusher == "flusher"   \* the alarm handler
Nobody == "nobody"
NoTime == -1
NoEvent == "none"

ASSUME CountersAssumption ==
    /\ {Flusher, Nobody} \cap Request = {} /\ NoEvent \notin Event /\ IsFiniteSet(Event)
    /\ Occurred \in [Event -> Nat]
    /\ {Resolution, Grace, Retention, BatchLimit, Cap} \subseteq Nat \ {0}
    /\ MaxTime \in Nat /\ MaxSends \in Nat
    /\ Faults \subseteq {"d1", "db", "crash"}

VARIABLES
    clock,
    pending, batch, retained,  \* pending_counters, flush_batch, retained_counters; 0 for no row
    series,    \* what the time series holds per bucket
    seen,      \* applied_counter_events: when each key was claimed, or NoTime
    alarm,     \* the durable alarm, and whether the running handler serves it
    arming,    \* who is inside updateAlarm
    call,      \* per caller: its step and its local variables
    up,        \* the coordinator is initialized
    sends,     \* calls made so far
    counted,   \* history: how often each event was added
    raced,     \* history: buckets a record added to after they had expired
    missed     \* history: no reconciliation since a call failed before its own

tables == <<pending, batch, retained>>
history == <<counted, raced>>
vars == <<clock, tables, series, seen, alarm, arming, call, up, sends, history, missed>>

Agent == Request \cup {Flusher}
Time == 0 .. MaxTime
Start(t) == (t \div Resolution) * Resolution
BucketOf(e) == Start(Occurred[e])
Bucket == {BucketOf(e) : e \in Event}

NoAlarm == [at |-> NoTime, fired |-> FALSE]
AlarmAt(t) == [at |-> IF t > MaxTime THEN MaxTime ELSE t, fired |-> FALSE]
Idle == [at |-> "idle", now |-> 0, event |-> NoEvent, rows |-> {}, to |-> NoAlarm]

Goto(a, step) == call' = [call EXCEPT ![a].at = step]
\* A request answers; the handler returns to the scheduler.
Return(a) == call' = [call EXCEPT ![a] = IF a = Flusher THEN [Idle EXCEPT !.at = "finish"] ELSE Idle]

SetTo(a, to) == call' = [call EXCEPT ![a] = [Idle EXCEPT !.at = "armSet", !.to = to]]

Rows(table) == {b \in Bucket : table[b] > 0}
Outstanding == Rows(pending) # {} \/ Rows(batch) # {}

\* What a bucket holds as far as the coordinator knows, before its pending part.
Flushed(b) == IF batch[b] > 0 THEN batch[b] ELSE retained[b]
\* readPending's part of a bucket: work that the series is not known to hold.
Unflushed(b) == pending[b] + (IF batch[b] > 0 THEN batch[b] - retained[b] ELSE 0)

-----------------------------------------------------------------------------
(* Calls arrive.                                                           *)

Begin(r, c) ==
    /\ up /\ call[r].at = "idle" /\ sends < MaxSends
    /\ sends' = sends + 1
    /\ call' = [call EXCEPT ![r] = c]
    /\ UNCHANGED <<clock, tables, series, seen, alarm, arming, up, history, missed>>

\* record, first sent or repeated by its client: the clock is read here.
Record(r, e) == Begin(r, [Idle EXCEPT !.at = "prune", !.now = clock, !.event = e])

\* readPending arms the alarm before it reads.
ReadPending(r) == Begin(r, [Idle EXCEPT !.at = "arm", !.now = clock])

\* The scheduler runs the due alarm's handler, one at a time.
Fire ==
    /\ up /\ call[Flusher].at = "idle"
    /\ alarm.at # NoTime /\ alarm.at <= clock
    /\ alarm' = [alarm EXCEPT !.fired = TRUE]
    /\ call' = [call EXCEPT ![Flusher] = [Idle EXCEPT !.at = "prune", !.now = clock]]
    /\ UNCHANGED <<clock, tables, series, seen, arming, up, sends, history, missed>>

Tick ==
    /\ clock < MaxTime
    /\ clock' = clock + 1
    /\ UNCHANGED <<tables, series, seen, alarm, arming, call, up, sends, history, missed>>

-----------------------------------------------------------------------------
(* record.                                                                 *)

\* pruneRetained: expired rows that no pending or flush-batch row references.
Pruned(now) ==
    [b \in Bucket |-> IF b + ExpiresAfter <= now /\ pending[b] = 0 /\ batch[b] = 0
                      THEN 0 ELSE retained[b]]

\* Before a record's transaction, and first and last in a flush.
Prune(a) ==
    /\ call[a].at \in {"prune", "lastPrune"}
    /\ retained' = Pruned(call[a].now)
    /\ Goto(a, IF call[a].at = "lastPrune" THEN "arm"
               ELSE IF a = Flusher THEN "load" ELSE "commit")
    /\ UNCHANGED <<clock, pending, batch, series, seen, alarm, arming, up, sends, history, missed>>

\* isValidCounterDelta: not from the future, and its bucket has not expired.
Valid(e, now) == Occurred[e] <= now + Grace /\ BucketOf(e) + ExpiresAfter > now

\* Mutant: what the bucket has flushed already is not counted.
AccumulatesOutstanding(b) == MapThenSumSet(Unflushed, Bucket) < Cap
\* canAccumulateCounters, for the template's outstanding and the bucket's full value.
CanAccumulate(b) == MapThenSumSet(Unflushed, Bucket) < Cap /\ pending[b] + Flushed(b) < Cap

\* Keys too old to matter, by this request's clock.
Kept(now) ==
    [e \in Event |-> IF seen[e] # NoTime /\ seen[e] + IdempotencyRetention <= now
                     THEN NoTime ELSE seen[e]]

\* The record's transaction: claim the key, then add or drop the delta.
Commit(r) ==
    /\ call[r].at = "commit"
    /\ LET e == call[r].event
           b == BucketOf(e)
           now == call[r].now
           fresh == Kept(now)[e] = NoTime
           added == fresh /\ Valid(e, now) /\ CanAccumulate(b)
       IN /\ seen' = IF fresh THEN [Kept(now) EXCEPT ![e] = now] ELSE Kept(now)
          /\ pending' = IF added THEN [pending EXCEPT ![b] = @ + 1] ELSE pending
          /\ counted' = IF added THEN [counted EXCEPT ![e] = @ + 1] ELSE counted
          /\ raced' = IF added /\ b + ExpiresAfter <= clock THEN raced \cup {b} ELSE raced
    /\ call' = [call EXCEPT ![r].at = "arm", ![r].event = NoEvent]
    /\ UNCHANGED <<clock, batch, retained, series, alarm, arming, up, sends, missed>>

-----------------------------------------------------------------------------
(* updateAlarm and reconcileAlarm: one caller at a time.                   *)

\* Mutant: the reconciliations of two callers overlap.
Overlapping(a) == TRUE
MayArm(a) == arming = Nobody

Arm(a) ==
    /\ call[a].at = "arm" /\ MayArm(a)
    /\ arming' = a
    /\ missed' = FALSE
    /\ Goto(a, IF Rows(batch) # {} THEN "armBatch" ELSE "armPending")
    /\ UNCHANGED <<clock, tables, series, seen, alarm, up, sends, history>>

\* Mutant: the alarm that is just being served counts as armed.
NeedsAlarmIfNone(now) == alarm.at = NoTime
NeedsAlarm(now) == alarm.at = NoTime \/ alarm.at <= now

\* An outstanding batch keeps the alarm it has, unless none is left or it is past.
ArmBatch(a) ==
    /\ call[a].at = "armBatch"
    /\ IF NeedsAlarm(call[a].now)
       THEN /\ SetTo(a, AlarmAt(call[a].now))
            /\ UNCHANGED arming
       ELSE Return(a) /\ arming' = Nobody
    /\ UNCHANGED <<clock, tables, series, seen, alarm, up, sends, history, missed>>

\* Otherwise the alarm follows the earliest pending bucket.
NextAlarm(now) ==
    IF Rows(pending) = {} THEN NoAlarm
    ELSE AlarmAt(Max({now, Min(Rows(pending)) + FlushableAfter}))

ArmPending(a) ==
    /\ call[a].at = "armPending"
    /\ SetTo(a, NextAlarm(call[a].now))
    /\ UNCHANGED <<clock, tables, series, seen, alarm, arming, up, sends, history, missed>>

\* setAlarm or deleteAlarm: the running handler no longer owns what it replaces.
ArmSet(a) ==
    /\ call[a].at = "armSet"
    /\ alarm' = call[a].to
    /\ arming' = Nobody
    /\ Return(a)
    /\ UNCHANGED <<clock, tables, series, seen, up, sends, history, missed>>

-----------------------------------------------------------------------------
(* flushDue.                                                               *)

\* readFlushBatch: the first rows of an earlier batch, else of the promoted one.
Load ==
    /\ call[Flusher].at \in {"load", "reload"}
    /\ IF Rows(batch) # {}
       THEN call' = [call EXCEPT ![Flusher].at = "append", ![Flusher].rows =
              {b \in Rows(batch) : Cardinality({x \in Rows(batch) : x < b}) < BatchLimit}]
       ELSE Goto(Flusher, IF call[Flusher].at = "load" THEN "promote" ELSE "lastPrune")
    /\ UNCHANGED <<clock, tables, series, seen, alarm, arming, up, sends, history, missed>>

Due(now) == {b \in Rows(pending) : b + FlushableAfter <= now}

\* Mutant: the batch is only what is pending, without the retained part.
PromotedAlone(b) == pending[b]
\* Mutant: the difference to the retained part, the wrong way round.
PromotedGrowth(b) == retained[b] - pending[b]
\* A batch row is cumulative: the series replaces its bucket by it.
Promoted(b) == pending[b] + retained[b]

Promote ==
    /\ call[Flusher].at = "promote"
    /\ LET due == Due(call[Flusher].now)
       IN /\ batch' = [b \in Bucket |-> IF b \in due THEN Promoted(b) ELSE batch[b]]
          /\ pending' = [b \in Bucket |-> IF b \in due THEN 0 ELSE pending[b]]
    /\ Goto(Flusher, "reload")
    /\ UNCHANGED <<clock, retained, series, seen, alarm, arming, up, sends, history, missed>>

\* appendBuckets: one upsert batch that replaces the values of its rows.
Landed == [b \in Bucket |-> IF b \in call[Flusher].rows THEN batch[b] ELSE series[b]]

AppendRows ==
    /\ call[Flusher].at = "append"
    /\ series' = Landed
    /\ Goto(Flusher, "settle")
    /\ UNCHANGED <<clock, tables, seen, alarm, arming, up, sends, history, missed>>

\* Mutant: a failed append settles its rows all the same.
AppendFailsSettled ==
    /\ "d1" \in Faults
    /\ call[Flusher].at = "append"
    /\ series' \in {series, Landed}
    /\ Goto(Flusher, "settle")
    /\ UNCHANGED <<clock, tables, seen, alarm, arming, up, sends, history, missed>>

\* The time series fails, or commits and the answer is lost.
AppendFails ==
    /\ "d1" \in Faults
    /\ call[Flusher].at = "append"
    /\ series' \in {series, Landed}
    /\ call' = [call EXCEPT ![Flusher] = [Idle EXCEPT !.at = "backoff"]]
    /\ UNCHANGED <<clock, tables, seen, alarm, arming, up, sends, history, missed>>

\* RetryDelays: from none to a tick, of the backoff and of the scheduler.
RetryDelays == 0 .. 1

\* The caught failure sets its own retry, in turn with other alarm updates.
Backoff ==
    /\ call[Flusher].at = "backoff" /\ arming = Nobody
    /\ \E delay \in RetryDelays : alarm' = AlarmAt(clock + delay)
    /\ missed' = FALSE
    /\ Return(Flusher)
    /\ UNCHANGED <<clock, tables, series, seen, arming, up, sends, history>>

\* The confirmed rows move from the batch to the retained values.
Settle ==
    /\ call[Flusher].at = "settle"
    /\ LET rows == call[Flusher].rows
       IN /\ retained' = [b \in Bucket |-> IF b \in rows THEN batch[b] ELSE retained[b]]
          /\ batch' = [b \in Bucket |-> IF b \in rows THEN 0 ELSE batch[b]]
    /\ call' = [call EXCEPT ![Flusher].at = "lastPrune", ![Flusher].rows = {}]
    /\ UNCHANGED <<clock, pending, series, seen, alarm, arming, up, sends, history, missed>>

\* The scheduler consumes the alarm the handler served, unless it was replaced.
Finish ==
    /\ call[Flusher].at = "finish"
    /\ alarm' = IF alarm.fired THEN NoAlarm ELSE alarm
    /\ call' = [call EXCEPT ![Flusher] = Idle]
    /\ UNCHANGED <<clock, tables, series, seen, arming, up, sends, history, missed>>

-----------------------------------------------------------------------------
(* Faults: a statement that throws, a coordinator that dies.               *)

Arming == {"arm", "armBatch", "armPending", "armSet"}
LeaveArming(a) == arming' = IF arming = a THEN Nobody ELSE arming

RecordFails(r) ==
    /\ "db" \in Faults
    /\ call[r].at # "idle"
    /\ LeaveArming(r)
    /\ missed' = (missed \/ call[r].at \in Arming)
    /\ call' = [call EXCEPT ![r] = Idle]
    /\ UNCHANGED <<clock, tables, series, seen, alarm, up, sends, history>>

\* The scheduler puts a failed run's alarm off, if it is still the one it ran;
\* a reconciliation under way may yet delete it on what it read before.
FlushFails ==
    /\ "db" \in Faults
    /\ call[Flusher].at \notin {"idle", "append", "finish"}
    /\ LeaveArming(Flusher)
    /\ IF alarm.fired
       THEN \E delay \in RetryDelays : alarm' = AlarmAt(clock + delay)
       ELSE UNCHANGED alarm
    /\ missed' = (missed \/ ~alarm.fired \/ arming \in Request)
    /\ call' = [call EXCEPT ![Flusher] = Idle]
    /\ UNCHANGED <<clock, tables, series, seen, up, sends, history>>

\* A write on its way to the time series may still land; the alarm is durable.
Crash ==
    /\ "crash" \in Faults /\ up
    /\ up' = FALSE
    /\ series' \in IF call[Flusher].at = "append" THEN {series, Landed} ELSE {series}
    /\ call' = [a \in Agent |-> Idle]
    /\ arming' = Nobody
    /\ alarm' = [alarm EXCEPT !.fired = FALSE]
    /\ UNCHANGED <<clock, tables, seen, sends, history, missed>>

\* initialize, before any call is served.
Initialize ==
    /\ ~up
    /\ up' = TRUE
    /\ retained' = Pruned(clock)
    /\ alarm' = IF Rows(batch) = {} THEN NextAlarm(clock)
                ELSE IF NeedsAlarm(clock) THEN AlarmAt(clock) ELSE alarm
    /\ missed' = FALSE
    /\ UNCHANGED <<clock, pending, batch, series, seen, arming, call, sends, history>>

-----------------------------------------------------------------------------
Init ==
    /\ clock = 0
    /\ pending = [b \in Bucket |-> 0] /\ batch = pending /\ retained = pending
    /\ series = [b \in Bucket |-> 0]
    /\ seen = [e \in Event |-> NoTime]
    /\ alarm = NoAlarm /\ arming = Nobody
    /\ call = [a \in Agent |-> Idle]
    /\ up = TRUE /\ sends = 0
    /\ counted = [e \in Event |-> 0] /\ raced = {} /\ missed = FALSE

Reconcile(a) == Arm(a) \/ ArmBatch(a) \/ ArmPending(a) \/ ArmSet(a)
Proceed(r) == Prune(r) \/ Commit(r) \/ Reconcile(r)
Flush ==
    \/ Prune(Flusher) \/ Load \/ Promote \/ AppendRows \/ AppendFails \/ Settle
    \/ Backoff \/ Reconcile(Flusher) \/ Finish

Next ==
    \/ \E r \in Request : (\E e \in Event : Record(r, e)) \/ ReadPending(r)
    \/ \E r \in Request : Proceed(r) \/ RecordFails(r)
    \/ Fire \/ Tick \/ Flush \/ FlushFails \/ Crash \/ Initialize

Spec == Init /\ [][Next]_vars

\* Time passes, calls proceed, due alarms fire, a dead coordinator is started
\* again, and the time series does not fail forever.  No client is assumed to call.
FairSpec ==
    /\ Spec
    /\ WF_vars(Tick) /\ WF_vars(Fire) /\ WF_vars(Initialize)
    /\ WF_vars(Flush) /\ SF_vars(AppendRows)
    /\ \A r \in Request : WF_vars(Proceed(r))

-----------------------------------------------------------------------------
Steps == {"idle", "prune", "commit", "arm", "armBatch", "armPending", "armSet", "load",
          "reload", "promote", "append", "settle", "backoff", "lastPrune", "finish"}
Alarms == [at : Time \cup {NoTime}, fired : BOOLEAN]

\* Counts, times and local variables have their shapes; a row is a positive count.
TypeOK ==
    /\ clock \in Time
    /\ {pending, batch, retained, series} \subseteq [Bucket -> Nat]
    /\ seen \in [Event -> Time \cup {NoTime}]
    /\ alarm \in Alarms
    /\ arming \in Agent \cup {Nobody}
    /\ call \in [Agent -> [at : Steps, now : Time, event : Event \cup {NoEvent},
                           rows : SUBSET Bucket, to : Alarms]]
    /\ up \in BOOLEAN /\ sends \in 0 .. MaxSends
    /\ counted \in [Event -> Nat] /\ raced \subseteq Bucket /\ missed \in BOOLEAN

\* Contributions accepted for a bucket, and what live totals show of them.
Accepted(b) == MapThenSumSet(LAMBDA e : counted[e], {e \in Event : BucketOf(e) = b})
LiveTotal(b) == series[b] + Unflushed(b)

\* A value read back reflects every accepted record, no more and no less, however
\* flushes, failures and crashes interleave.  It is too high only while a batch
\* that the series already holds is not settled.  Buckets that a slow record
\* entered after they expired are excepted.
CountsExact ==
    \A b \in Bucket \ raced :
        \/ LiveTotal(b) = Accepted(b)
        \/ batch[b] > 0 /\ series[b] = batch[b] /\ LiveTotal(b) > Accepted(b)

\* A repeated event counts once, also long after it was first received.
AtMostOnce == \A e \in Event : BucketOf(e) \notin raced => counted[e] <= 1

\* No stored or promised sum leaves the exact integers.
WithinCap ==
    /\ \A b \in Bucket : pending[b] + Flushed(b) <= Cap /\ series[b] <= Cap
    /\ MapThenSumSet(Unflushed, Bucket) <= Cap

\* Unflushed work is never left without a wakeup: with nothing in flight the
\* alarm is set, and no later than the earliest bucket or a retry needs it,
\* unless a call failed before it could arm it.
AlarmArmed ==
    up /\ Outstanding /\ ~missed /\ (\A a \in Agent : call[a].at = "idle") => alarm.at # NoTime

\* Both hold over flushes that fail and restarts, too: every accepted event is
\* counted once, and pending work has an alarm.
ExactAndArmed == CountsExact /\ AlarmArmed

\* Once the coordinator and its database stop failing, every accepted contribution
\* is flushed, whatever the time series lost or answered too late, unless a call
\* failed before it could arm the alarm.
FlushedAtLast ==
    <>[][~Crash /\ ~FlushFails]_vars => (Outstanding ~> (~Outstanding \/ missed))

\* An accepted record never loses what its bucket already held.
NothingHidden == \A b \in Bucket : LiveTotal(b) >= Accepted(b)
=============================================================================
