-------------------------- MODULE DurableScheduler --------------------------
(***************************************************************************)
(* coordination/scheduler.ts: processes that share one database run the    *)
(* due rows of runtime_alarms under a fenced, renewable claim, while the   *)
(* coordinators set and delete their alarms at any moment                  *)
(* (adapters/node/coordinator-storage.ts).                                 *)
(*                                                                         *)
(* Time: whether a row is due, and whether a claim is still live on the    *)
(* database clock, is a Boolean that only time changes.  A row's due_at is *)
(* told apart by what changes it: a new generation, or a retry.            *)
(***************************************************************************)
EXTENDS Naturals, FiniteSets

CONSTANTS
    Owner,      \* processes with a scheduler
    Actor,      \* coordinators with an alarm
    MaxActive,  \* MAX_CONCURRENT_JOBS
    MaxSets,    \* bound: alarms set per actor
    MaxTries,   \* bound: failed runs per alarm that are told apart
    Faults      \* faults that happen: "stall", "fail", "crash"

Nobody == "nobody"
Gone == "gone"   \* the owner id of a process that no longer exists

ASSUME SchedulerAssumption ==
    /\ {Nobody, Gone} \cap Owner = {}
    /\ MaxActive \in Nat \ {0} /\ MaxSets \in Nat \ {0} /\ MaxTries \in Nat
    /\ Faults \subseteq {"stall", "fail", "crash"}

VARIABLES
    alarm,   \* runtime_alarms by actor
    sets,    \* alarms each actor set so far: the source of new generations
    ended,   \* history: how each actor's last alarm row went away
    queue,   \* per process: the rows of its scan it has not looked at yet
    job,     \* per process and actor: the delivery under way
    up,      \* per process: start and stop
    overrun  \* history: actors whose claim expired under its running owner

vars == <<alarm, sets, ended, queue, job, up, overrun>>

NoAlarm == [gen |-> 0]
Alarm == [gen : 1 .. MaxSets, tries : 0 .. MaxTries, due : BOOLEAN,
          by : Owner \cup {Nobody, Gone}, live : BOOLEAN]
Seen == [actor : Actor, gen : 1 .. MaxSets, tries : 0 .. MaxTries]
NoJob == [at |-> "none", gen |-> 0, tries |-> 0]

\* The row is the one a scan saw: same generation, same due_at.
IsStill(r, v) == r # NoAlarm /\ r.gen = v.gen /\ r.tries = v.tries
\* Mutant: a claim never runs out.
UnclaimedEver(r) == r.by = Nobody
Unclaimed(r) == r.by = Nobody \/ ~r.live
Active(o) == {a \in Actor : job[o][a].at # "none"}
\* A statement that does not answer may have run or not.
MayFail == "fail" \in Faults

-----------------------------------------------------------------------------
(* The coordinators' side: SqlCoordinatorStorage.                          *)

\* Mutant: the upsert keeps the generation of the row it replaces.
SetAlarmKeepingGeneration(a) ==
    /\ sets[a] < MaxSets
    /\ sets' = [sets EXCEPT ![a] = @ + 1]
    /\ alarm' = [alarm EXCEPT ![a] =
         IF @ = NoAlarm
         THEN [gen |-> sets'[a], tries |-> 0, due |-> FALSE, by |-> Nobody, live |-> FALSE]
         ELSE @]
    /\ ended' = [ended EXCEPT ![a] = "none"]
    /\ UNCHANGED <<queue, job, up, overrun>>

\* An upsert with a new generation; the claim columns of a row stay.
SetAlarm(a) ==
    /\ sets[a] < MaxSets
    /\ sets' = [sets EXCEPT ![a] = @ + 1]
    /\ alarm' = [alarm EXCEPT ![a] =
         IF @ = NoAlarm
         THEN [gen |-> sets'[a], tries |-> 0, due |-> FALSE, by |-> Nobody, live |-> FALSE]
         ELSE [@ EXCEPT !.gen = sets'[a], !.tries = 0, !.due = FALSE]]
    /\ ended' = [ended EXCEPT ![a] = "none"]
    /\ UNCHANGED <<queue, job, up, overrun>>

DeleteAlarm(a) ==
    /\ alarm[a] # NoAlarm
    /\ alarm' = [alarm EXCEPT ![a] = NoAlarm]
    /\ ended' = [ended EXCEPT ![a] = "forgotten"]
    /\ UNCHANGED <<sets, queue, job, up, overrun>>

-----------------------------------------------------------------------------
(* Time.                                                                   *)

BecomeDue(a) ==
    /\ alarm[a] # NoAlarm /\ ~alarm[a].due
    /\ alarm' = [alarm EXCEPT ![a].due = TRUE]
    /\ UNCHANGED <<sets, ended, queue, job, up, overrun>>

\* claimed_until passes.  The renewal, every third of the TTL, prevents it
\* while the claim's owner runs, unless that process or the database stalls.
Expire(a) ==
    /\ alarm[a] # NoAlarm /\ alarm[a].by # Nobody /\ alarm[a].live
    /\ LET running == alarm[a].by \in Owner /\ a \in Active(alarm[a].by)
       IN /\ running => "stall" \in Faults
          /\ overrun' = IF running THEN overrun \cup {a} ELSE overrun
    /\ alarm' = [alarm EXCEPT ![a].live = FALSE]
    /\ UNCHANGED <<sets, ended, queue, job, up>>

\* renew, from the timer of a running delivery; the last one may land late.
Renew(o, a) ==
    /\ job[o][a].at \in {"dispatch", "complete", "retry"}
    /\ alarm[a] # NoAlarm /\ alarm[a].by = o /\ ~alarm[a].live
    /\ alarm' = [alarm EXCEPT ![a].live = TRUE]
    /\ UNCHANGED <<sets, ended, queue, job, up, overrun>>

-----------------------------------------------------------------------------
(* scan, claim and deliver.                                                *)

\* The poll: read every due row that nobody holds.
Scan(o) ==
    /\ up[o] = "running" /\ queue[o] = {}
    /\ LET due == {a \in Actor : alarm[a] # NoAlarm /\ alarm[a].due /\ Unclaimed(alarm[a])}
       IN /\ due # {}
          /\ queue' = [queue EXCEPT ![o] =
               {[actor |-> a, gen |-> alarm[a].gen, tries |-> alarm[a].tries] : a \in due}]
    /\ UNCHANGED <<alarm, sets, ended, job, up, overrun>>

\* A scan at the job limit ends; an actor this process already runs is skipped.
PassOver(o) ==
    /\ \/ /\ queue[o] # {} /\ Cardinality(Active(o)) >= MaxActive
          /\ queue' = [queue EXCEPT ![o] = {}]
       \/ /\ Cardinality(Active(o)) < MaxActive
          /\ \E v \in queue[o] :
               /\ v.actor \in Active(o)
               /\ queue' = [queue EXCEPT ![o] = @ \ {v}]
    /\ UNCHANGED <<alarm, sets, ended, job, up, overrun>>

\* Mutant: claim checks the version it saw but not the claim columns.
TakenRegardless(r, v) == IsStill(r, v)
\* claim's UPDATE finds the row as the scan saw it, and nobody holding it.
MayTake(r, v) == IsStill(r, v) /\ Unclaimed(r)

Take(o, v) == alarm' = [alarm EXCEPT ![v.actor].by = o, ![v.actor].live = TRUE]

\* One row of the scan: claim it and start its handler, or lose it to another.
Claim(o, v) ==
    /\ v \in queue[o] /\ v.actor \notin Active(o) /\ Cardinality(Active(o)) < MaxActive
    /\ queue' = [queue EXCEPT ![o] = @ \ {v}]
    /\ IF MayTake(alarm[v.actor], v)
       THEN /\ Take(o, v)
            /\ job' = [job EXCEPT ![o][v.actor] =
                         [at |-> "dispatch", gen |-> v.gen, tries |-> v.tries]]
       ELSE UNCHANGED <<alarm, job>>
    /\ UNCHANGED <<sets, ended, up, overrun>>

\* A claim that throws ends the scan; the row may have been claimed for nobody.
ClaimFails(o, v) ==
    /\ MayFail
    /\ v \in queue[o] /\ v.actor \notin Active(o) /\ Cardinality(Active(o)) < MaxActive
    /\ queue' = [queue EXCEPT ![o] = {}]
    /\ (MayTake(alarm[v.actor], v) /\ Take(o, v)) \/ UNCHANGED alarm
    /\ UNCHANGED <<sets, ended, job, up, overrun>>

JobAt(o, a, from, to) == job[o][a].at = from /\ job' = [job EXCEPT ![o][a].at = to]

\* The handler returns or throws; SetAlarm and DeleteAlarm are its own calls too.
HandlerEnds(o, a) ==
    /\ JobAt(o, a, "dispatch", "complete") \/ JobAt(o, a, "dispatch", "retry")
    /\ UNCHANGED <<alarm, sets, ended, queue, up, overrun>>

\* The row is the one this delivery claimed, and still its to end.
Owns(o, a) == IsStill(alarm[a], job[o][a]) /\ alarm[a].by = o

Consume(a) ==
    /\ alarm' = [alarm EXCEPT ![a] = NoAlarm]
    /\ ended' = [ended EXCEPT ![a] = "settled"]

\* Delete the row this run served, unless it was replaced or claimed by another.
Complete(o, a) ==
    /\ \/ /\ JobAt(o, a, "complete", "release")
          /\ IF Owns(o, a) THEN Consume(a) ELSE UNCHANGED <<alarm, ended>>
       \/ /\ MayFail /\ JobAt(o, a, "complete", "retry")
          /\ (Owns(o, a) /\ Consume(a)) \/ UNCHANGED <<alarm, ended>>
    /\ UNCHANGED <<sets, queue, up, overrun>>

\* due_at moves RETRY_DELAY_MS ahead and the claim is dropped.
PutOff(a) ==
    /\ alarm[a].tries < MaxTries
    /\ alarm' = [alarm EXCEPT ![a].tries = @ + 1, ![a].due = FALSE,
                              ![a].by = Nobody, ![a].live = FALSE]

Retry(o, a) ==
    /\ JobAt(o, a, "retry", "release")
    /\ \/ Owns(o, a) /\ PutOff(a)
       \/ /\ Owns(o, a) => MayFail \/ alarm[a].tries = MaxTries
          /\ UNCHANGED alarm
    /\ UNCHANGED <<sets, ended, queue, up, overrun>>

\* The claim a replaced row still carries is dropped, if it is this owner's.
Release(o, a) ==
    /\ job[o][a].at = "release"
    /\ job' = [job EXCEPT ![o][a] = NoJob]
    /\ \/ alarm' = IF alarm[a] # NoAlarm /\ alarm[a].by = o
                   THEN [alarm EXCEPT ![a].by = Nobody, ![a].live = FALSE] ELSE alarm
       \/ (MayFail /\ UNCHANGED alarm)
    /\ UNCHANGED <<sets, ended, queue, up, overrun>>

-----------------------------------------------------------------------------
(* Processes stop, start and die.  Each start picks a new owner id.        *)

Disowned(o) ==
    [a \in Actor |-> IF alarm[a] # NoAlarm /\ alarm[a].by = o
                     THEN [alarm[a] EXCEPT !.by = Gone] ELSE alarm[a]]

\* stop: no new scan; the scan and the jobs under way are awaited.
Stop(o) ==
    /\ up[o] = "running"
    /\ up' = [up EXCEPT ![o] = "stopping"]
    /\ UNCHANGED <<alarm, sets, ended, queue, job, overrun>>

Start(o) ==
    /\ up[o] = "stopping" /\ queue[o] = {} /\ Active(o) = {}
    /\ up' = [up EXCEPT ![o] = "running"]
    /\ alarm' = Disowned(o)
    /\ UNCHANGED <<sets, ended, queue, job, overrun>>

Crash(o) ==
    /\ "crash" \in Faults
    /\ up' = [up EXCEPT ![o] = "running"]
    /\ queue' = [queue EXCEPT ![o] = {}]
    /\ job' = [job EXCEPT ![o] = [a \in Actor |-> NoJob]]
    /\ alarm' = Disowned(o)
    /\ UNCHANGED <<sets, ended, overrun>>

-----------------------------------------------------------------------------
Init ==
    /\ alarm = [a \in Actor |-> NoAlarm]
    /\ sets = [a \in Actor |-> 0]
    /\ ended = [a \in Actor |-> "none"]
    /\ queue = [o \in Owner |-> {}]
    /\ job = [o \in Owner |-> [a \in Actor |-> NoJob]]
    /\ up = [o \in Owner |-> "running"]
    /\ overrun = {}

Coordinate(a) == SetAlarm(a) \/ DeleteAlarm(a)
\* A delivery under way.
Deliver(o, a) ==
    /\ a \in Active(o)
    /\ Renew(o, a) \/ HandlerEnds(o, a) \/ Complete(o, a) \/ Retry(o, a) \/ Release(o, a)
Poll(o) == Scan(o) \/ PassOver(o) \/ \E v \in queue[o] : Claim(o, v) \/ ClaimFails(o, v)

Next ==
    \/ \E a \in Actor : Coordinate(a) \/ BecomeDue(a) \/ Expire(a)
    \/ \E o \in Owner : Poll(o) \/ Stop(o) \/ Start(o) \/ Crash(o)
    \/ \E o \in Owner, a \in Actor : Deliver(o, a)

Spec == Init /\ [][Next]_vars

\* A claim that succeeds, for the oldest due row first: ORDER BY due_at puts an
\* alarm that keeps being due at the head of the scan, ahead of replaced and
\* retried ones.
Taken(o, a) == \E v \in queue[o] : v.actor = a /\ MayTake(alarm[a], v) /\ Claim(o, v)

\* Timers fire, processes poll, handlers and statements end, a stopped process
\* is started again, and a statement does not fail forever.
FairSpec ==
    /\ Spec
    /\ \A a \in Actor :
         /\ WF_vars(BecomeDue(a)) /\ WF_vars(Expire(a))
         /\ SF_vars(\E o \in Owner : Taken(o, a))
    /\ \A o \in Owner :
         /\ WF_vars(Poll(o)) /\ WF_vars(Start(o))
         /\ \A a \in Actor :
              WF_vars(HandlerEnds(o, a) \/ Complete(o, a) \/ Retry(o, a) \/ Release(o, a))

-----------------------------------------------------------------------------
TypeOK ==
    /\ alarm \in [Actor -> Alarm \cup {NoAlarm}]
    /\ sets \in [Actor -> 0 .. MaxSets]
    /\ ended \in [Actor -> {"none", "forgotten", "settled"}]
    /\ queue \in [Owner -> SUBSET Seen]
    /\ job \in [Owner -> [Actor -> [at : {"none", "dispatch", "complete", "retry", "release"},
                                   gen : 0 .. MaxSets, tries : 0 .. MaxTries]]]
    /\ up \in [Owner -> {"running", "stopping"}]
    /\ overrun \subseteq Actor

\* A run that may still end the row it claimed.
Serving(o, a) == job[o][a].at \in {"dispatch", "complete"} /\ Owns(o, a)

\* What the coordinators see of the scheduler.
Fate == [a \in Actor |-> IF alarm[a] # NoAlarm THEN "wanted" ELSE ended[a]]
Served == {a \in Actor : alarm[a] # NoAlarm /\ \E o \in Owner : Serving(o, a)}

\* The scheduler keeps the promise of durable alarms: a wakeup is consumed only
\* by a successful run that started after it was set and still owns it.
Promise == INSTANCE AlarmPromise WITH asked <- sets, fate <- Fate, served <- Served
KeepsPromise == Promise!Spec

\* Several processes run a due alarm once: unless its claim expired under a
\* stalled process, two never have the handler of one alarm running together.
RunsOnce ==
    \A a \in Actor \ overrun : \A o, p \in Owner :
        /\ job[o][a].at = "dispatch" /\ job[p][a].at = "dispatch"
        /\ job[o][a].gen = job[p][a].gen /\ job[o][a].tries = job[p][a].tries
        => o = p

\* A wakeup is handled at last, unless its coordinator replaces or deletes it.
EventuallyRuns ==
    <>[][\A o \in Owner : ~Crash(o) /\ ~Stop(o)]_vars =>
        \A a \in Actor, g \in 1 .. MaxSets :
            alarm[a].gen = g ~> \/ alarm[a].gen # g
                                \/ \E o \in Owner : job[o][a].at = "dispatch" /\ job[o][a].gen = g
=============================================================================
