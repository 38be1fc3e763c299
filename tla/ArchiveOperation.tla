-------------------------- MODULE ArchiveOperation --------------------------
(***************************************************************************)
(* The server archive lifecycle of apps/backend/src/archive: export,       *)
(* restore, activate and discard, with the lease that serializes requests, *)
(* the compare-and-set on the archive_operation row, the two holds that    *)
(* stop writers (the counter freeze and, in a portable process, the        *)
(* process write gate) and the four stores a restore writes.               *)
(*                                                                         *)
(* A Caller is one HTTP archive request in flight.  Every await of the     *)
(* request between two accesses to shared state is a step boundary, so a   *)
(* request may stall anywhere, lose its lease to another, and resume.      *)
(*                                                                         *)
(* Data: a store is the set of origins of what it holds: Live for ordinary *)
(* writes, or the id of the operation that restored it.  The archive is    *)
(* five records, one per kind in the order export emits them.              *)
(***************************************************************************)
EXTENDS Naturals

CONSTANTS
    Caller,      \* archive requests that may be in flight together
    MaxOps,      \* bound: archive operations ever started
    Requests,    \* the request kinds that clients send
    ChunkSizes,  \* bound: how many archive lines one append carries
    Portable,    \* TRUE: one process, write gate; FALSE: Workers, guarded D1 batches
    NoopCounts,  \* an UPDATE that rewrites equal values reports one changed row
    Faults       \* faults that happen: "stall", "fail", "crash"

RequestKinds == {"startExport", "exportPage", "finishExport", "beginRestore",
                 "appendRestore", "activateRestore", "discardRestore"}
NoCaller == "none"

ASSUME ConstantsAssumption ==
    /\ NoCaller \notin Caller
    /\ MaxOps \in Nat \ {0}
    /\ Requests \subseteq RequestKinds
    /\ ChunkSizes \subseteq Nat \ {0}
    /\ Portable \in BOOLEAN
    /\ NoopCounts \in BOOLEAN
    /\ Faults \subseteq {"stall", "fail", "crash"}

VARIABLES
    row,          \* archive_operation, or NoRow
    nextId,       \* id the next operation gets
    outcome,      \* history: how each operation ended
    lease,        \* archive_lease: its holder and how much of its TTL is left
    counterState, \* counter_archive_operation.state + 1, 0 for a missing row
    freezeDb,     \* rows of counter_freeze
    freezeMem,    \* TelemetryCoordinator.freezes
    closedBy,     \* ProcessWrites.closedBy
    data,         \* what each store holds, by origin
    late,         \* history: a request wrote an unfenced store for an operation
                  \* that had moved on
    call,         \* per request: its step and its local variables
    rowWriter,    \* an ordinary database write
    recorder      \* a counter record or flush

stores   == <<data, counterState, late>>
holds    == <<freezeDb, freezeMem, closedBy>>
writers  == <<rowWriter, recorder>>
vars == <<row, nextId, outcome, lease, stores, holds, call, writers>>

Live == 0
OpId == 1 .. MaxOps
Store == {"rows", "counters", "backfill", "objects"}
NoRow == [id |-> 0]
NoPlan == [to |-> 0]

\* Archive records in export order; position p is the next record expected.
Records == <<"rows", "counters", "backfill", "objects", "end">>
Ended == 6
\* Stores outside the database batch, and the one an append writes next.
Outside == {"objects", "counters", "backfill"}
\* Stores that cannot check whether the operation of a write still holds.
Unfenced == {"objects", "backfill"}
NextOutside(left) ==
    IF "objects" \in left THEN "objects"
    ELSE IF "counters" \in left THEN "counters" ELSE "backfill"

\* RestoreState.discard: the step, the recorded template ids, and whether the
\* backfill state of those was cleaned.
Discard == [step : 0 .. 5, templates : {"unset", "none", "some"}, cleaned : BOOLEAN]
NoDiscard == [step |-> 0, templates |-> "unset", cleaned |-> FALSE]
FirstDiscard == [step |-> 1, templates |-> "unset", cleaned |-> FALSE]

Phase == {"freezing", "frozen", "preparing", "ready", "discarding", "releasing"}
Holding == Phase \ {"releasing"}
Row == [id : OpId, kind : {"export", "import"}, phase : Phase,
        position : 0 .. Ended, discard : Discard]

\* A request before it takes the lease.  op is the row it read, plan what it
\* is about to write, after where a release it completes returns to, and
\* drain whether it waits for writers admitted before its hold.
Idle == [at |-> "idle", req |-> "none", op |-> NoRow, plan |-> NoPlan,
         after |-> "release", drain |-> FALSE]

Goto(c, step) == call' = [call EXCEPT ![c].at = step]
\* The request answers, and withArchiveLease releases.
Answer(c) == call' = [call EXCEPT ![c] = [Idle EXCEPT !.at = "release"]]
\* The request answers changedError.
Conflict(c) == call' = [call EXCEPT ![c] = [Idle EXCEPT !.at = "conflict"]]

HoldsLease(c) == lease.holder = c
\* checkArchiveDeadline refuses; a request that lost its lease is long past it.
PastDeadline(c) == ~(HoldsLease(c) /\ lease.age = "fresh")

\* Mutant: a transition to the same state counts as lost.
SwapsDifferent(c, to) == row = call[c].op /\ to # row
\* The compare-and-set of transition reports one changed row.
Swaps(c, to) == row = call[c].op /\ (NoopCounts \/ to # row)
\* Mutant: clearStaleFreezes without reading the gate.
GateAssumedOpen == TRUE
GateOpen == row = NoRow /\ (Portable => closedBy = {})

-----------------------------------------------------------------------------
(* The lease: acquireArchiveLease, releaseArchiveLease, and time.           *)

Acquire(c, r) ==
    /\ call[c].at = "idle"
    /\ lease.holder = NoCaller \/ lease.age = "expired"
    /\ lease' = [holder |-> c, age |-> "fresh"]
    /\ call' = [call EXCEPT ![c].at = "read", ![c].req = r]
    /\ UNCHANGED <<row, nextId, outcome, stores, holds, writers>>

\* withArchiveLease's finally: hand the lease back if it is still this call's;
\* a failed hand-back is swallowed, and the lease waits out its TTL.
Release(c) ==
    /\ call[c].at \in {"release", "conflict"}
    /\ \/ lease' = IF HoldsLease(c) THEN [holder |-> NoCaller, age |-> "fresh"] ELSE lease
       \/ "fail" \in Faults /\ lease' = lease
    /\ call' = [call EXCEPT ![c] = Idle]
    /\ UNCHANGED <<row, nextId, outcome, stores, holds, writers>>

\* TTL passes: first the margin before expiry, then expiry.  It always runs out
\* on a lease nobody hands back, and on a live request's only if that one stalls.
Age ==
    /\ lease.holder # NoCaller
    /\ call[lease.holder].at = "idle" \/ "stall" \in Faults
    /\ \/ lease.age = "fresh" /\ lease' = [lease EXCEPT !.age = "margin"]
       \/ lease.age = "margin" /\ lease' = [lease EXCEPT !.age = "expired"]
    /\ UNCHANGED <<row, nextId, outcome, stores, holds, call, writers>>

-----------------------------------------------------------------------------
(* Entry: read the row, finish a pending release, or branch to the work.    *)

Exporting(r, phase) == r # NoRow /\ r.kind = "export" /\ r.phase = phase
Importing(r) == r # NoRow /\ r.kind = "import"

\* Mutant: a discard also releases `ready` at once.
UntouchingReady == {"preparing", "ready", "releasing"}
\* Phases a discard only releases: nothing was restored yet, or releasing finishes.
Untouching == {"preparing", "releasing"}

\* The first step of each request on the row it read, past any pending
\* release; "release" when it refuses.
FirstStep(req, r) ==
    CASE req = "startExport" ->
            IF Exporting(r, "freezing") THEN "close" ELSE "readHold"
      [] req = "exportPage" ->
            IF Exporting(r, "freezing") THEN "close" ELSE "release"
      [] req = "finishExport" ->
            IF r # NoRow /\ r.kind = "export" THEN "toReleasing" ELSE "release"
      [] req = "beginRestore" ->
            IF r = NoRow THEN "readHold"
            ELSE IF Importing(r) /\ r.phase = "preparing" THEN "close" ELSE "release"
      [] req = "appendRestore" ->
            IF Importing(r) /\ r.phase = "ready" /\ r.position < Ended
            THEN "choose" ELSE "release"
      [] req = "activateRestore" ->
            IF /\ Importing(r)
               /\ IF r.discard # NoDiscard THEN r.phase = "releasing" ELSE r.position = Ended
            THEN "toReleasing" ELSE "release"
      [] req = "discardRestore" ->
            IF ~Importing(r) THEN "release"
            ELSE IF r.phase \in Untouching THEN "toReleasing"
            ELSE IF r.phase = "ready" THEN "claim" ELSE "revoke"

Enter(c) ==
    LET step == FirstStep(call[c].req, row)
    IN IF step = "release" THEN Answer(c)
       ELSE call' = [call EXCEPT ![c].at = step, ![c].op = row, ![c].after = "release"]

\* completeRelease of a row found releasing, then back to `after`.
FinishPending(c, after) ==
    call' = [call EXCEPT ![c].at = "closeCounters", ![c].op = row, ![c].after = after]

Pending == row # NoRow /\ row.phase = "releasing"

\* readArchiveOperation, and finishPendingRelease for the requests that start work.
Read(c) ==
    /\ call[c].at = "read"
    /\ IF Pending /\ call[c].req \in {"startExport", "beginRestore"}
       THEN FinishPending(c, "reread") ELSE Enter(c)
    /\ UNCHANGED <<row, nextId, outcome, lease, stores, holds, writers>>

\* finishPendingRelease returns what it reads after completing the release.
Reread(c) ==
    /\ call[c].at = "reread"
    /\ Enter(c)
    /\ UNCHANGED <<row, nextId, outcome, lease, stores, holds, writers>>

\* holdServer finishes a pending release once more before it inserts.
ReadHold(c) ==
    /\ call[c].at = "readHold"
    /\ IF Pending THEN FinishPending(c, "insert") ELSE Goto(c, "insert")
    /\ UNCHANGED <<row, nextId, outcome, lease, stores, holds, writers>>

\* The row holdServer creates.
NewRow(req) ==
    [id |-> nextId,
     kind |-> IF req = "startExport" THEN "export" ELSE "import",
     phase |-> IF req = "startExport" THEN "freezing" ELSE "preparing",
     position |-> IF req = "startExport" THEN 0 ELSE 1, discard |-> NoDiscard]

\* holdServer's INSERT; the primary key refuses it while any operation holds.
Insert(c) ==
    /\ call[c].at = "insert"
    /\ \/ row # NoRow /\ Answer(c) /\ UNCHANGED <<row, nextId>>
       \/ /\ row = NoRow
          /\ nextId \in OpId
          /\ row' = NewRow(call[c].req)
          /\ nextId' = nextId + 1
          /\ call' = [call EXCEPT ![c].at = "close", ![c].op = row', ![c].after = "again"]
    /\ UNCHANGED <<outcome, lease, stores, holds, writers>>

-----------------------------------------------------------------------------
(* holdFor: stop the writers, then prove the operation still holds.         *)

\* closeProcessWrites adds the hold and snapshots the writes to wait for.
CloseProcess(c) ==
    /\ call[c].at = "close"
    /\ closedBy' = IF Portable THEN closedBy \cup {call[c].op.id} ELSE closedBy
    /\ call' = [call EXCEPT ![c].at = "freeze",
                            ![c].drain = Portable /\ rowWriter = "writing"]
    /\ UNCHANGED <<row, nextId, outcome, lease, stores, freezeDb, freezeMem, writers>>

\* TelemetryCoordinator.freeze refuses new records at once.
FreezeMemory(c) ==
    /\ call[c].at = "freeze"
    /\ ~call[c].drain
    /\ freezeMem' = freezeMem \cup {call[c].op.id}
    /\ Goto(c, "freezeDurably")
    /\ UNCHANGED <<row, nextId, outcome, lease, stores, freezeDb, closedBy, writers>>

\* Mutant: freeze without Promise.allSettled of the admitted work.
FreezeUnsettled(c) ==
    /\ call[c].at = "freezeDurably"
    /\ freezeDb' = freezeDb \cup {call[c].op.id}
    /\ call' = [call EXCEPT ![c].at = "verifyHold", ![c].drain = FALSE]
    /\ UNCHANGED <<row, nextId, outcome, lease, stores, freezeMem, closedBy, writers>>

\* ... then makes the freeze durable and waits for the admitted work.
FreezeDurably(c) ==
    /\ call[c].at = "freezeDurably"
    /\ freezeDb' = freezeDb \cup {call[c].op.id}
    /\ call' = [call EXCEPT ![c].at = "verifyHold",
                            ![c].drain = recorder.step = "writing"]
    /\ UNCHANGED <<row, nextId, outcome, lease, stores, freezeMem, closedBy, writers>>

\* The row is read again after the freeze; a hold that lost is undone.  The
\* request that inserted the row holds twice: holdServer, then settleFreeze or
\* prepare.
VerifyHold(c) ==
    /\ call[c].at = "verifyHold"
    /\ ~call[c].drain
    /\ LET ours == row.id = call[c].op.id
           step == IF ~(ours /\ row.phase \in Holding)
                   THEN IF ours THEN "unfreezeOurs" ELSE "unfreeze"
                   ELSE IF call[c].after = "again" THEN "close"
                   ELSE IF call[c].op.kind = "export" THEN "toFrozen" ELSE "beginImport"
       IN call' = [call EXCEPT ![c].at = step, ![c].after = "release"]
    /\ UNCHANGED <<row, nextId, outcome, lease, stores, holds, writers>>

\* holdFor undoes the freeze: thaw deletes the row, then drops the memory copy.
UndoFreeze(c) ==
    /\ call[c].at \in {"unfreezeOurs", "unfreeze"}
    /\ freezeDb' = freezeDb \ {call[c].op.id}
    /\ Goto(c, IF call[c].at = "unfreeze" THEN "unhold" ELSE "unholdOurs")
    /\ UNCHANGED <<row, nextId, outcome, lease, stores, freezeMem, closedBy, writers>>

\* The process gate opens too, unless a release of this operation will open it.
UndoHold(c) ==
    /\ call[c].at \in {"unholdOurs", "unhold"}
    /\ freezeMem' = freezeMem \ {call[c].op.id}
    /\ closedBy' = IF call[c].at = "unhold" THEN closedBy \ {call[c].op.id} ELSE closedBy
    /\ Conflict(c)
    /\ UNCHANGED <<row, nextId, outcome, lease, stores, freezeDb, writers>>

\* settleFreeze publishes frozen; prepare publishes ready.
Publish(c) ==
    /\ call[c].at \in {"toFrozen", "toReady"}
    /\ LET published == IF call[c].at = "toFrozen" THEN "frozen" ELSE "ready"
           to == [call[c].op EXCEPT !.phase = published]
       IN IF Swaps(c, to) THEN row' = to /\ Answer(c)
          ELSE UNCHANGED row /\ Goto(c, "recheck")
    /\ UNCHANGED <<nextId, outcome, lease, stores, holds, writers>>

\* A lost publish is accepted when another request published the same phase.
Recheck(c) ==
    /\ call[c].at = "recheck"
    /\ LET published == IF call[c].op.kind = "export" THEN "frozen" ELSE "ready"
       IN IF row.id = call[c].op.id /\ row.phase = published THEN Answer(c) ELSE Conflict(c)
    /\ UNCHANGED <<row, nextId, outcome, lease, stores, holds, writers>>

-----------------------------------------------------------------------------
(* releaseServer and completeRelease.                                       *)

\* prepare reports its own refusal even when the row moved on; every other
\* caller reports changedError.
ToReleasing(c) ==
    /\ call[c].at = "toReleasing"
    /\ LET from == call[c].op
           to == [from EXCEPT !.phase = "releasing"]
       IN \/ /\ from.phase = "releasing"
             /\ Goto(c, "closeCounters")
             /\ UNCHANGED row
          \/ /\ from.phase # "releasing" /\ Swaps(c, to)
             /\ row' = to
             /\ call' = [call EXCEPT ![c].at = "closeCounters", ![c].op = to]
          \/ /\ from.phase # "releasing" /\ ~Swaps(c, to)
             /\ IF call[c].req = "beginRestore" THEN Answer(c) ELSE Conflict(c)
             /\ UNCHANGED row
    /\ UNCHANGED <<nextId, outcome, lease, stores, holds, writers>>

\* Mutant: the update without `AND state < to`.
AdvanceAny(id, to) == counterState' = [counterState EXCEPT ![id] = to]
\* moveCounterOperation only ever moves an operation's counter state forward.
Advance(id, to) ==
    counterState' = [counterState EXCEPT ![id] = IF @ < to THEN to ELSE @]

CloseCounters(c) ==
    /\ call[c].at = "closeCounters"
    /\ Advance(call[c].op.id, 3)
    /\ Goto(c, "delete")
    /\ UNCHANGED <<row, nextId, outcome, lease, data, late, holds, writers>>

\* How the operation whose row is deleted ended.
OutcomeOf(r) ==
    IF r.kind = "export" THEN "exported"
    ELSE IF r.discard # NoDiscard THEN "discarded"
    ELSE IF r.position = Ended THEN "activated" ELSE "cancelled"

\* The row goes only while it still carries this release's exact state.
DeleteRow(c) ==
    /\ call[c].at = "delete"
    /\ IF row = call[c].op
       THEN /\ row' = NoRow
            /\ outcome' = [outcome EXCEPT ![row.id] = OutcomeOf(row)]
       ELSE UNCHANGED <<row, outcome>>
    /\ Goto(c, "thaw")
    /\ UNCHANGED <<nextId, lease, stores, holds, writers>>

Thaw(c) ==
    /\ call[c].at = "thaw"
    /\ freezeDb' = freezeDb \ {call[c].op.id}
    /\ Goto(c, "reopen")
    /\ UNCHANGED <<row, nextId, outcome, lease, stores, freezeMem, closedBy, writers>>

Reopen(c) ==
    /\ call[c].at = "reopen"
    /\ freezeMem' = freezeMem \ {call[c].op.id}
    /\ closedBy' = closedBy \ {call[c].op.id}
    /\ IF call[c].after = "release" THEN Answer(c)
       ELSE call' = [call EXCEPT ![c].at = call[c].after, ![c].op = NoRow]
    /\ UNCHANGED <<row, nextId, outcome, lease, stores, freezeDb, writers>>

-----------------------------------------------------------------------------
(* prepare: behind the holds, prove the destination empty.                  *)

BeginImport(c) ==
    /\ call[c].at = "beginImport"
    /\ Advance(call[c].op.id, 1)
    /\ Goto(c, "checkEmpty")
    /\ UNCHANGED <<row, nextId, outcome, lease, data, late, holds, writers>>

\* occupiedLocations reads every store but the backfill state of templates.
Occupied == \E s \in Store \ {"backfill"} : data[s] # {}

\* A refusal hands the untouched destination back.
CheckEmpty(c) ==
    /\ call[c].at = "checkEmpty"
    /\ Goto(c, IF Occupied \/ PastDeadline(c) THEN "toReleasing" ELSE "toReady")
    /\ UNCHANGED <<row, nextId, outcome, lease, stores, holds, writers>>

-----------------------------------------------------------------------------
(* appendRestore: outside writes first, then one fenced batch.              *)

Least(a, b) == IF a < b THEN a ELSE b
Chunk(from, to) == {Records[p] : p \in from .. to - 1}

\* A client sends the next lines from the expected position, as far as they go.
ChooseChunk(c) ==
    /\ call[c].at = "choose"
    /\ \E n \in ChunkSizes :
         LET from == call[c].op.position
             to == Least(from + n, Ended)
         IN call' = [call EXCEPT ![c].at = "append",
                       ![c].plan = [to |-> to, left |-> Chunk(from, to) \cap Outside]]
    /\ UNCHANGED <<row, nextId, outcome, lease, stores, holds, writers>>

\* Mutant: a late append stops writing but still commits.
CheckAppendStops(c) ==
    /\ call[c].at = "append"
    /\ IF call[c].plan.left = {} \/ PastDeadline(c) THEN Goto(c, "commit") ELSE Goto(c, "write")
    /\ UNCHANGED <<row, nextId, outcome, lease, stores, holds, writers>>

\* Each outside write is preceded by checkArchiveDeadline.
CheckAppend(c) ==
    /\ call[c].at = "append"
    /\ IF call[c].plan.left = {} THEN Goto(c, "commit")
       ELSE IF PastDeadline(c) THEN Answer(c) ELSE Goto(c, "write")
    /\ UNCHANGED <<row, nextId, outcome, lease, stores, holds, writers>>

\* History: a write that its deadline check allowed lands when another request
\* has moved the operation on.
NoteLate(c, store) == late' = (late \/ (store \in Unfenced /\ row # call[c].op))

\* Mutant: importCounterRows without its claim.
ImportUnclaimed(id) == TRUE
\* importCounterRows' own transaction: the grant and the freeze are still there.
MayImport(id) == counterState[id] = 1 /\ id \in freezeDb

WriteOutside(c) ==
    /\ call[c].at = "write"
    /\ LET store == NextOutside(call[c].plan.left)
           id == call[c].op.id
       IN IF store = "counters" /\ ~MayImport(id)
          THEN Conflict(c) /\ UNCHANGED <<data, late>>
          ELSE /\ data' = [data EXCEPT ![store] = @ \cup {id}]
               /\ NoteLate(c, store)
               /\ call' = [call EXCEPT ![c].at = "append", ![c].plan.left = @ \ {store}]
    /\ UNCHANGED <<row, nextId, outcome, lease, counterState, holds, writers>>

\* archiveFence: the batch aborts unless state and lease are still this call's.
Fenced(c) == row = call[c].op /\ HoldsLease(c)

CommitAppend(c) ==
    /\ call[c].at = "commit"
    /\ LET to == call[c].plan.to
       IN IF Fenced(c)
          THEN /\ row' = [row EXCEPT !.position = to]
               /\ data' = IF "rows" \in Chunk(row.position, to)
                          THEN [data EXCEPT !["rows"] = @ \cup {row.id}] ELSE data
          ELSE UNCHANGED <<row, data>>
    /\ Answer(c)
    /\ UNCHANGED <<nextId, outcome, lease, counterState, late, holds, writers>>

-----------------------------------------------------------------------------
(* discardRestore: claim, then one bounded step per request.                *)

Discarding(o, d) == [o EXCEPT !.phase = "discarding", !.discard = d]

Claim(c) ==
    /\ call[c].at = "claim"
    /\ LET to == Discarding(call[c].op, FirstDiscard)
       IN IF Swaps(c, to) THEN row' = to /\ Goto(c, "revokeClaimed")
          ELSE UNCHANGED row /\ Conflict(c)
    /\ UNCHANGED <<nextId, outcome, lease, stores, holds, writers>>

\* beginCounterDiscard: the operation's own imports are refused from here on.
Revoke(c) ==
    /\ call[c].at \in {"revokeClaimed", "revoke"}
    /\ Advance(call[c].op.id, 2)
    /\ IF call[c].at = "revoke" THEN Goto(c, "discard") ELSE Answer(c)
    /\ UNCHANGED <<row, nextId, outcome, lease, data, late, holds, writers>>

StepStore == <<"backfill", "counters", "rows", "objects">>
NextStep(d) == [d EXCEPT !.step = @ + 1, !.cleaned = FALSE]
\* The ids to clean are read from the templates table before its rows go.
RecordTemplates(d) == [d EXCEPT !.templates = IF data["rows"] = {} THEN "none" ELSE "some"]
Restart(d) == [FirstDiscard EXCEPT !.templates = d.templates]

Save(c, d) == call' = [call EXCEPT ![c].at = "save", ![c].plan = d]
\* Out of lease time: keep the progress already made.
UnlessLate(c, step) == IF PastDeadline(c) THEN Save(c, call[c].op.discard) ELSE Goto(c, step)

\* One step of DISCARD_STEPS up to its outside call; step 5 is the final pass.
DiscardOne(c) ==
    /\ call[c].at = "discard"
    /\ LET d == call[c].op.discard
       IN CASE d.step = 1 /\ d.templates = "unset" -> Save(c, RecordTemplates(d))
            [] d.step = 1 /\ d.templates = "some" /\ ~d.cleaned -> UnlessLate(c, "wipe")
            [] d.step = 1 /\ (d.templates = "none" \/ d.cleaned) -> Save(c, NextStep(d))
            [] d.step = 2 -> UnlessLate(c, "wipe")
            [] d.step \in {3, 4} ->
                 IF data[StepStore[d.step]] = {} THEN Save(c, NextStep(d))
                 ELSE UnlessLate(c, "wipe")
            [] d.step = 5 ->
                 IF Occupied THEN Save(c, Restart(d))
                 ELSE IF d.templates = "some" THEN UnlessLate(c, "verifyBackfill")
                 ELSE Goto(c, "toReleasing")
            [] OTHER -> FALSE
    /\ UNCHANGED <<row, nextId, outcome, lease, stores, holds, writers>>

\* Progress once the step's store is wiped: rows and objects are checked again.
Wiped(d) == CASE d.step = 1 -> [d EXCEPT !.cleaned = TRUE]
              [] d.step = 2 -> NextStep(d)
              [] OTHER -> d

\* Mutant: discardCounterRows without its claim.
CleanUnclaimed(id) == TRUE
\* discardCounterRows' own transaction: the operation is cleaning.
MayClean(id) == counterState[id] = 2

\* discardState, discardCounterRows, the fenced row deletes, objects.delete.
Wipe(c) ==
    /\ call[c].at = "wipe"
    /\ LET d == call[c].op.discard
           store == StepStore[d.step]
       IN CASE store = "counters" /\ ~MayClean(call[c].op.id) ->
                 Conflict(c) /\ UNCHANGED <<data, late>>
            [] store = "rows" /\ ~Fenced(c) ->
                 Answer(c) /\ UNCHANGED <<data, late>>
            [] OTHER ->
                 /\ data' = [data EXCEPT ![store] = {}]
                 /\ NoteLate(c, store)
                 /\ Save(c, Wiped(d))
    /\ UNCHANGED <<row, nextId, outcome, lease, counterState, holds, writers>>

\* The final pass reads the backfill state of every recorded id.
VerifyBackfill(c) ==
    /\ call[c].at = "verifyBackfill"
    /\ IF data["backfill"] # {} THEN Save(c, Restart(call[c].op.discard))
       ELSE Goto(c, "toReleasing")
    /\ UNCHANGED <<row, nextId, outcome, lease, stores, holds, writers>>

SaveProgress(c) ==
    /\ call[c].at = "save"
    /\ LET to == Discarding(call[c].op, call[c].plan)
       IN IF Swaps(c, to) THEN row' = to /\ Answer(c)
          ELSE UNCHANGED row /\ Conflict(c)
    /\ UNCHANGED <<nextId, outcome, lease, stores, holds, writers>>

-----------------------------------------------------------------------------
(* Ordinary writers, which the holds must keep out.                         *)

\* fencedConnection.admit: the process gate is checked with no await before the
\* write.  Nothing closes a Worker's, so there only the commit matters.
AdmitRow ==
    /\ Portable
    /\ rowWriter = "idle"
    /\ closedBy = {}
    /\ rowWriter' = "writing"
    /\ UNCHANGED <<row, nextId, outcome, lease, stores, holds, call, recorder>>

\* The requests waiting at `step` have nothing left to wait for.
Drained(step) ==
    call' = [c \in Caller |-> [call[c] EXCEPT !.drain = @ /\ call[c].at # step]]

\* On D1 the batch leads with the guard, which fails while the row exists.
CommitRow ==
    /\ Portable => rowWriter = "writing"
    /\ data' = IF Portable \/ row = NoRow
               THEN [data EXCEPT !["rows"] = @ \cup {Live}] ELSE data
    /\ rowWriter' = "idle"
    /\ Drained("freeze")
    /\ UNCHANGED <<row, nextId, outcome, lease, counterState, late, holds, recorder>>

Recorder(step, seen) == recorder' = [step |-> step, seen |-> seen]

\* Mutant: a frozen coordinator refuses without looking for stale freezes.
StartRecordRefusing ==
    /\ recorder.step = "idle"
    /\ freezeMem = {}
    /\ Recorder("writing", {})
    /\ UNCHANGED <<row, nextId, outcome, lease, stores, holds, call, rowWriter>>

\* record and alarm: the freeze is checked with no await before admission.
StartRecord ==
    /\ recorder.step \in {"idle", "recheck"}
    /\ IF freezeMem = {} THEN Recorder("writing", {})
       ELSE IF recorder.step = "idle" THEN Recorder("observe", {})
       ELSE Recorder("idle", {})
    /\ UNCHANGED <<row, nextId, outcome, lease, stores, holds, call, rowWriter>>

\* clearStaleFreezes: read the durable freezes, then the gate, then thaw each.
ObserveFreezes ==
    /\ recorder.step = "observe"
    /\ IF freezeDb = {} THEN Recorder("recheck", {}) ELSE Recorder("gate", freezeDb)
    /\ UNCHANGED <<row, nextId, outcome, lease, stores, holds, call, rowWriter>>

CheckGate ==
    /\ recorder.step = "gate"
    /\ IF GateOpen THEN Recorder("thaw", recorder.seen) ELSE Recorder("recheck", {})
    /\ UNCHANGED <<row, nextId, outcome, lease, stores, holds, call, rowWriter>>

ThawStale ==
    /\ recorder.step = "thaw"
    /\ \E id \in recorder.seen :
         /\ freezeDb' = freezeDb \ {id}
         /\ freezeMem' = freezeMem \ {id}
         /\ IF recorder.seen = {id} THEN Recorder("recheck", {})
            ELSE Recorder("thaw", recorder.seen \ {id})
    /\ UNCHANGED <<row, nextId, outcome, lease, stores, closedBy, call, rowWriter>>

CommitRecord ==
    /\ recorder.step = "writing"
    /\ data' = [data EXCEPT !["counters"] = @ \cup {Live}]
    /\ Recorder("idle", {})
    /\ Drained("verifyHold")
    /\ UNCHANGED <<row, nextId, outcome, lease, counterState, late, holds, rowWriter>>

-----------------------------------------------------------------------------
(* Faults: a call that throws, a lost Worker, a restarted process.          *)

\* Between the durable and the in-memory half of a coordinator call.  The counter
\* Durable Object does both without yielding, so a Worker's caller sees neither
\* or both, and the object finishes even when its caller is gone.
MidCall == {"freezeDurably", "reopen", "unhold", "unholdOurs"}

\* An awaited call rejects.  Only completeRelease has a finally of its own:
\* a failed thaw still opens the process gate.
CallFails(c) ==
    /\ "fail" \in Faults
    /\ call[c].at \notin {"idle", "release", "conflict", "reopen"}
    /\ call[c].at = "freezeDurably" => Portable
    /\ closedBy' = IF call[c].at = "thaw" THEN closedBy \ {call[c].op.id} ELSE closedBy
    /\ freezeMem' = IF call[c].at \in {"unhold", "unholdOurs"}
                    THEN freezeMem \ {call[c].op.id} ELSE freezeMem
    /\ Answer(c)
    /\ UNCHANGED <<row, nextId, outcome, lease, stores, freezeDb, writers>>

\* A Worker isolate dies with its request; the lease waits out its TTL.
IsolateCrash(c) ==
    /\ "crash" \in Faults
    /\ ~Portable
    /\ call[c].at \notin MidCall \cup {"idle"}
    /\ call' = [call EXCEPT ![c] = Idle]
    /\ UNCHANGED <<row, nextId, outcome, lease, stores, holds, writers>>

\* Steps that wait for the counter coordinator.
InCounters == MidCall \cup {"verifyHold"}

\* Mutant: initialize does not read the durable freezes.
CountersRestartThawed ==
    /\ "crash" \in Faults
    /\ ~Portable
    /\ freezeMem' = {}
    /\ recorder' = [step |-> "idle", seen |-> {}]
    /\ call' = [c \in Caller |-> IF call[c].at \in InCounters
                                 THEN [Idle EXCEPT !.at = "release"] ELSE call[c]]
    /\ UNCHANGED <<row, nextId, outcome, lease, stores, freezeDb, closedBy, rowWriter>>

\* The counter Durable Object restarts: calls into it reject, initialize reloads.
CountersRestart ==
    /\ "crash" \in Faults
    /\ ~Portable
    /\ freezeMem' = freezeDb
    /\ recorder' = [step |-> "idle", seen |-> {}]
    /\ call' = [c \in Caller |-> IF call[c].at \in InCounters
                                 THEN [Idle EXCEPT !.at = "release"] ELSE call[c]]
    /\ UNCHANGED <<row, nextId, outcome, lease, stores, freezeDb, closedBy, rowWriter>>

\* Mutant: a restarted process serves before it closes its gate.
ProcessRestartOpen ==
    /\ "crash" \in Faults
    /\ Portable
    /\ call' = [c \in Caller |-> Idle]
    /\ freezeMem' = freezeDb
    /\ closedBy' = {}
    /\ rowWriter' = "idle"
    /\ recorder' = [step |-> "idle", seen |-> {}]
    /\ UNCHANGED <<row, nextId, outcome, lease, stores, freezeDb>>

\* The portable process restarts: it closes its gate again before it serves.
ProcessRestart ==
    /\ "crash" \in Faults
    /\ Portable
    /\ call' = [c \in Caller |-> Idle]
    /\ freezeMem' = freezeDb
    /\ closedBy' = IF row = NoRow THEN {} ELSE {row.id}
    /\ rowWriter' = "idle"
    /\ recorder' = [step |-> "idle", seen |-> {}]
    /\ UNCHANGED <<row, nextId, outcome, lease, stores, freezeDb>>

-----------------------------------------------------------------------------
Init ==
    /\ row = NoRow
    /\ nextId = 1
    /\ outcome = [i \in OpId |-> "none"]
    /\ lease = [holder |-> NoCaller, age |-> "fresh"]
    /\ counterState = [i \in OpId |-> 0]
    /\ freezeDb = {} /\ freezeMem = {} /\ closedBy = {}
    /\ data = [s \in Store |-> {}]
    /\ late = FALSE
    /\ call = [c \in Caller |-> Idle]
    /\ rowWriter = "idle"
    /\ recorder = [step |-> "idle", seen |-> {}]

HoldFor(c) ==
    \/ CloseProcess(c) \/ FreezeMemory(c) \/ FreezeDurably(c) \/ VerifyHold(c)
    \/ UndoFreeze(c) \/ UndoHold(c) \/ Publish(c) \/ Recheck(c)

ReleaseServer(c) ==
    ToReleasing(c) \/ CloseCounters(c) \/ DeleteRow(c) \/ Thaw(c) \/ Reopen(c)

Restore(c) ==
    \/ BeginImport(c) \/ CheckEmpty(c)
    \/ ChooseChunk(c) \/ CheckAppend(c) \/ WriteOutside(c) \/ CommitAppend(c)

DiscardRestore(c) ==
    \/ Claim(c) \/ Revoke(c) \/ DiscardOne(c) \/ Wipe(c) \/ VerifyBackfill(c)
    \/ SaveProgress(c)

\* The steps a request in flight takes by itself.
Proceed(c) ==
    \/ Read(c) \/ Reread(c) \/ ReadHold(c) \/ Insert(c) \/ Release(c)
    \/ HoldFor(c) \/ ReleaseServer(c) \/ Restore(c) \/ DiscardRestore(c)

Write == AdmitRow \/ CommitRow
RecordOrFlush == StartRecord \/ ObserveFreezes \/ CheckGate \/ ThawStale \/ CommitRecord
Faulty == (\E c \in Caller : CallFails(c) \/ IsolateCrash(c)) \/ CountersRestart \/ ProcessRestart

Next ==
    \/ \E c \in Caller, r \in Requests : Acquire(c, r)
    \/ \E c \in Caller : Proceed(c)
    \/ Age \/ Write \/ RecordOrFlush \/ Faulty

Spec == Init /\ [][Next]_vars

\* Assumed of the clients, not seen to by the code: they go on recording.  An
\* alarm recurs while the coordinator is frozen only if one was set before: freeze
\* sets none, and reconcileAlarm deletes the one there is when nothing is pending.
RecordsKeepComing == WF_vars(StartRecord)

\* A record, a freeze or a thaw that the coordinator has begun goes on.  No archive
\* request is assumed to arrive or to continue.
FairSpec ==
    /\ Spec
    /\ RecordsKeepComing
    /\ WF_vars(ObserveFreezes \/ CheckGate \/ ThawStale \/ CommitRecord)
    /\ \A c \in Caller : WF_vars(FreezeDurably(c) \/ UndoHold(c) \/ Reopen(c))

-----------------------------------------------------------------------------
Steps == {"idle", "release", "conflict", "read", "reread", "readHold", "insert",
          "close", "freeze", "freezeDurably", "verifyHold", "unfreeze",
          "unfreezeOurs", "unhold", "unholdOurs", "toFrozen", "toReady",
          "recheck", "toReleasing", "closeCounters", "delete", "thaw", "reopen",
          "beginImport", "checkEmpty", "choose", "append", "write", "commit",
          "claim", "revokeClaimed", "revoke", "discard", "wipe",
          "verifyBackfill", "save"}
Appending == [to : 1 .. Ended, left : SUBSET Outside]
Call == [at : Steps, req : RequestKinds \cup {"none"}, op : Row \cup {NoRow},
         plan : {NoPlan} \cup Appending \cup Discard,
         after : {"release", "again", "reread", "insert"}, drain : BOOLEAN]

RowTypeOK ==
    /\ row \in Row \cup {NoRow}
    /\ nextId \in 1 .. MaxOps + 1
    /\ outcome \in [OpId -> {"none", "exported", "activated", "discarded", "cancelled"}]
    /\ lease \in [holder : Caller \cup {NoCaller}, age : {"fresh", "margin", "expired"}]

HoldTypeOK ==
    /\ freezeDb \subseteq OpId /\ freezeMem \subseteq OpId /\ closedBy \subseteq OpId
    /\ rowWriter \in {"idle", "writing"}
    /\ recorder \in [step : {"idle", "observe", "gate", "thaw", "recheck", "writing"},
                     seen : SUBSET OpId]

StoreTypeOK ==
    /\ counterState \in [OpId -> 0 .. 3]
    /\ data \in [Store -> SUBSET (OpId \cup {Live})]
    /\ late \in BOOLEAN

\* Every variable of the lifecycle has its shape: ids are of started
\* operations, requests are at a step of gate.ts, operation.ts or restore.ts.
TypeOK == RowTypeOK /\ HoldTypeOK /\ StoreTypeOK /\ call \in [Caller -> Call]

Held == row # NoRow /\ row.phase \in {"frozen", "ready", "discarding"}

\* Once an operation published frozen or ready, its freeze and (portable) its
\* process hold stay in place, durably and in memory, whatever stale requests,
\* stale-freeze cleaners and restarts do: the operation is never half held.
HoldsCoverOperation ==
    Held => /\ row.id \in freezeDb
            /\ row.id \in freezeMem
            /\ Portable => row.id \in closedBy

\* No write that was admitted before the hold is still running once the
\* operation reads or restores the dataset: the drain waited for all of them.
AdmittedWritesDrained ==
    Held => recorder.step # "writing" /\ (Portable => rowWriter = "idle")

\* Stores whose contents the requests answer for: all, until a write is late.
Sure == IF late THEN Store \ Unfenced ELSE Store

\* An import never advances past a record whose data is not stored, and what
\* it activates is the whole archive: appends of stalled, crashed and repeated
\* requests neither skip a record nor lose one, unless a write came late.
RestoreComplete ==
    /\ row # NoRow /\ row.kind = "import" /\ row.discard = NoDiscard =>
         \A p \in 1 .. Ended - 2 :
            Records[p] \in Sure /\ row.position > p => row.id \in data[Records[p]]
    /\ \A i \in OpId : outcome[i] = "activated" => \A s \in Sure : i \in data[s]

\* An operation that was discarded or cancelled leaves nothing in the rows, the
\* counters and the objects, then or later.  Objects have no fence of their own:
\* there it holds unless a write came late.
DiscardLeavesNothing ==
    \A i \in OpId : outcome[i] \in {"discarded", "cancelled"} =>
        \A s \in Sure \ {"backfill"} : i \notin data[s]

\* The lease serializes requests: while none of them stalls, no write is late,
\* however calls fail and servers restart, the holds cover the operation, and a
\* discarded restore leaves nothing behind.
SafeThroughFaults ==
    "stall" \notin Faults => ~late /\ HoldsCoverOperation /\ DiscardLeavesNothing

\* An operation that ended cannot come back: no stale request makes it the row
\* again or reopens its counters to imports or cleanup.
EndedForGood ==
    \A i \in OpId : outcome[i] # "none" => counterState[i] = 3 /\ row.id # i

\* The same for the backfill state of the templates it restored.
DiscardLeavesNoBackfill ==
    \A i \in OpId : outcome[i] \in {"discarded", "cancelled"} => i \notin data["backfill"]

\* A request answers changedError only when the operation really moved on from
\* the state that request read.
ConflictMeansChanged ==
    [][\A c \in Caller : call'[c].at = "conflict" /\ call[c].at # "conflict"
                          => row # call[c].op]_vars

\* No archive request, however stale, removes what ordinary writers stored.  The
\* exception is a counter record that slipped into an operation being released
\* while a stale request undid its freeze: a stale cleanup may still take it.
LiveDataSurvives ==
    [][\A s \in Store : Live \in data[s] /\ Live \notin data'[s] =>
         s = "counters" /\ row # NoRow /\ row.phase = "releasing"]_vars

\* A frozen dataset does not change between two pages of its export; only a late
\* write of an earlier restore can reach its unfenced stores.
FrozenDatasetStable ==
    [][row # NoRow /\ row.phase = "frozen" /\ row' = row =>
         \A s \in Store : data'[s] = data[s] \/ (s \in Unfenced /\ late')]_vars

\* As long as records keep coming, and once the coordinator stops crashing, a
\* freeze that outlived its operation is dropped by the records it refuses, or
\* another operation starts.
StaleFreezeHeals ==
    <>[][~CountersRestart]_vars =>
        (row = NoRow /\ freezeMem # {}) ~> (row # NoRow \/ freezeMem = {})
=============================================================================
