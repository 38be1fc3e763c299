------------------------- MODULE ArchiveDataProofs -------------------------
(***************************************************************************)
(* What the archive lifecycle promises about the data, for any number of   *)
(* callers and operations, any faults and either platform: an import is    *)
(* complete or leaves nothing, an export reads a dataset that stands       *)
(* still, no request takes what ordinary writers stored, and a request     *)
(* reports a change only when there was one.                               *)
(***************************************************************************)
EXTENDS ArchiveSafetyProofs

(***************************************************************************)
(* The grants of the counter coordinator.  Only the operation of the row   *)
(* may import or clean, and its grant follows its phase.                   *)
(***************************************************************************)
\* The grant of the row's operation in each of its phases.
Granted(r) ==
    LET n == counterState[r.id]
    IN  /\ r.phase \in {"freezing", "frozen"} => n = 0
        /\ r.phase = "preparing" => n \in {0, 1}
        /\ r.phase = "ready" => n = 1
        /\ r.phase = "discarding" => n \in {1, 2}
        /\ n = 2 => r.discard # NoDiscard
        /\ r.phase = "releasing" /\ r.discard # NoDiscard => n >= 2

\* A discard revoked the grant before its steps, and it releases after them.
Revoked(k) ==
    \/ k.at \in Discards \ {"revoke"}
    \/ k.at = "toReleasing" /\ k.op.phase = "discarding"

\* What a request has already asked of the coordinator.
Asked(k) ==
    /\ k.at \in {"checkEmpty", "toReady"} => counterState[k.op.id] >= 1
    /\ Revoked(k) => counterState[k.op.id] >= 2

GrantInv ==
    /\ \A i \in OpId : i < nextId /\ row.id # i => outcome[i] # "none"
    /\ \A i \in OpId : i >= nextId => counterState[i] = 0
    /\ row # NoRow => Granted(row)
    /\ \A c \in Caller : call[c].at \in Fetched => Asked(call[c])

LEMMA FirstRelease ==
  ASSUME NEW q \in RequestKinds, NEW r \in Row, Lawful(r), FirstStep(q, r) = "toReleasing"
  PROVE  r.phase # "discarding"
<1>1. NoDiscard.step = 0
  BY DEF NoDiscard
<1>. QED BY <1>1 DEF FirstStep, Exporting, Importing, Untouching, Lawful, RequestKinds

\* moveCounterOperation never takes a grant back.
LEMMA AdvanceTo ==
  ASSUME TypeInv, NEW j \in OpId, NEW to \in 0 .. 3, Advance(j, to)
  PROVE  /\ \A i \in OpId : counterState'[i] >= counterState[i]
         /\ \A i \in OpId \ {j} : counterState'[i] = counterState[i]
         /\ counterState'[j] >= to
         /\ counterState'[j] \in {to, counterState[j]}
<1>1. \A i \in OpId : counterState[i] \in 0 .. 3
  BY DEF TypeInv, StoreTypeOK
<1>2. \A i \in OpId : counterState'[i] = IF i = j /\ counterState[i] < to THEN to ELSE counterState[i]
  BY DEF Advance, TypeInv, StoreTypeOK
<1>. QED BY <1>1, <1>2

LEMMA GrantKept ==
  ASSUME TypeInv, TypeInv', CourseInv, GrantInv, RowStep, UNCHANGED <<nextId, outcome>>,
         row' = row \/ (row # NoRow /\ row' # NoRow /\ row'.id = row.id),
         \A i \in OpId : /\ counterState'[i] >= counterState[i]
                         /\ i >= nextId => counterState'[i] = counterState[i],
         row' # NoRow => Granted(row)',
         \A d \in Caller : call'[d].at \in Fetched =>
           \/ call'[d].at = call[d].at /\ call'[d].op = call[d].op
           \/ Asked(call[d])'
  PROVE  GrantInv'
<1>1. ASSUME NEW d \in Caller, call'[d].at \in Fetched PROVE Asked(call[d])'
  <2>1. CASE call'[d].at = call[d].at /\ call'[d].op = call[d].op
    <3>1. call[d].op.id \in OpId /\ Asked(call[d])
      BY <1>1, <2>1, ShapeOf DEF GrantInv
    <3>2. counterState[call[d].op.id] \in Nat /\ counterState'[call[d].op.id] \in Nat
      BY <3>1 DEF TypeInv, StoreTypeOK
    <3>3. counterState'[call[d].op.id] >= counterState[call[d].op.id]
      BY <3>1
    <3>. QED BY <2>1, <3>1, <3>2, <3>3 DEF Asked, Revoked
  <2>. QED BY <1>1, <2>1
<1>2. \A i \in OpId : i < nextId' /\ row'.id # i => outcome'[i] # "none"
  BY DEF GrantInv
<1>3. \A i \in OpId : i >= nextId' => counterState'[i] = 0
  BY DEF GrantInv
<1>. QED BY <1>1, <1>2, <1>3 DEF GrantInv

\* A step of c that asks nothing of the coordinator and leaves the row alone.
LEMMA StillGrant ==
  ASSUME TypeInv, TypeInv', CourseInv, GrantInv, RowStep,
         UNCHANGED <<row, nextId, outcome, counterState>>,
         \A d \in Caller : call'[d].at \in Fetched =>
           \/ call'[d].at = call[d].at /\ call'[d].op = call[d].op
           \/ Asked(call[d])'
  PROVE  GrantInv'
<1>1. \A i \in OpId : counterState[i] \in Nat
  BY DEF TypeInv, StoreTypeOK
<1>2. row' # NoRow => Granted(row)'
  BY DEF GrantInv, Granted
<1>. QED BY <1>1, <1>2, GrantKept

LEMMA RequestGrant ==
  ASSUME TypeInv, TypeInv', CourseInv, GrantInv, RowStep, NEW c \in Caller,
         \/ \E r \in Requests : Acquire(c, r)
         \/ Release(c) \/ Read(c) \/ Reread(c) \/ ReadHold(c) \/ Insert(c)
  PROVE  GrantInv'
<1>0. \A d \in Caller \ {c} : call'[d] = call[d]
  BY RequestTo
<1>1. UNCHANGED <<outcome, counterState>>
  BY DEF Acquire, Release, Read, Reread, ReadHold, Insert, stores
<1>2. call'[c].at \in Fetched => Asked(call[c])'
  <2>1. call'[c].at \notin {"checkEmpty", "toReady"} \cup (Discards \ {"revoke"})
    BY RequestTo DEF Discards
  <2>2. ASSUME call'[c].at = "toReleasing" PROVE call'[c].op.phase # "discarding"
    <3>1. PICK q \in RequestKinds : FirstStep(q, row') = "toReleasing"
      BY <2>2, RequestTo
    <3>2. call'[c].op = row' /\ row' \in Row
      BY <2>2, RequestTo DEF TypeInv, CallsOK, Shape, Fetched, Working, Steps
    <3>3. Lawful(row')
      BY <3>2, NoRowNotRow DEF RowStep, CourseInv, Lawful
    <3>. QED BY <3>1, <3>2, <3>3, FirstRelease
  <2>. QED BY <2>1, <2>2 DEF Asked, Revoked
<1>3. CASE UNCHANGED <<row, nextId>>
  BY <1>0, <1>1, <1>2, <1>3, StillGrant
<1>4. CASE row = NoRow /\ nextId \in OpId /\ row' = NewRow(call[c].req) /\ nextId' = nextId + 1
  <2>1. row'.id = nextId /\ row'.phase \in {"freezing", "preparing"} /\ nextId \in Nat
    BY <1>4, NextIdNat DEF NewRow
  <2>2. counterState'[nextId] = 0
    BY <1>1, <1>4, <2>1 DEF GrantInv
  <2>3. row' # NoRow => Granted(row)'
    BY <2>1, <2>2 DEF Granted
  <2>4. \A i \in OpId : i < nextId' /\ row'.id # i => outcome'[i] # "none"
    <3>1. \A i \in OpId : i < nextId' /\ i # nextId => i < nextId /\ row.id # i
      BY <1>4, <2>1 DEF OpId, NoRow
    <3>. QED BY <1>1, <2>1, <3>1 DEF GrantInv
  <2>5. \A i \in OpId : i >= nextId' => counterState'[i] = 0
    BY <1>1, <1>4, <2>1 DEF GrantInv, OpId
  <2>6. \A d \in Caller : call'[d].at \in Fetched => Asked(call[d])'
    BY <1>0, <1>1, <1>2 DEF GrantInv, Asked, Revoked
  <2>. QED BY <2>3, <2>4, <2>5, <2>6 DEF GrantInv
<1>. QED BY <1>3, <1>4 DEF Acquire, Release, Read, Reread, ReadHold, Insert

\* Where the steps of a hold lead.
LEMMA HoldTo ==
  ASSUME TypeInv, NEW c \in Caller, HoldFor(c)
  PROVE  /\ \A d \in Caller \ {c} : call'[d] = call[d]
         /\ call'[c].at \in InHold \cup Undoing
                            \cup {"toFrozen", "beginImport", "recheck", "release", "conflict", "idle"}
         /\ call'[c].at \in Fetched => call'[c].op = call[c].op
         /\ \/ row' = row
            \/ /\ row = call[c].op /\ call'[c].at \notin Fetched
               /\ \/ call[c].at = "toFrozen" /\ row' = [row EXCEPT !.phase = "frozen"]
                  \/ call[c].at = "toReady" /\ row' = [row EXCEPT !.phase = "ready"]
<1>0. call[c] \in Call
  BY DEF TypeInv, CallsOK
<1>1. CASE CloseProcess(c)
  BY <1>0, <1>1 DEF CloseProcess, InHold, TypeInv, CallsOK, Call
<1>2. CASE FreezeMemory(c)
  BY <1>2, GotoTo DEF FreezeMemory, InHold
<1>3. CASE FreezeDurably(c)
  BY <1>0, <1>3 DEF FreezeDurably, InHold, TypeInv, CallsOK, Call
<1>4. CASE VerifyHold(c)
  <2>1. PICK s \in {"unfreezeOurs", "unfreeze", "close", "toFrozen", "beginImport"} :
          call' = [call EXCEPT ![c].at = s, ![c].after = "release"]
    BY <1>4 DEF VerifyHold
  <2> DEFINE k == [call[c] EXCEPT !.at = s, !.after = "release"]
  <2>2. call' = [call EXCEPT ![c] = k]
    BY <2>1 DEF TypeInv, CallsOK
  <2>3. k.at = s /\ k.op = call[c].op
    BY <1>0 DEF Call
  <2>4. row' = row
    BY <1>4 DEF VerifyHold
  <2> HIDE DEF k
  <2>. QED BY <2>2, <2>3, <2>4, CallTo DEF InHold, Undoing
<1>5. CASE UndoFreeze(c) \/ UndoHold(c) \/ Recheck(c)
  <2>1. Answer(c) \/ Conflict(c) \/ Goto(c, "unhold") \/ Goto(c, "unholdOurs")
    BY <1>5 DEF UndoFreeze, UndoHold, Recheck
  <2>2. row' = row
    BY <1>5 DEF UndoFreeze, UndoHold, Recheck
  <2>. QED BY <2>1, <2>2, AnswerTo, GotoTo DEF Undoing
<1>6. CASE Publish(c)
  <2>1. CASE Answer(c) /\ row' # row
    <3>1. /\ row = call[c].op
          /\ \/ call[c].at = "toFrozen" /\ row' = [row EXCEPT !.phase = "frozen"]
             \/ call[c].at = "toReady" /\ row' = [row EXCEPT !.phase = "ready"]
      BY <1>6, <2>1 DEF Publish, Swaps
    <3>. QED BY <2>1, <3>1, AnswerTo
  <2>2. CASE row' = row
    <3>1. Answer(c) \/ Goto(c, "recheck")
      BY <1>6 DEF Publish
    <3>. QED BY <2>2, <3>1, AnswerTo, GotoTo
  <2>3. row' = row \/ Answer(c)
    BY <1>6 DEF Publish
  <2>. QED BY <2>1, <2>2, <2>3
<1>. QED BY <1>1, <1>2, <1>3, <1>4, <1>5, <1>6 DEF HoldFor

\* Another state of the row's operation, with the same grant.
LEMMA SameGrant ==
  ASSUME TypeInv, TypeInv', CourseInv, GrantInv, RowStep, NEW c \in Caller,
         UNCHANGED <<nextId, outcome, counterState>>, row \in Row, row' \in Row, row'.id = row.id,
         Granted(row)', \A d \in Caller \ {c} : call'[d] = call[d],
         call'[c].at \in Fetched => Asked(call[c])'
  PROVE  GrantInv'
<1>1. \A i \in OpId : counterState[i] \in Nat
  BY DEF TypeInv, StoreTypeOK
<1>. QED BY <1>1, NoRowNotRow, GrantKept

LEMMA HoldGrant ==
  ASSUME TypeInv, TypeInv', CourseInv, GrantInv, RowStep, NEW c \in Caller, HoldFor(c)
  PROVE  GrantInv'
<1>0. call[c].at \in Fetched
  BY DEF HoldFor, CloseProcess, FreezeMemory, FreezeDurably, VerifyHold, UndoFreeze, UndoHold,
         Publish, Recheck, Fetched, Working, Steps
<1>1. call[c].op \in Row /\ OpShape(call[c]) /\ Lawful(call[c].op) /\ Asked(call[c])
  BY <1>0, ShapeOf DEF GrantInv
<1>2. UNCHANGED <<nextId, outcome, counterState>>
  BY DEF HoldFor, CloseProcess, FreezeMemory, FreezeDurably, VerifyHold, UndoFreeze, UndoHold,
         Publish, Recheck, stores
<1>3. call'[c].at \in Fetched => Asked(call[c])'
  BY HoldTo DEF Asked, Revoked, InHold, Undoing, Discards
<1>4. CASE row' = row
  BY <1>2, <1>3, <1>4, HoldTo, StillGrant
<1>5. ASSUME NEW p \in {"frozen", "ready"}, row = call[c].op, row' = [row EXCEPT !.phase = p],
             p = "frozen" => call[c].at = "toFrozen", p = "ready" => call[c].at = "toReady"
      PROVE  GrantInv'
  <2>1. row \in Row /\ row' \in Row /\ row'.id = row.id /\ row'.phase = p /\ row'.discard = row.discard
    BY <1>1, <1>5 DEF Row, Phase
  <2>2. Granted(row) /\ row.id \in OpId
    BY <1>1, <1>5, NoRowNotRow, RowFields DEF GrantInv
  <2>3. counterState'[row.id] = counterState[row.id] /\ counterState[row.id] \in Nat
    BY <1>2, <2>2 DEF TypeInv, StoreTypeOK
  <2>4. Granted(row)'
    <3>1. CASE p = "frozen"
      BY <1>1, <1>5, <2>1, <2>2, <2>3, <3>1 DEF Granted, OpShape
    <3>2. CASE p = "ready"
      BY <1>1, <1>5, <2>1, <2>2, <2>3, <3>2 DEF Granted, OpShape, Preparing, Asked
    <3>. QED BY <3>1, <3>2
  <2>. QED BY <1>2, <1>3, <2>1, <2>4, HoldTo, SameGrant
<1>. QED BY <1>4, <1>5, HoldTo

LEMMA ReleaseGrant ==
  ASSUME TypeInv, TypeInv', CourseInv, GrantInv, RowStep, NEW c \in Caller, ReleaseServer(c)
  PROVE  GrantInv'
<1>0. call[c].at \in Fetched
  BY ReleaseTo DEF Releases, Fetched, Working, Steps
<1>1. /\ call[c].op \in Row /\ call[c].op.id \in OpId /\ OpShape(call[c]) /\ Lawful(call[c].op)
      /\ Asked(call[c]) /\ (row # NoRow => Leads(call[c].op, row)) /\ call[c].op.id < nextId
  BY <1>0, ShapeOf DEF GrantInv
<1>2. call'[c].at \in Fetched => Asked(call[c])'
  BY ReleaseTo DEF Asked, Revoked, Releases, Discards
<1>3. \A d \in Caller \ {c} : call'[d] = call[d]
  BY ReleaseTo
<1>4. CASE ToReleasing(c)
  <2>0. UNCHANGED <<nextId, outcome, counterState>> /\ call[c].at = "toReleasing"
    BY <1>4 DEF ToReleasing, stores
  <2>1. CASE row' = row
    BY <1>2, <1>3, <2>0, <2>1, StillGrant
  <2>2. CASE row = call[c].op /\ row' = [row EXCEPT !.phase = "releasing"]
    <3>1. /\ row \in Row /\ row' \in Row /\ row'.id = row.id /\ row'.phase = "releasing"
          /\ row'.discard = row.discard
      BY <1>1, <2>2 DEF Row, Phase
    <3>2. Granted(row) /\ row.id \in OpId
      BY <1>1, <2>2, NoRowNotRow DEF GrantInv
    <3>3. row.discard # NoDiscard => row.phase \in {"discarding", "releasing"}
      BY <1>1, <2>2 DEF Lawful, Row
    <3>4. row.discard # NoDiscard => counterState[row.id] >= 2
      BY <1>1, <2>0, <2>2, <3>2, <3>3 DEF Asked, Revoked, Granted
    <3>5. Granted(row)'
      BY <2>0, <3>1, <3>2, <3>4 DEF Granted
    <3>. QED BY <1>2, <1>3, <2>0, <3>1, <3>5, SameGrant
  <2>. QED BY <1>4, <2>1, <2>2 DEF ToReleasing, Swaps
<1>5. CASE CloseCounters(c)
  <2>0. UNCHANGED <<row, nextId, outcome>> /\ Advance(call[c].op.id, 3) /\ call[c].at = "closeCounters"
    BY <1>5 DEF CloseCounters
  <2>1. ASSUME row' # NoRow PROVE Granted(row)'
    <3>1. row \in Row /\ row.id \in OpId /\ Granted(row)
      BY <2>0, <2>1, RowFields DEF GrantInv, TypeInv, RowTypeOK
    <3>2. CASE row.id = call[c].op.id
      <4>1. row.phase = "releasing"
        BY <1>1, <2>0, <2>1, <3>2 DEF Leads, OpShape, Releases
      <4>2. counterState'[row.id] >= 3 /\ counterState'[row.id] \in Nat
        BY <1>1, <2>0, <3>1, <3>2, AdvanceTo DEF TypeInv, StoreTypeOK
      <4>. QED BY <2>0, <4>1, <4>2 DEF Granted
    <3>3. CASE row.id # call[c].op.id
      <4>1. counterState'[row.id] = counterState[row.id]
        BY <1>1, <2>0, <3>1, <3>3, AdvanceTo
      <4>. QED BY <2>0, <3>1, <4>1 DEF Granted
    <3>. QED BY <3>2, <3>3
  <2>2. \A i \in OpId : /\ counterState'[i] >= counterState[i]
                        /\ i >= nextId => counterState'[i] = counterState[i]
    <3>1. \A i \in OpId : i >= nextId => i # call[c].op.id
      BY <1>1, NextIdNat DEF OpId
    <3>. QED BY <1>1, <2>0, <3>1, AdvanceTo
  <2>. QED BY <1>2, <1>3, <2>0, <2>1, <2>2, GrantKept
<1>6. CASE DeleteRow(c)
  <2>0. UNCHANGED <<nextId, counterState>>
    BY <1>6 DEF DeleteRow, stores
  <2>1. CASE UNCHANGED <<row, outcome>>
    BY <1>2, <1>3, <2>0, <2>1, StillGrant
  <2>2. CASE row = call[c].op /\ row' = NoRow /\ outcome' = [outcome EXCEPT ![row.id] = OutcomeOf(row)]
    <3>1. \A i \in OpId : i < nextId => outcome'[i] # "none"
      <4>1. OutcomeOf(row) # "none"
        BY DEF OutcomeOf
      <4>2. outcome'[row.id] # "none"
        BY <1>1, <2>2, <4>1 DEF TypeInv, RowTypeOK
      <4>3. \A i \in OpId : i # row.id => outcome'[i] = outcome[i]
        BY <2>2 DEF TypeInv, RowTypeOK
      <4>. QED BY <4>2, <4>3 DEF GrantInv
    <3>2. \A d \in Caller : call'[d].at \in Fetched => Asked(call[d])'
      BY <1>2, <1>3, <2>0 DEF GrantInv, Asked, Revoked
    <3>. QED BY <2>0, <2>2, <3>1, <3>2 DEF GrantInv
  <2>. QED BY <1>6, <2>1, <2>2 DEF DeleteRow
<1>7. CASE Thaw(c) \/ Reopen(c)
  <2>1. UNCHANGED <<row, nextId, outcome, counterState>>
    BY <1>7 DEF Thaw, Reopen, stores
  <2>. QED BY <1>2, <1>3, <2>1, StillGrant
<1>. QED BY <1>4, <1>5, <1>6, <1>7 DEF ReleaseServer

LEMMA RestoreGrant ==
  ASSUME TypeInv, TypeInv', CourseInv, GrantInv, RowStep, NEW c \in Caller, Restore(c)
  PROVE  GrantInv'
<1>0. call[c].at \in Fetched
  BY RestoreTo DEF Appends, Fetched, Working, Steps
<1>1. /\ call[c].op \in Row /\ call[c].op.id \in OpId /\ OpShape(call[c]) /\ Lawful(call[c].op)
      /\ Asked(call[c]) /\ (row # NoRow => Leads(call[c].op, row)) /\ call[c].op.id < nextId
  BY <1>0, ShapeOf DEF GrantInv
<1>2. \A d \in Caller \ {c} : call'[d] = call[d]
  BY RestoreTo
<1>3. CASE BeginImport(c)
  <2>0. /\ UNCHANGED <<row, nextId, outcome>> /\ Advance(call[c].op.id, 1)
        /\ call[c].op.phase = "preparing" /\ call[c].op.kind = "import"
    BY <1>1, <1>3 DEF BeginImport, OpShape, Preparing, Lawful, Row
  <2>1. ASSUME row' # NoRow PROVE Granted(row)'
    <3>1. row \in Row /\ row.id \in OpId /\ Granted(row) /\ Lawful(row) /\ counterState[row.id] \in Nat
      BY <2>0, <2>1, RowFields DEF GrantInv, TypeInv, RowTypeOK, StoreTypeOK, CourseInv
    <3>2. CASE row.id = call[c].op.id
      <4>1. row.kind = "import"
        BY <1>1, <2>0, <2>1, <3>2 DEF Leads
      <4>2. counterState'[row.id] >= 1 /\ counterState'[row.id] \in {1, counterState[row.id]}
        BY <1>1, <2>0, <3>1, <3>2, AdvanceTo
      <4>3. row.phase \in {"preparing", "ready", "discarding", "releasing"}
        BY <3>1, <4>1 DEF Lawful
      <4>4. row'.id = row.id /\ row' = row /\ counterState'[row.id] \in Nat
        BY <2>0, <3>1 DEF TypeInv, StoreTypeOK
      <4> DEFINE n == counterState[row.id]
                 m == counterState'[row.id]
      <4>5. /\ row.phase = "preparing" => m \in {0, 1}
            /\ row.phase = "ready" => m = 1
            /\ row.phase = "discarding" => m \in {1, 2}
            /\ m = 2 => row.discard # NoDiscard
            /\ row.phase = "releasing" /\ row.discard # NoDiscard => m >= 2
        <5>1. /\ row.phase = "preparing" => n \in {0, 1}
              /\ row.phase = "ready" => n = 1
              /\ row.phase = "discarding" => n \in {1, 2}
              /\ n = 2 => row.discard # NoDiscard
              /\ row.phase = "releasing" /\ row.discard # NoDiscard => n >= 2
          BY <3>1 DEF Granted
        <5>2. n \in Nat /\ m >= n
          BY <2>0, <1>1, <3>1, AdvanceTo
        <5>3. m \in {1, n}
          BY <4>2
        <5> HIDE DEF n, m
        <5>. QED BY <5>1, <5>2, <5>3
      <4>. QED BY <4>3, <4>4, <4>5 DEF Granted
    <3>3. CASE row.id # call[c].op.id
      <4>1. counterState'[row.id] = counterState[row.id]
        BY <1>1, <2>0, <3>1, <3>3, AdvanceTo
      <4>. QED BY <2>0, <3>1, <4>1 DEF Granted
    <3>. QED BY <3>2, <3>3
  <2>2. \A i \in OpId : /\ counterState'[i] >= counterState[i]
                        /\ i >= nextId => counterState'[i] = counterState[i]
    <3>1. \A i \in OpId : i >= nextId => i # call[c].op.id
      BY <1>1, NextIdNat DEF OpId
    <3>. QED BY <1>1, <2>0, <3>1, AdvanceTo
  <2>3. Asked(call[c])'
    <3>1. call'[c].at = "checkEmpty" /\ call'[c].op = call[c].op
      BY <1>3, RestoreTo DEF Fetched, Working, Steps
    <3>2. counterState'[call[c].op.id] >= 1
      BY <1>1, <2>0, AdvanceTo
    <3>. QED BY <3>1, <3>2 DEF Asked, Revoked, Discards
  <2>. QED BY <1>2, <2>0, <2>1, <2>2, <2>3, GrantKept
<1>4. CASE CheckEmpty(c)
  <2>1. UNCHANGED <<row, nextId, outcome, counterState>> /\ call[c].at = "checkEmpty"
    BY <1>4 DEF CheckEmpty, stores
  <2>2. call'[c].at \in {"toReleasing", "toReady"} /\ call'[c].op = call[c].op
    BY <1>4, RestoreTo DEF Fetched, Working, Steps
  <2>3. Asked(call[c])'
    BY <1>1, <2>1, <2>2 DEF Asked, Revoked, Discards, OpShape, Preparing
  <2>. QED BY <1>2, <2>1, <2>3, StillGrant
<1>5. CASE ChooseChunk(c) \/ CheckAppend(c) \/ WriteOutside(c) \/ CommitAppend(c)
  <2>1. UNCHANGED <<nextId, outcome, counterState>>
    BY <1>5 DEF ChooseChunk, CheckAppend, WriteOutside, CommitAppend, stores
  <2>2. call'[c].at \in Fetched => Asked(call[c])'
    BY <1>5, RestoreTo DEF Asked, Revoked, Discards
  <2>3. CASE row' = row
    BY <1>2, <2>1, <2>2, <2>3, StillGrant
  <2>4. CASE row = call[c].op /\ row' = [row EXCEPT !.position = call[c].plan.to] /\ call[c].at = "commit"
    <3>1. /\ row \in Row /\ row' \in Row /\ row'.id = row.id /\ row'.phase = row.phase
          /\ row'.discard = row.discard
      <4>1. call[c].plan.to \in 1 .. Ended
        BY <2>4 DEF TypeInv, CallsOK, Shape, Appending
      <4>. QED BY <1>1, <2>4, <4>1 DEF Row, Ended
    <3>2. Granted(row)'
      BY <2>1, <3>1, NoRowNotRow DEF GrantInv, Granted
    <3>. QED BY <1>2, <2>1, <2>2, <3>1, <3>2, SameGrant
  <2>. QED BY <1>5, <2>3, <2>4 DEF ChooseChunk, CheckAppend, WriteOutside, CommitAppend, Fenced
<1>. QED BY <1>3, <1>4, <1>5 DEF Restore

LEMMA DiscardGrant ==
  ASSUME TypeInv, TypeInv', CourseInv, GrantInv, RowStep, NEW c \in Caller, DiscardRestore(c)
  PROVE  GrantInv'
<1>0. call[c].at \in Fetched
  BY DiscardAt DEF DiscardRestore, Claim, Revoke, SaveProgress, Fetched, Working, Steps
<1>1. /\ call[c].op \in Row /\ call[c].op.id \in OpId /\ OpShape(call[c]) /\ Lawful(call[c].op)
      /\ Behind(call[c]) /\ Asked(call[c]) /\ (row # NoRow => Leads(call[c].op, row))
      /\ call[c].op.id < nextId /\ call[c].op.kind \in {"export", "import"}
  BY <1>0, ShapeOf DEF GrantInv, Row
<1>2. CASE Claim(c)
  <2> DEFINE to == Discarding(call[c].op, FirstDiscard)
  <2>1. call[c].op.phase = "ready" /\ UNCHANGED <<nextId, outcome, counterState>>
    BY <1>1, <1>2 DEF OpShape, Claim, stores
  <2>2. CASE Swaps(c, to) /\ row' = to /\ Goto(c, "revokeClaimed")
    <3>1. row \in Row /\ row' \in Row /\ row'.id = row.id /\ row.phase = "ready" /\ row # NoRow
      BY <1>1, <2>1, <2>2, ReadyRow, NoRowNotRow DEF Swaps
    <3>2. row'.phase = "discarding"
      BY <1>1, <2>2 DEF Discarding, Row
    <3>3. counterState[row.id] = 1
      BY <3>1 DEF GrantInv, Granted
    <3>4. Granted(row)'
      BY <2>1, <3>1, <3>2, <3>3 DEF Granted
    <3>5. call'[c].at = "revokeClaimed" /\ \A d \in Caller \ {c} : call'[d] = call[d]
      BY <2>2, GotoTo
    <3>6. Asked(call[c])'
      BY <3>5 DEF Asked, Revoked, Discards
    <3>. QED BY <2>1, <3>1, <3>4, <3>5, <3>6, SameGrant
  <2>3. CASE row' = row /\ Conflict(c)
    BY <2>1, <2>3, AnswerTo, StillGrant
  <2>. QED BY <1>2, <2>2, <2>3 DEF Claim
<1>3. CASE Revoke(c)
  <2>1. /\ UNCHANGED <<row, nextId, outcome>> /\ Advance(call[c].op.id, 2)
        /\ call[c].at \in {"revoke", "revokeClaimed"}
    BY <1>3 DEF Revoke
  <2>2. ASSUME row' # NoRow PROVE Granted(row)'
    <3>1. row \in Row /\ row.id \in OpId /\ Granted(row) /\ Lawful(row) /\ counterState[row.id] \in Nat
      BY <2>1, <2>2, RowFields DEF GrantInv, TypeInv, RowTypeOK, StoreTypeOK, CourseInv
    <3>2. CASE row.id = call[c].op.id
      <4>1. row.kind = "import" /\ row.discard # NoDiscard
        <5>1. call[c].op.phase \in {"ready", "discarding"} /\ call[c].op.kind = "import"
          BY <1>1, <2>1 DEF OpShape, Lawful, Discards
        <5>. QED BY <1>1, <2>1, <2>2, <3>2, <5>1 DEF Leads, Behind, OpShape, Discards
      <4>2. row.phase \in {"discarding", "releasing"}
        BY <3>1, <4>1 DEF Lawful
      <4> DEFINE n == counterState[row.id]
                 m == counterState'[row.id]
      <4>3. m \in {2, n} /\ m >= 2 /\ m >= n /\ n \in Nat
        BY <1>1, <2>1, <3>1, <3>2, AdvanceTo
      <4>4. row.phase = "discarding" => n \in {1, 2}
        BY <3>1 DEF Granted
      <4>5. row.phase = "discarding" => m \in {1, 2}
        <5> HIDE DEF n, m
        <5>. QED BY <4>3, <4>4
      <4>. QED BY <2>1, <4>1, <4>2, <4>3, <4>5 DEF Granted
    <3>3. CASE row.id # call[c].op.id
      <4>1. counterState'[row.id] = counterState[row.id]
        BY <1>1, <2>1, <3>1, <3>3, AdvanceTo
      <4>. QED BY <2>1, <3>1, <4>1 DEF Granted
    <3>. QED BY <3>2, <3>3
  <2>3. \A i \in OpId : /\ counterState'[i] >= counterState[i]
                        /\ i >= nextId => counterState'[i] = counterState[i]
    <3>1. \A i \in OpId : i >= nextId => i # call[c].op.id
      BY <1>1, NextIdNat DEF OpId
    <3>. QED BY <1>1, <2>1, <3>1, AdvanceTo
  <2>4. /\ \A d \in Caller \ {c} : call'[d] = call[d]
        /\ call'[c].at \in Fetched => call'[c].op = call[c].op
    BY <1>3, GotoTo, AnswerTo DEF Revoke
  <2>5. call'[c].at \in Fetched => Asked(call[c])'
    <3>1. counterState'[call[c].op.id] >= 2
      BY <1>1, <2>1, AdvanceTo
    <3>2. call'[c].at \notin {"checkEmpty", "toReady"}
      BY <1>3, GotoTo, AnswerTo DEF Revoke
    <3>. QED BY <2>4, <3>1, <3>2 DEF Asked
  <2>. QED BY <2>1, <2>2, <2>3, <2>4, <2>5, GrantKept
<1>4. CASE DiscardOne(c) \/ Wipe(c) \/ VerifyBackfill(c)
  <2>1. call[c].op.phase = "discarding" /\ call[c].op.discard.step >= 1
    BY <1>1, <1>4, DiscardAt DEF OpShape, Discards, Lawful
  <2>2. /\ call[c].at \in {"discard", "wipe", "verifyBackfill"}
        /\ \A d \in Caller \ {c} : call'[d] = call[d]
        /\ call'[c].at \in Fetched =>
             /\ call'[c].at \in {"save", "wipe", "verifyBackfill", "toReleasing"}
             /\ call'[c].op = call[c].op
    BY <1>1, <1>4, <2>1, DiscardTo
  <2>3. UNCHANGED <<row, nextId, outcome, counterState>>
    BY <1>4, DiscardAt DEF stores
  <2>4. call'[c].at \in Fetched => Asked(call[c])'
    <3>1. counterState[call[c].op.id] >= 2
      BY <1>1, <2>2 DEF Asked, Revoked, Discards
    <3>. QED BY <2>2, <2>3, <3>1 DEF Asked
  <2>. QED BY <2>2, <2>3, <2>4, StillGrant
<1>5. CASE SaveProgress(c)
  <2> DEFINE to == Discarding(call[c].op, call[c].plan)
  <2>1. /\ call[c].op.phase = "discarding" /\ UNCHANGED <<nextId, outcome, counterState>>
        /\ call[c].plan \in Discard /\ call[c].plan.step >= 1
    BY <1>1, <1>5 DEF OpShape, Discards, SaveProgress, TypeInv, CallsOK, Shape, stores
  <2>2. CASE Swaps(c, to) /\ row' = to /\ Answer(c)
    <3>1. row \in Row /\ row' \in Row /\ row'.id = row.id /\ row.phase = "discarding" /\ row # NoRow
      BY <1>1, <2>1, <2>2, DiscardingRow, NoRowNotRow DEF Swaps
    <3>2. row'.phase = "discarding" /\ row'.discard # NoDiscard
      <4>1. row'.phase = "discarding" /\ row'.discard = call[c].plan
        BY <1>1, <2>1, <2>2 DEF Discarding, Row
      <4>. QED BY <2>1, <4>1 DEF NoDiscard
    <3>3. counterState[row.id] \in {1, 2}
      BY <3>1 DEF GrantInv, Granted
    <3>4. Granted(row)'
      BY <2>1, <3>1, <3>2, <3>3 DEF Granted
    <3>. QED BY <2>1, <2>2, <3>1, <3>4, AnswerTo, SameGrant
  <2>3. CASE row' = row /\ Conflict(c)
    BY <2>1, <2>3, AnswerTo, StillGrant
  <2>. QED BY <1>5, <2>2, <2>3 DEF SaveProgress
<1>. QED BY <1>2, <1>3, <1>4, <1>5 DEF DiscardRestore

LEMMA OutsideGrant ==
  ASSUME TypeInv, TypeInv', CourseInv, GrantInv, RowStep, Age \/ Write \/ RecordOrFlush \/ Faulty
  PROVE  GrantInv'
<1>1. UNCHANGED <<row, nextId, outcome, counterState>>
  BY DEF Age, Write, AdmitRow, CommitRow, RecordOrFlush, StartRecord, ObserveFreezes, CheckGate,
         ThawStale, CommitRecord, Faulty, CallFails, IsolateCrash, CountersRestart,
         ProcessRestart, stores
<1>. QED BY <1>1, OutsideCalls, StillGrant DEF Fetched, Working

LEMMA GrantInvariant == Spec => []GrantInv
<1>1. Init => GrantInv
  BY DEF Init, GrantInv, Idle, Fetched, Working, OpId
<1>2. TypeInv /\ TypeInv' /\ CourseInv /\ GrantInv /\ [Next]_vars => GrantInv'
  <2> SUFFICES ASSUME TypeInv, TypeInv', CourseInv, GrantInv, [Next]_vars PROVE GrantInv'
    OBVIOUS
  <2>0. RowStep
    BY NextCourse
  <2>1. CASE UNCHANGED vars
    BY <2>0, <2>1, StillGrant DEF vars, stores
  <2>2. ASSUME NEW c \in Caller, (\E r \in Requests : Acquire(c, r)) \/ Proceed(c) PROVE GrantInv'
    BY <2>0, <2>2, RequestGrant, HoldGrant, ReleaseGrant, RestoreGrant, DiscardGrant DEF Proceed
  <2>. QED BY <2>0, <2>1, <2>2, OutsideGrant DEF Next
<1>. QED BY <1>1, <1>2, TypeInvariant, CourseInvariant, PTL DEF Spec

(***************************************************************************)
(* ConflictMeansChanged, where an UPDATE that rewrites equal values counts  *)
(* as a change (D1, SQLite, PostgreSQL).  On MariaDB it does not: the run   *)
(* archive_noop_update shows a refusal of an unchanged operation.           *)
(***************************************************************************)
LEMMA AnswerAt ==
  ASSUME TypeInv, NEW c \in Caller, Answer(c)
  PROVE  call'[c].at = "release"
<1>1. [Idle EXCEPT !.at = "release"].at = "release"
  BY DEF Idle
<1>. QED BY <1>1 DEF Answer, TypeInv, CallsOK

LEMMA ConflictStep ==
  ASSUME NoopCounts, TypeInv, CourseInv, HoldInv, GrantInv, NEW c \in Caller,
         HoldFor(c) \/ ReleaseServer(c) \/ Restore(c) \/ DiscardRestore(c),
         call'[c].at = "conflict"
  PROVE  row # call[c].op
<1>0. call[c].at \in Fetched
  BY DiscardAt, ReleaseTo, RestoreTo
     DEF HoldFor, CloseProcess, FreezeMemory, FreezeDurably, VerifyHold, UndoFreeze, UndoHold,
         Publish, Recheck, Releases, Appends, DiscardRestore, Claim, Revoke, SaveProgress,
         Fetched, Working, Steps
<1>1. /\ call[c].op \in Row /\ call[c].op.id \in OpId /\ OpShape(call[c]) /\ Lawful(call[c].op)
      /\ Behind(call[c]) /\ Asked(call[c]) /\ call[c].op # NoRow
  BY <1>0, ShapeOf, NoRowNotRow DEF GrantInv
<1>2. \A s : Goto(c, s) => call'[c].at = s
  BY GotoTo
<1>3. CASE HoldFor(c)
  <2>1. CASE UndoHold(c)
    <3>1. call[c].at \in Undoing
      BY <2>1 DEF UndoHold, Undoing
    <3>2. ~RowHolds(call[c].op.id) /\ call[c].op.phase \in {"freezing", "preparing"}
      BY <1>1, <3>1, UndoingQuiet DEF OpShape
    <3>. QED BY <3>2 DEF RowHolds, Holding, Phase
  <2>2. CASE Recheck(c)
    BY <1>1, <2>2 DEF Recheck, Behind
  <2>3. CASE CloseProcess(c) \/ FreezeDurably(c)
    <3>1. call[c] \in Call
      BY DEF TypeInv, CallsOK
    <3>2. call'[c].at \in {"freeze", "verifyHold"}
      BY <2>3, <3>1 DEF CloseProcess, FreezeDurably, TypeInv, CallsOK, Call
    <3>. QED BY <3>2
  <2>4. CASE FreezeMemory(c) \/ UndoFreeze(c) \/ Publish(c)
    BY <1>2, <2>4, AnswerAt DEF FreezeMemory, UndoFreeze, Publish
  <2>5. CASE VerifyHold(c)
    <3>1. PICK s \in {"unfreezeOurs", "unfreeze", "close", "toFrozen", "beginImport"} :
            call' = [call EXCEPT ![c].at = s, ![c].after = "release"]
      BY <2>5 DEF VerifyHold
    <3>2. call'[c].at = s
      BY <3>1 DEF TypeInv, CallsOK, Call
    <3>. QED BY <3>2
  <2>. QED BY <1>3, <2>1, <2>2, <2>3, <2>4, <2>5 DEF HoldFor
<1>4. CASE ReleaseServer(c)
  <2>1. CASE ToReleasing(c)
    <3>1. \/ Goto(c, "closeCounters") \/ Answer(c) \/ ~Swaps(c, [call[c].op EXCEPT !.phase = "releasing"])
          \/ call' = [call EXCEPT ![c].at = "closeCounters",
                                  ![c].op = [call[c].op EXCEPT !.phase = "releasing"]]
      BY <2>1 DEF ToReleasing
    <3>2. call' = [call EXCEPT ![c].at = "closeCounters",
                               ![c].op = [call[c].op EXCEPT !.phase = "releasing"]]
            => call'[c].at = "closeCounters"
      BY DEF TypeInv, CallsOK, Call
    <3>. QED BY <1>2, <3>1, <3>2, AnswerAt DEF Swaps
  <2>2. CASE CloseCounters(c) \/ DeleteRow(c) \/ Thaw(c)
    BY <1>2, <2>2 DEF CloseCounters, DeleteRow, Thaw
  <2>3. CASE Reopen(c)
    <3>1. call' = [call EXCEPT ![c].at = call[c].after, ![c].op = NoRow] => call'[c].at = call[c].after
      BY DEF TypeInv, CallsOK, Call
    <3>2. call[c].after # "conflict"
      BY DEF TypeInv, CallsOK, Call
    <3>. QED BY <2>3, <3>1, <3>2, AnswerAt DEF Reopen
  <2>. QED BY <1>4, <2>1, <2>2, <2>3 DEF ReleaseServer
<1>5. CASE Restore(c)
  <2>1. CASE WriteOutside(c)
    <3>1. call[c].op.phase = "ready"
      BY <1>1, <2>1 DEF WriteOutside, OpShape, Appends
    <3>2. row = call[c].op => MayImport(call[c].op.id)
      BY <1>1, <3>1 DEF HoldInv, Held, Covers, GrantInv, Granted, MayImport
    <3>3. MayImport(call[c].op.id) =>
            call' = [call EXCEPT ![c].at = "append",
                                 ![c].plan.left = @ \ {NextOutside(call[c].plan.left)}]
      BY <2>1 DEF WriteOutside
    <3>4. call' = [call EXCEPT ![c].at = "append",
                               ![c].plan.left = @ \ {NextOutside(call[c].plan.left)}]
            => call'[c].at = "append"
      BY DEF TypeInv, CallsOK, Call
    <3>. QED BY <3>2, <3>3, <3>4
  <2>2. CASE BeginImport(c) \/ CheckEmpty(c) \/ CheckAppend(c) \/ CommitAppend(c)
    BY <1>2, <2>2, AnswerAt DEF BeginImport, CheckEmpty, CheckAppend, CommitAppend
  <2>3. CASE ChooseChunk(c)
    BY <1>5, <2>3, RestoreTo
  <2>. QED BY <1>5, <2>1, <2>2, <2>3 DEF Restore
<1>6. CASE DiscardRestore(c)
  <2>1. CASE Claim(c) \/ SaveProgress(c)
    BY <1>2, <2>1, AnswerAt DEF Claim, SaveProgress, Swaps
  <2>2. CASE Revoke(c)
    BY <1>2, <2>2, AnswerAt DEF Revoke
  <2>3. CASE DiscardOne(c) \/ VerifyBackfill(c)
    <3>1. \/ Goto(c, "toReleasing") \/ (\E e : Save(c, e))
          \/ \E s \in {"wipe", "verifyBackfill"} : Goto(c, s)
      BY <2>3, DiscardChoice DEF UnlessLate, VerifyBackfill
    <3>. QED BY <1>2, <3>1, SaveTo
  <2>4. CASE Wipe(c)
    <3>1. call[c].op.phase = "discarding" /\ counterState[call[c].op.id] >= 2
      BY <1>1, <2>4, DiscardAt DEF OpShape, Discards, Asked, Revoked
    <3>2. row = call[c].op => MayClean(call[c].op.id)
      <4>1. row = call[c].op => counterState[call[c].op.id] \in {1, 2}
        BY <1>1, <3>1 DEF GrantInv, Granted
      <4>. QED BY <3>1, <4>1 DEF MayClean
    <3>3. MayClean(call[c].op.id) => Answer(c) \/ \E e : Save(c, e)
      BY <2>4 DEF Wipe
    <3>. QED BY <3>2, <3>3, AnswerAt, SaveTo
  <2>. QED BY <1>6, <2>1, <2>2, <2>3, <2>4 DEF DiscardRestore
<1>. QED BY <1>3, <1>4, <1>5, <1>6

\* A request is told that the operation changed only when it did: neither the
\* coordinator's grant nor a lost compare-and-set refuses the request that read
\* the current row.
THEOREM ConflictsAreChanges == NoopCounts => (Spec => ConflictMeansChanged)
<1> SUFFICES ASSUME NoopCounts PROVE Spec => ConflictMeansChanged
  OBVIOUS
<1>1. TypeInv /\ CourseInv /\ HoldInv /\ GrantInv /\ [Next]_vars =>
        [\A c \in Caller : call'[c].at = "conflict" /\ call[c].at # "conflict"
                            => row # call[c].op]_vars
  <2> SUFFICES ASSUME TypeInv, CourseInv, HoldInv, GrantInv, Next, NEW c \in Caller,
                      call'[c].at = "conflict", call[c].at # "conflict"
               PROVE  row # call[c].op
    OBVIOUS
  <2>1. CASE Age \/ Write \/ RecordOrFlush \/ Faulty
    BY <2>1, OutsideCalls
  <2>2. ASSUME NEW d \in Caller,
               \/ \E r \in Requests : Acquire(d, r)
               \/ Release(d) \/ Read(d) \/ Reread(d) \/ ReadHold(d) \/ Insert(d)
        PROVE  FALSE
    BY <2>2, RequestTo
  <2>3. ASSUME NEW d \in Caller,
               HoldFor(d) \/ ReleaseServer(d) \/ Restore(d) \/ DiscardRestore(d)
        PROVE  row # call[c].op
    <3>1. CASE d = c
      BY <2>3, <3>1, ConflictStep
    <3>2. CASE d # c
      <4>1. CASE HoldFor(d) \/ ReleaseServer(d) \/ Restore(d)
        BY <3>2, <4>1, HoldTo, ReleaseTo, RestoreTo
      <4>2. CASE DiscardRestore(d)
        <5>1. CASE Claim(d) \/ Revoke(d) \/ SaveProgress(d)
          BY <3>2, <5>1, GotoTo, AnswerTo DEF Claim, Revoke, SaveProgress
        <5>2. CASE DiscardOne(d) \/ Wipe(d) \/ VerifyBackfill(d)
          <6>1. call[d].at \in Discards /\ call[d].at \in Fetched
            BY <5>2, DiscardAt DEF Discards, Fetched, Working, Steps
          <6>2. call[d].op \in Row /\ call[d].op.discard.step >= 1
            BY <6>1, ShapeOf DEF OpShape, Lawful
          <6>. QED BY <3>2, <5>2, <6>2, DiscardTo
        <5>. QED BY <4>2, <5>1, <5>2 DEF DiscardRestore
      <4>. QED BY <2>3, <4>1, <4>2
    <3>. QED BY <3>1, <3>2
  <2>. QED BY <2>1, <2>2, <2>3 DEF Next, Proceed
<1>. QED BY <1>1, TypeInvariant, CourseInvariant, HoldInvariant, GrantInvariant, PTL
         DEF Spec, ConflictMeansChanged

(***************************************************************************)
(* The data of the operations.  Nothing is in the stores before an import  *)
(* publishes ready; an import has what its position says; a discard that   *)
(* releases has found the stores empty; and whatever writes or wipes a     *)
(* store that fences it works on the operation of the row.                 *)
(***************************************************************************)
NoneActivated == \A i \in OpId : outcome[i] # "activated"
NothingLive == Live \notin data["rows"] /\ Live \notin data["counters"]
CleanOf(i) == \A s \in Sure \ {"backfill"} : i \notin data[s]

\* A release of an import that restored nothing.
Untouched(r) ==
    \/ r.phase = "preparing"
    \/ r.phase = "releasing" /\ r.discard = NoDiscard /\ r.position = 1

\* What the stores hold of the import that the row describes.
Restored(r) ==
    r.discard = NoDiscard =>
        \A p \in 1 .. Ended - 2 :
           Records[p] \in Sure /\ r.position > p => r.id \in data[Records[p]]

RowData ==
    row # NoRow /\ row.kind = "import" =>
    /\ Restored(row)
    /\ row.phase \in {"ready", "discarding"} \/ row.discard # NoDiscard => NoneActivated
    /\ Untouched(row) => \A s \in Store : row.id \notin data[s]
    /\ row.phase = "releasing" /\ row.discard # NoDiscard => CleanOf(row.id)
    /\ Held => NothingLive

\* What a request has found or written so far.
CallData(k) ==
    /\ k.at = "toReady" /\ row = k.op => NoneActivated /\ NothingLive
    /\ k.at \in {"append", "write", "commit"} /\ row = k.op =>
         \A s \in (Chunk(k.op.position, k.plan.to) \cap Outside \cap Sure) \ k.plan.left :
            k.op.id \in data[s]
    /\ k.at = "commit" => k.plan.left = {}
    /\ k.at \in {"verifyBackfill", "toReleasing"} /\ k.op.phase = "discarding" => CleanOf(k.op.id)

DataInv ==
    /\ \A i \in OpId : i >= nextId => outcome[i] = "none" /\ \A s \in Store : i \notin data[s]
    /\ \A i \in OpId : outcome[i] = "activated" => \A s \in Sure : i \in data[s]
    /\ \A i \in OpId : outcome[i] \in {"discarded", "cancelled"} => CleanOf(i)
    /\ RowData
    /\ Live \notin data["objects"] /\ Live \notin data["backfill"]
    /\ \A c \in Caller : call[c].at \in Fetched => CallData(call[c])

SafeInv == TypeInv /\ CourseInv /\ HoldInv /\ GrantInv /\ EndInv

Removes(s, i) == i \in data[s] /\ i \notin data'[s]
Adds(s, i) == i \notin data[s] /\ i \in data'[s]

\* What any step does to the stores: in those that it answers for, it only adds
\* to and wipes what the operation of the row restores or discards.
DataStep ==
    /\ late => late'
    /\ \A s \in Sure', i \in OpId \cup {Live} : Removes(s, i) =>
         /\ row # NoRow /\ row' = row /\ row.kind = "import" /\ row.discard # NoDiscard
         /\ s = "rows" => row.phase = "discarding"
    /\ \A s \in Sure', i \in OpId : Adds(s, i) =>
         row # NoRow /\ i = row.id /\ (row.phase = "ready" \/ (s = "counters" /\ counterState[i] = 1))
    /\ \A s \in Store, i \in OpId : Adds(s, i) => i < nextId /\ (row.id = i => ~Untouched(row))
    /\ \A s \in Store : Adds(s, Live) => s \in {"rows", "counters"} /\ ~(row # NoRow /\ Quiet)

LEMMA SureStep ==
  ASSUME late => late'
  PROVE  /\ Sure' \subseteq Sure /\ Sure \subseteq Store
         /\ {"rows", "counters"} \subseteq Sure' /\ {"rows", "counters"} \subseteq Sure
  BY DEF Sure, Store, Unfenced

\* A row that is still the one a request read was it before the step.
LEMMA RowWas ==
  ASSUME TypeInv, CourseInv, RowStep, NEW o \in Row, Lawful(o), o.id < nextId,
         row # NoRow => Leads(o, row), o.phase \in {"preparing", "ready"}, row' = o
  PROVE  row = o
<1>1. o # NoRow /\ o.id # nextId
  BY NoRowNotRow, NextIdNat, RowFields DEF OpId
<1>2. CASE row \in Row /\ row'.id = row.id /\ Leads(row, row')
  <2>1. row # NoRow /\ Lawful(row) /\ row.id = o.id /\ Leads(o, row) /\ Leads(row, o)
    BY <1>2, NoRowNotRow DEF CourseInv
  <2>2. row.kind = o.kind /\ o.kind = "import"
    BY <2>1 DEF Leads, Lawful, Row
  <2>3. row.phase = o.phase
    BY <2>1, <2>2 DEF Leads, Lawful
  <2>4. row.position = o.position
    <3>1. row.position \in Nat /\ o.position \in Nat
      BY <1>2 DEF Row, Ended
    <3>. QED BY <2>1, <3>1 DEF Leads
  <2>5. row.discard = o.discard
    BY <2>1, <2>3 DEF Lawful
  <2>6. /\ o = [id |-> o.id, kind |-> o.kind, phase |-> o.phase, position |-> o.position,
                discard |-> o.discard]
        /\ row = [id |-> row.id, kind |-> row.kind, phase |-> row.phase,
                  position |-> row.position, discard |-> row.discard]
    BY <1>2 DEF Row
  <2>. QED BY <2>1, <2>2, <2>3, <2>4, <2>5, <2>6
<1>. QED BY <1>1, <1>2 DEF RowStep

\* The row, the requests and the stores that a step leaves alone.
LEMMA RowDataKept ==
  ASSUME SafeInv, DataInv, DataStep, row' = row, outcome' = outcome
  PROVE  RowData'
<1> SUFFICES ASSUME row # NoRow, row.kind = "import"
             PROVE  /\ Restored(row)'
                    /\ row.phase \in {"ready", "discarding"} \/ row.discard # NoDiscard => NoneActivated'
                    /\ Untouched(row) => \A s \in Store : row.id \notin data'[s]
                    /\ row.phase = "releasing" /\ row.discard # NoDiscard => CleanOf(row.id)'
                    /\ Held => NothingLive'
  BY DEF RowData, Untouched, Held
<1>0. row.id \in OpId /\ (Sure' \subseteq Sure) /\ Sure \subseteq Store
  BY SureStep, RowFields DEF DataStep, SafeInv, TypeInv, RowTypeOK
<1>1. Restored(row)'
  BY <1>0 DEF DataInv, RowData, Restored, DataStep, Removes
<1>2. row.phase \in {"ready", "discarding"} \/ row.discard # NoDiscard => NoneActivated'
  BY DEF DataInv, RowData, NoneActivated
<1>3. Untouched(row) => \A s \in Store : row.id \notin data'[s]
  BY <1>0 DEF DataInv, RowData, DataStep, Adds
<1>4. row.phase = "releasing" /\ row.discard # NoDiscard => CleanOf(row.id)'
  <2>1. row.phase = "releasing" /\ row.discard # NoDiscard => counterState[row.id] # 1
    BY <1>0 DEF SafeInv, GrantInv, Granted, TypeInv, StoreTypeOK
  <2>. QED BY <1>0, <2>1 DEF DataInv, RowData, DataStep, Adds, CleanOf
<1>5. Held => NothingLive'
  BY DEF DataInv, RowData, DataStep, Adds, NothingLive, SafeInv, HoldInv, Store
<1>. QED BY <1>1, <1>2, <1>3, <1>4, <1>5

LEMMA CallDataKept ==
  ASSUME SafeInv, DataInv, RowStep, DataStep, outcome' = outcome, NEW d \in Caller,
         call'[d].at \in Fetched, call'[d].at = call[d].at, call'[d].op = call[d].op,
         call'[d].plan = call[d].plan
  PROVE  CallData(call[d])'
<1>0. (Sure' \subseteq Sure) /\ Sure \subseteq Store
  BY SureStep DEF DataStep
<1>1. /\ call[d].op \in Row /\ call[d].op.id \in OpId /\ OpShape(call[d]) /\ Lawful(call[d].op)
      /\ (row # NoRow => Leads(call[d].op, row)) /\ call[d].op.id < nextId
      /\ Stopped(call[d]) /\ Asked(call[d]) /\ CallData(call[d]) /\ call[d].op # NoRow
  BY ShapeOf, NoRowNotRow DEF SafeInv, HoldInv, GrantInv, DataInv
<1>2. call[d].at = "toReady" /\ row' = call[d].op => NoneActivated' /\ NothingLive'
  <2> SUFFICES ASSUME call[d].at = "toReady", row' = call[d].op PROVE NoneActivated' /\ NothingLive'
    OBVIOUS
  <2>1. call[d].op.phase = "preparing" /\ row = call[d].op
    BY <1>1, RowWas DEF OpShape, Preparing, SafeInv
  <2>2. Quiet /\ row # NoRow
    BY <1>1, <2>1 DEF Stopped, RowHolds, Holding, Phase, Preparing
  <2>. QED BY <1>1, <2>1, <2>2 DEF CallData, NoneActivated, NothingLive, DataStep, Adds, Store
<1>3. call[d].at \in {"append", "write", "commit"} /\ row' = call[d].op =>
        \A s \in (Chunk(call[d].op.position, call[d].plan.to) \cap Outside \cap Sure') \ call[d].plan.left :
           call[d].op.id \in data'[s]
  <2> SUFFICES ASSUME call[d].at \in {"append", "write", "commit"}, row' = call[d].op,
                      NEW s \in (Chunk(call[d].op.position, call[d].plan.to) \cap Outside \cap Sure') \ call[d].plan.left
               PROVE  call[d].op.id \in data'[s]
    OBVIOUS
  <2>1. call[d].op.phase = "ready" /\ row = call[d].op
    BY <1>1, RowWas DEF OpShape, Appends, SafeInv
  <2>2. call[d].op.id \in data[s]
    BY <1>0, <1>1, <2>1 DEF CallData
  <2>. QED BY <1>1, <2>1, <2>2 DEF DataStep, Removes, Lawful
<1>4. call[d].at = "commit" => call[d].plan.left = {}
  BY <1>1 DEF CallData
<1>5. call[d].at \in {"verifyBackfill", "toReleasing"} /\ call[d].op.phase = "discarding"
        => CleanOf(call[d].op.id)'
  <2> SUFFICES ASSUME call[d].at \in {"verifyBackfill", "toReleasing"}, call[d].op.phase = "discarding",
                      NEW s \in Sure' \ {"backfill"}
               PROVE  call[d].op.id \notin data'[s]
    BY DEF CleanOf
  <2>1. counterState[call[d].op.id] # 1
    BY <1>1 DEF Asked, Revoked, Discards, SafeInv, TypeInv, StoreTypeOK
  <2>2. row # NoRow /\ row.id = call[d].op.id => row.phase # "ready"
    BY <1>1 DEF Leads
  <2>. QED BY <1>0, <1>1, <2>1, <2>2 DEF CallData, CleanOf, DataStep, Adds
<1>. QED BY <1>2, <1>3, <1>4, <1>5 DEF CallData

LEMMA DataKept ==
  ASSUME SafeInv, DataInv, RowStep, DataStep, outcome' = outcome, row' = row \/ RowData',
         \A d \in Caller : call'[d].at \in Fetched =>
           \/ /\ call'[d].at = call[d].at /\ call'[d].op = call[d].op
              /\ call'[d].plan = call[d].plan
           \/ CallData(call[d])'
  PROVE  DataInv'
<1>0. (Sure' \subseteq Sure) /\ Sure \subseteq Store
  BY SureStep DEF DataStep
<1>1. \A i \in OpId : i >= nextId' => outcome'[i] = "none" /\ \A s \in Store : i \notin data'[s]
  <2>1. nextId \in Nat /\ nextId' \in Nat /\ nextId <= nextId'
    BY NextIdNat DEF SafeInv, RowStep
  <2>2. \A i \in OpId : i >= nextId' => i >= nextId /\ ~(i < nextId)
    BY <2>1 DEF OpId
  <2>. QED BY <2>2 DEF DataInv, DataStep, Adds
<1>2. \A i \in OpId : outcome'[i] = "activated" => \A s \in Sure' : i \in data'[s]
  BY <1>0 DEF DataInv, RowData, NoneActivated, DataStep, Removes
<1>3. \A i \in OpId : outcome'[i] \in {"discarded", "cancelled"} => CleanOf(i)'
  BY <1>0 DEF DataInv, DataStep, Adds, SafeInv, EndInv, CleanOf
<1>4. RowData'
  BY RowDataKept
<1>5. Live \notin data'["objects"] /\ Live \notin data'["backfill"]
  BY DEF DataInv, DataStep, Adds, Store
<1>6. \A d \in Caller : call'[d].at \in Fetched => CallData(call[d])'
  BY CallDataKept
<1>. QED BY <1>1, <1>2, <1>3, <1>4, <1>5, <1>6 DEF DataInv

LEMMA StillData ==
  ASSUME UNCHANGED <<data, late>>
  PROVE  DataStep
  BY DEF DataStep, Removes, Adds

\* Only the operation of the row has a grant that is not closed.
LEMMA GrantedRow ==
  ASSUME SafeInv, NEW i \in OpId, i < nextId, counterState[i] \in {1, 2}
  PROVE  row # NoRow /\ row.id = i
<1>1. outcome[i] = "none"
  BY DEF SafeInv, EndInv
<1>2. row.id = i
  BY <1>1 DEF SafeInv, GrantInv
<1>. QED BY <1>2 DEF NoRow, OpId

LEMMA WriteData ==
  ASSUME SafeInv, DataInv, NEW c \in Caller, WriteOutside(c)
  PROVE  /\ DataStep
         /\ call'[c].at \in Fetched =>
              data' = [data EXCEPT ![NextOutside(call[c].plan.left)] = @ \cup {call[c].op.id}]
<1> DEFINE store == NextOutside(call[c].plan.left)
           id == call[c].op.id
<1>0. call[c].at \in Fetched /\ call[c].at = "write"
  BY DEF WriteOutside, Fetched, Working, Steps
<1>1. /\ call[c].op \in Row /\ id \in OpId /\ call[c].op.phase = "ready" /\ id # Live
      /\ (row # NoRow => Leads(call[c].op, row)) /\ id < nextId /\ call[c].op # NoRow
      /\ call[c].op.discard = NoDiscard
  BY <1>0, ShapeOf, NoRowNotRow DEF SafeInv, OpShape, Appends, Lawful, OpId, Live
<1>2. store \in Outside /\ store \in Store
  BY DEF NextOutside, Outside, Store
<1>3. CASE Conflict(c) /\ UNCHANGED <<data, late>>
  BY <1>3, AnswerTo, StillData DEF SafeInv
<1>4. CASE /\ store = "counters" => MayImport(id)
           /\ data' = [data EXCEPT ![store] = @ \cup {id}] /\ NoteLate(c, store)
  <2> HIDE DEF store, id
  <2>1. \A s \in Store, i \in OpId \cup {Live} :
          /\ ~Removes(s, i)
          /\ Adds(s, i) => s = store /\ i = id
    BY <1>4, <1>2 DEF Removes, Adds, SafeInv, TypeInv, StoreTypeOK
  <2>2. (late => late') /\ (store \in Unfenced /\ ~late' => row = call[c].op)
    BY <1>4 DEF NoteLate
  <2>3. (Sure' \subseteq Store) /\ (store \in Sure' => store = "counters" \/ row = call[c].op)
    BY <1>2, <2>2, SureStep DEF Sure, Unfenced, Outside
  <2>4. store \in Sure' => /\ row # NoRow /\ id = row.id
                           /\ row.phase = "ready" \/ (store = "counters" /\ counterState[id] = 1)
    <3>1. CASE store = "counters"
      BY <1>1, <1>4, <3>1, GrantedRow DEF MayImport
    <3>2. CASE row = call[c].op
      BY <1>1, <3>2 DEF id
    <3>. QED BY <2>3, <3>1, <3>2
  <2>5. row.id = id => ~Untouched(row)
    <3>1. row.id = id => row # NoRow
      BY <1>1 DEF NoRow, OpId
    <3>. QED BY <1>1, <3>1 DEF Leads, Untouched, Ended, id
  <2>6. DataStep
    BY <1>1, <1>2, <2>1, <2>2, <2>3, <2>4, <2>5 DEF DataStep
  <2>. QED BY <1>4, <2>6 DEF store, id
<1>. QED BY <1>3, <1>4 DEF WriteOutside

LEMMA CommitData ==
  ASSUME SafeInv, DataInv, NEW c \in Caller, CommitAppend(c)
  PROVE  DataStep
<1>0. UNCHANGED late /\ (Sure' \subseteq Store)
  BY SureStep DEF CommitAppend, Sure
<1>1. CASE UNCHANGED data
  BY <1>0, <1>1, StillData
<1>2. CASE row = call[c].op /\ data' = [data EXCEPT !["rows"] = @ \cup {row.id}]
  <2>1. call[c].at \in Fetched /\ call[c].at = "commit"
    BY DEF CommitAppend, Fetched, Working, Steps
  <2>2. /\ row \in Row /\ row.id \in OpId /\ row.phase = "ready" /\ row # NoRow
        /\ row.id # Live /\ row.id < nextId
    BY <1>2, <2>1, ShapeOf, NoRowNotRow DEF SafeInv, OpShape, Appends, OpId, Live
  <2>3. \A s \in Store, i \in OpId \cup {Live} :
          /\ ~Removes(s, i)
          /\ Adds(s, i) => s = "rows" /\ i = row.id
    BY <1>2 DEF Removes, Adds, SafeInv, TypeInv, StoreTypeOK
  <2>4. ~Untouched(row)
    BY <2>2 DEF Untouched
  <2>. QED BY <1>0, <2>2, <2>3, <2>4 DEF DataStep
<1>. QED BY <1>1, <1>2 DEF CommitAppend, Fenced

LEMMA WipeData ==
  ASSUME SafeInv, DataInv, NEW c \in Caller, Wipe(c)
  PROVE  DataStep
<1> DEFINE store == StepStore[call[c].op.discard.step]
           id == call[c].op.id
<1>0. call[c].at \in Fetched /\ call[c].at = "wipe" /\ row' = row
  BY DiscardAt DEF Fetched, Working, Steps
<1>1. /\ call[c].op \in Row /\ id \in OpId /\ call[c].op.phase = "discarding"
      /\ (row # NoRow => Leads(call[c].op, row)) /\ id < nextId /\ call[c].op # NoRow
      /\ call[c].op.discard # NoDiscard /\ call[c].op.kind = "import"
  <2>1. /\ call[c].op \in Row /\ id \in OpId /\ OpShape(call[c]) /\ Lawful(call[c].op)
        /\ (row # NoRow => Leads(call[c].op, row)) /\ id < nextId /\ call[c].op # NoRow
    BY <1>0, ShapeOf, NoRowNotRow DEF SafeInv
  <2>2. NoDiscard.step = 0
    BY DEF NoDiscard
  <2>. QED BY <1>0, <2>1, <2>2 DEF OpShape, Discards, Lawful, Row
<1>2. \/ UNCHANGED <<data, late>>
      \/ /\ store = "counters" => MayClean(id)
         /\ store = "rows" => Fenced(c)
         /\ data' = [data EXCEPT ![store] = {}] /\ NoteLate(c, store)
  BY Zenon DEF Wipe
<1>3. CASE UNCHANGED <<data, late>>
  BY <1>3, StillData
<1>4. CASE /\ store = "counters" => MayClean(id)
           /\ store = "rows" => Fenced(c)
           /\ data' = [data EXCEPT ![store] = {}] /\ NoteLate(c, store)
  <2> HIDE DEF store, id
  <2>1. \A s \in Store, i \in OpId \cup {Live} : ~Adds(s, i) /\ (Removes(s, i) => s = store)
    BY <1>4 DEF Removes, Adds, SafeInv, TypeInv, StoreTypeOK
  <2>2. (late => late') /\ (store \in Unfenced /\ ~late' => row = call[c].op)
    BY <1>4 DEF NoteLate
  <2>3. (Sure' \subseteq Store)
        /\ (store \in Sure' => store = "counters" \/ row = call[c].op)
    BY <1>4, <2>2, SureStep DEF Sure, Unfenced, Store, Fenced
  <2>4. store \in Sure' => /\ row # NoRow /\ row.kind = "import" /\ row.discard # NoDiscard
                           /\ store = "rows" => row.phase = "discarding"
    <3>1. CASE store = "counters"
      <4>1. counterState[id] = 2 /\ row # NoRow /\ row.id = id
        BY <1>1, <1>4, <3>1, GrantedRow DEF MayClean
      <4>. QED BY <1>1, <3>1, <4>1 DEF Leads, id
    <3>2. CASE row = call[c].op
      BY <1>1, <3>2
    <3>. QED BY <2>3, <3>1, <3>2
  <2>. QED BY <1>0, <2>1, <2>2, <2>3, <2>4 DEF DataStep
<1>. QED BY <1>2, <1>3, <1>4

LEMMA OrdinaryData ==
  ASSUME SafeInv, CommitRow \/ CommitRecord
  PROVE  DataStep
<1>0. UNCHANGED late /\ (Sure' \subseteq Store)
  BY SureStep DEF CommitRow, CommitRecord, Sure
<1>1. CASE UNCHANGED data
  BY <1>0, <1>1, StillData
<1>2. ASSUME NEW store \in {"rows", "counters"}, data' = [data EXCEPT ![store] = @ \cup {Live}],
             ~(row # NoRow /\ Quiet)
      PROVE  DataStep
  <2>1. \A s \in Store, i \in OpId \cup {Live} :
          /\ ~Removes(s, i)
          /\ Adds(s, i) => s = store /\ i = Live
    BY <1>2 DEF Removes, Adds, SafeInv, TypeInv, StoreTypeOK
  <2>2. Live \notin OpId
    BY DEF Live, OpId
  <2>. QED BY <1>0, <1>2, <2>1, <2>2 DEF DataStep
<1>3. CASE CommitRow
  BY <1>1, <1>2, <1>3 DEF CommitRow, Quiet, RowsQuiet
<1>4. CASE CommitRecord
  BY <1>2, <1>4 DEF CommitRecord, Quiet
<1>. QED BY <1>3, <1>4

LEMMA RequestData ==
  ASSUME SafeInv, SafeInv', DataInv, RowStep, NEW c \in Caller,
         \/ \E r \in Requests : Acquire(c, r)
         \/ Release(c) \/ Read(c) \/ Reread(c) \/ ReadHold(c) \/ Insert(c)
  PROVE  DataInv'
<1>0. \A d \in Caller \ {c} : call'[d] = call[d]
  BY RequestTo DEF SafeInv
<1>1. UNCHANGED <<outcome, data, late>>
  BY DEF Acquire, Release, Read, Reread, ReadHold, Insert, stores
<1>2. call'[c].at \in Fetched => CallData(call[c])'
  <2>1. call'[c].at \notin {"toReady", "append", "write", "commit", "verifyBackfill"}
    BY RequestTo DEF SafeInv
  <2>2. ASSUME call'[c].at = "toReleasing" PROVE call'[c].op.phase # "discarding"
    <3>1. PICK q \in RequestKinds : FirstStep(q, row') = "toReleasing"
      BY <2>2, RequestTo DEF SafeInv
    <3>2. call'[c].op = row' /\ row' \in Row
      BY <2>2, RequestTo DEF SafeInv, TypeInv, CallsOK, Shape, Fetched, Working, Steps
    <3>3. Lawful(row')
      BY <3>2, NoRowNotRow DEF RowStep, SafeInv, CourseInv, Lawful
    <3>. QED BY <3>1, <3>2, <3>3, FirstRelease
  <2>. QED BY <2>1, <2>2 DEF CallData
<1>3. row' = row \/ RowData'
  <2>1. CASE UNCHANGED row
    BY <2>1
  <2>2. CASE nextId \in OpId /\ row' = NewRow(call[c].req)
    <3>1. /\ row'.id = nextId /\ row'.phase \in {"freezing", "preparing"}
          /\ row'.kind = "import" => row'.position = 1
          /\ row'.discard = NoDiscard
      BY <2>2 DEF NewRow
    <3>2. row'.kind = "import" => Restored(row)'
      BY <3>1 DEF Restored
    <3>3. \A s \in Store : row'.id \notin data'[s]
      BY <1>1, <2>2, <3>1, NextIdNat DEF DataInv, SafeInv
    <3>. QED BY <3>1, <3>2, <3>3 DEF RowData, Held
  <2>. QED BY <2>1, <2>2 DEF Acquire, Release, Read, Reread, ReadHold, Insert
<1>. QED BY <1>0, <1>1, <1>2, <1>3, StillData, DataKept

LEMMA HoldData ==
  ASSUME SafeInv, SafeInv', DataInv, RowStep, NEW c \in Caller, HoldFor(c)
  PROVE  DataInv'
<1>1. UNCHANGED <<outcome, data, late>>
  BY DEF HoldFor, CloseProcess, FreezeMemory, FreezeDurably, VerifyHold, UndoFreeze, UndoHold,
         Publish, Recheck, stores
<1>2. \A d \in Caller \ {c} : call'[d] = call[d]
  BY HoldTo DEF SafeInv
<1>3. call'[c].at \in Fetched => CallData(call[c])'
  <2>1. call'[c].at \notin {"toReady", "append", "write", "commit", "verifyBackfill", "toReleasing"}
    BY HoldTo DEF SafeInv, InHold, Undoing
  <2>. QED BY <2>1 DEF CallData
<1>4. row' = row \/ RowData'
  <2>1. ASSUME row = call[c].op, NEW p \in {"frozen", "ready"}, row' = [row EXCEPT !.phase = p],
               call[c].at = IF p = "frozen" THEN "toFrozen" ELSE "toReady"
        PROVE  RowData'
    <3>0. call[c].at \in Fetched
      BY <2>1 DEF Fetched, Working, Steps
    <3>1. /\ row \in Row /\ Lawful(row) /\ OpShape(call[c]) /\ CallData(call[c]) /\ row # NoRow
      BY <2>1, <3>0, ShapeOf, NoRowNotRow DEF SafeInv, DataInv
    <3>2. /\ row'.phase = p /\ row'.kind = row.kind /\ row'.discard = row.discard
          /\ row'.position = row.position /\ row'.id = row.id
      BY <2>1, <3>1 DEF Row
    <3>3. CASE p = "frozen"
      BY <2>1, <3>1, <3>2, <3>3 DEF RowData, OpShape, Lawful, Row
    <3>4. CASE p = "ready"
      <4>1. row.phase = "preparing" /\ row.position = 1 /\ row.discard = NoDiscard
        BY <2>1, <3>1, <3>4 DEF OpShape, Preparing, Lawful
      <4>2. NoneActivated' /\ NothingLive'
        BY <1>1, <2>1, <3>1, <3>4 DEF CallData, NoneActivated, NothingLive
      <4>3. Restored(row)'
        BY <3>2, <4>1 DEF Restored
      <4>. QED BY <3>2, <3>4, <4>1, <4>2, <4>3 DEF RowData, Untouched
    <3>. QED BY <3>3, <3>4
  <2>. QED BY <2>1, HoldTo DEF SafeInv
<1>. QED BY <1>1, <1>2, <1>3, <1>4, StillData, DataKept

LEMMA DeleteData ==
  ASSUME SafeInv, SafeInv', DataInv, RowStep, NEW c \in Caller, DeleteRow(c)
  PROVE  DataInv'
<1>0. call[c].at \in Fetched /\ call[c].at = "delete" /\ UNCHANGED <<nextId, data, late>>
  BY DEF DeleteRow, Fetched, Working, Steps, stores
<1>1. /\ call[c].op \in Row /\ call[c].op.phase = "releasing" /\ call[c].op # NoRow
      /\ Lawful(call[c].op)
  BY <1>0, ShapeOf, NoRowNotRow DEF SafeInv, OpShape, Releases
<1>2. call'[c].at = "thaw" /\ \A d \in Caller \ {c} : call'[d] = call[d]
  BY GotoTo DEF DeleteRow, SafeInv
<1>3. CASE UNCHANGED <<row, outcome>>
  <2>1. CallData(call[c])'
    BY <1>2 DEF CallData
  <2>. QED BY <1>0, <1>2, <1>3, <2>1, StillData, DataKept
<1>4. CASE row = call[c].op /\ row' = NoRow /\ outcome' = [outcome EXCEPT ![row.id] = OutcomeOf(row)]
  <2>0. /\ row \in Row /\ row.id \in OpId /\ row # NoRow /\ row.phase = "releasing" /\ Lawful(row)
        /\ row.position \in Nat /\ row.kind \in {"export", "import"}
    BY <1>1, <1>4, RowFields DEF Row, Ended
  <2>1. Sure' = Sure
    BY <1>0 DEF Sure
  <2>2. /\ outcome'[row.id] = OutcomeOf(row)
        /\ \A i \in OpId \ {row.id} : outcome'[i] = outcome[i]
    BY <1>4, <2>0 DEF SafeInv, TypeInv, RowTypeOK
  <2>3. \A i \in OpId : i >= nextId' => outcome'[i] = "none" /\ \A s \in Store : i \notin data'[s]
    <3>1. \A i \in OpId : i >= nextId => i # row.id
      BY <1>4, <2>0, NextIdNat DEF SafeInv, EndInv, OpId
    <3>. QED BY <1>0, <2>2, <3>1 DEF DataInv
  <2>4. \A i \in OpId : outcome'[i] = "activated" => \A s \in Sure' : i \in data'[s]
    <3>1. ASSUME OutcomeOf(row) = "activated", NEW s \in Sure PROVE row.id \in data[s]
      <4>1. row.kind = "import" /\ row.discard = NoDiscard /\ row.position = 6
        BY <2>0, <3>1 DEF OutcomeOf, Ended
      <4>2. \E p \in 1 .. 4 : s = Records[p]
        <5>1. s \in {"rows", "counters", "backfill", "objects"}
          BY <3>1 DEF Sure, Store
        <5>2. /\ Records[1] = "rows" /\ Records[2] = "counters" /\ Records[3] = "backfill"
              /\ Records[4] = "objects"
          BY DEF Records
        <5>. QED BY <5>1, <5>2
      <4>3. Restored(row)
        BY <2>0, <4>1 DEF DataInv, RowData
      <4>. QED BY <3>1, <4>1, <4>2, <4>3 DEF Restored, Ended
    <3>. QED BY <1>0, <2>1, <2>2, <3>1 DEF DataInv
  <2>5. \A i \in OpId : outcome'[i] \in {"discarded", "cancelled"} => CleanOf(i)'
    <3>1. ASSUME OutcomeOf(row) \in {"discarded", "cancelled"} PROVE CleanOf(row.id)
      <4>1. row.kind = "import" /\ (row.discard = NoDiscard => row.position # Ended)
        BY <2>0, <3>1 DEF OutcomeOf
      <4>2. CASE row.discard # NoDiscard
        BY <2>0, <4>1, <4>2 DEF DataInv, RowData
      <4>3. CASE row.discard = NoDiscard
        BY <2>0, <4>1, <4>3 DEF DataInv, RowData, Lawful, Untouched, CleanOf, Sure
      <4>. QED BY <4>2, <4>3
    <3>2. \A i \in OpId : CleanOf(i)' <=> CleanOf(i)
      BY <1>0, <2>1 DEF CleanOf
    <3>. QED BY <2>2, <3>1, <3>2 DEF DataInv
  <2>6. RowData'
    BY <1>4 DEF RowData
  <2>7. Live \notin data'["objects"] /\ Live \notin data'["backfill"]
    BY <1>0 DEF DataInv
  <2>8. ASSUME NEW d \in Caller, call'[d].at \in Fetched PROVE CallData(call[d])'
    <3>1. CASE d = c
      BY <1>2, <3>1 DEF CallData
    <3>2. CASE d # c
      <4>1. call'[d] = call[d] /\ CallData(call[d]) /\ call[d].op # NoRow
        BY <1>2, <2>8, <3>2, ShapeOf, NoRowNotRow DEF DataInv, SafeInv
      <4>. QED BY <1>0, <1>4, <2>1, <4>1 DEF CallData, CleanOf
    <3>. QED BY <3>1, <3>2
  <2>. QED BY <2>3, <2>4, <2>5, <2>6, <2>7, <2>8 DEF DataInv
<1>. QED BY <1>3, <1>4 DEF DeleteRow

LEMMA ReleaseData ==
  ASSUME SafeInv, SafeInv', DataInv, RowStep, NEW c \in Caller, ReleaseServer(c)
  PROVE  DataInv'
<1>0. call[c].at \in Fetched
  BY ReleaseTo DEF SafeInv, Releases, Fetched, Working, Steps
<1>1. /\ call[c].op \in Row /\ OpShape(call[c]) /\ Lawful(call[c].op) /\ CallData(call[c])
      /\ call[c].op # NoRow
  BY <1>0, ShapeOf, NoRowNotRow DEF SafeInv, DataInv
<1>2. CallData(call[c])' /\ \A d \in Caller \ {c} : call'[d] = call[d]
  BY ReleaseTo DEF SafeInv, Releases, CallData
<1>3. CASE ToReleasing(c)
  <2>1. UNCHANGED <<outcome, data, late>> /\ call[c].at = "toReleasing"
    BY <1>3 DEF ToReleasing, stores
  <2>2. ASSUME row = call[c].op, row.phase # "releasing", row' = [row EXCEPT !.phase = "releasing"]
        PROVE  RowData'
    <3>1. /\ row'.phase = "releasing" /\ row'.kind = row.kind /\ row'.discard = row.discard
          /\ row'.position = row.position /\ row'.id = row.id /\ row \in Row /\ row # NoRow
      BY <1>1, <2>2 DEF Row
    <3>2. Sure' = Sure
      BY <2>1 DEF Sure
    <3>3. row.kind = "import" =>
          /\ Restored(row) /\ Lawful(row) /\ (row.phase = "ready" => row.position = Ended)
          /\ row.discard # NoDiscard => NoneActivated /\ row.phase = "discarding" /\ CleanOf(row.id)
          /\ Untouched(row) => \A s \in Store : row.id \notin data[s]
      BY <1>1, <2>1, <2>2, <3>1 DEF DataInv, RowData, Lawful, CallData, OpShape, Row
    <3>4. Untouched(row)' /\ row.kind = "import" => Untouched(row)
      <4>1. row.phase = "discarding" => row.discard # NoDiscard
        BY <1>1, <2>2 DEF Lawful, NoDiscard
      <4>. QED BY <2>2, <3>1, <3>3, <4>1 DEF Untouched, Lawful, Ended
    <3>5. /\ Restored(row) => Restored(row)'
          /\ NoneActivated => NoneActivated'
          /\ CleanOf(row.id) => CleanOf(row.id)'
      BY <2>1, <3>1, <3>2 DEF Restored, NoneActivated, CleanOf
    <3>. QED BY <2>1, <3>1, <3>3, <3>4, <3>5 DEF RowData, Held
  <2>3. row' = row \/ RowData'
    BY <1>3, <2>2 DEF ToReleasing, Swaps
  <2>. QED BY <1>2, <2>1, <2>3, StillData, DataKept
<1>4. CASE CloseCounters(c) \/ Thaw(c) \/ Reopen(c)
  <2>1. UNCHANGED <<row, outcome, data, late>>
    BY <1>4 DEF CloseCounters, Thaw, Reopen, stores
  <2>. QED BY <1>2, <2>1, StillData, DataKept
<1>. QED BY <1>3, <1>4, DeleteData DEF ReleaseServer

LEMMA RestoreData ==
  ASSUME SafeInv, SafeInv', DataInv, RowStep, NEW c \in Caller, Restore(c)
  PROVE  DataInv'
<1>0. call[c].at \in Fetched
  BY RestoreTo DEF SafeInv, Appends, Fetched, Working, Steps
<1>1. /\ call[c].op \in Row /\ OpShape(call[c]) /\ Lawful(call[c].op) /\ CallData(call[c])
      /\ call[c].op # NoRow /\ call[c] \in Call /\ call[c].op.id \in OpId
      /\ call[c].op.id < nextId /\ (row # NoRow => Leads(call[c].op, row))
  BY <1>0, ShapeOf, NoRowNotRow DEF SafeInv, DataInv
<1>2. \A d \in Caller \ {c} : call'[d] = call[d]
  BY RestoreTo DEF SafeInv
<1>3. CASE BeginImport(c) \/ CheckEmpty(c)
  <2>1. UNCHANGED <<row, outcome, data, late>>
    BY <1>3 DEF BeginImport, CheckEmpty, stores
  <2>2. Sure' = Sure
    BY <2>1 DEF Sure
  <2>3. CASE call'[c].at = "checkEmpty"
    BY <1>2, <2>1, <2>3, StillData, DataKept DEF CallData
  <2>4. CASE CheckEmpty(c)
    <3>1. call[c].op.phase = "preparing" /\ call'[c].op = call[c].op
      BY <1>1, <2>4, RestoreTo DEF CheckEmpty, OpShape, Preparing, SafeInv, Fetched, Working, Steps
    <3>2. ~Occupied => NoneActivated /\ NothingLive
      BY DEF Occupied, Store, DataInv, NoneActivated, NothingLive, Sure, Unfenced
    <3>3. call'[c].at \in {"toReleasing", "toReady"} /\ (call'[c].at = "toReady" => ~Occupied)
      BY <1>3, <2>4, RestoreTo DEF SafeInv
    <3>4. CallData(call[c])'
      BY <2>1, <3>1, <3>2, <3>3 DEF CallData, NoneActivated, NothingLive
    <3>. QED BY <1>2, <2>1, <3>4, StillData, DataKept
  <2>. QED BY <1>3, <2>3, <2>4, RestoreTo DEF SafeInv
<1>4. CASE ChooseChunk(c)
  <2>1. UNCHANGED <<row, outcome, data, late>> /\ call'[c].at = "append" /\ call'[c].op = call[c].op
    BY <1>4, RestoreTo DEF ChooseChunk, stores, SafeInv, Fetched, Working, Steps
  <2>2. PICK n \in ChunkSizes :
          LET from == call[c].op.position
              to == Least(from + n, Ended)
          IN  call' = [call EXCEPT ![c].at = "append",
                         ![c].plan = [to |-> to, left |-> Chunk(from, to) \cap Outside]]
    BY <1>4 DEF ChooseChunk
  <2> DEFINE to == Least(call[c].op.position + n, Ended)
             p == [to |-> to, left |-> Chunk(call[c].op.position, to) \cap Outside]
             k == [call[c] EXCEPT !.at = "append", !.plan = p]
  <2>3. call' = [call EXCEPT ![c].at = "append", ![c].plan = p]
    BY <2>2
  <2>4. call' = [call EXCEPT ![c] = k]
    BY <2>3 DEF SafeInv, TypeInv, CallsOK
  <2>5. k.plan = p
    BY <1>1 DEF Call
  <2>6. call'[c].plan = p
    <3> HIDE DEF k, p
    <3>. QED BY <2>4, <2>5, CallTo DEF SafeInv
  <2>7. p.left = Chunk(call[c].op.position, p.to) \cap Outside
    OBVIOUS
  <2> HIDE DEF p
  <2>8. CallData(call[c])'
    BY <2>1, <2>6, <2>7 DEF CallData
  <2>. QED BY <1>2, <2>1, <2>8, StillData, DataKept
<1>5. CASE CheckAppend(c)
  <2>1. UNCHANGED <<row, outcome, data, late>> /\ call[c].at = "append"
    BY <1>5 DEF CheckAppend, stores
  <2>2. Sure' = Sure
    BY <2>1 DEF Sure
  <2>3. call'[c].at \in Fetched =>
          /\ call'[c].op = call[c].op /\ call'[c].plan = call[c].plan
          /\ \/ call'[c].at = "commit" /\ call[c].plan.left = {}
             \/ call'[c].at = "write"
    BY <1>5, RestoreTo DEF SafeInv
  <2>4. call'[c].at \in Fetched => CallData(call[c])'
    BY <1>1, <2>1, <2>2, <2>3 DEF CallData
  <2>. QED BY <1>2, <2>1, <2>4, StillData, DataKept
<1>6. CASE WriteOutside(c)
  <2> DEFINE store == NextOutside(call[c].plan.left)
             k == [call[c] EXCEPT !.at = "append", !.plan.left = call[c].plan.left \ {store}]
  <2>1. UNCHANGED <<row, outcome>> /\ call[c].at = "write" /\ DataStep
    BY <1>6, WriteData DEF WriteOutside
  <2>2. ASSUME call'[c].at \in Fetched PROVE CallData(call[c])'
    <3>1. /\ data' = [data EXCEPT ![store] = @ \cup {call[c].op.id}]
          /\ call'[c].at = "append" /\ call'[c].op = call[c].op
      BY <1>6, <2>2, WriteData, RestoreTo DEF SafeInv
    <3>2. call' = [call EXCEPT ![c].at = "append", ![c].plan.left = @ \ {store}]
      BY <1>6, <2>2, AnswerTo DEF WriteOutside, SafeInv
    <3>3. call[c].plan \in Appending
      BY <2>1 DEF SafeInv, TypeInv, CallsOK, Shape
    <3>4. call' = [call EXCEPT ![c] = k]
      BY <3>2 DEF SafeInv, TypeInv, CallsOK
    <3>5. k.plan.to = call[c].plan.to /\ k.plan.left = call[c].plan.left \ {store}
      BY <1>1, <3>3 DEF Call, Appending
    <3>6. call'[c].plan.to = call[c].plan.to /\ call'[c].plan.left = call[c].plan.left \ {store}
      <4> HIDE DEF k
      <4>. QED BY <3>4, <3>5, CallTo DEF SafeInv
    <3>7. store \in Store /\ \A s \in Store : data[s] \subseteq data'[s]
      <4>1. store \in Store
        BY DEF NextOutside, Store
      <4>. QED BY <3>1, <4>1 DEF SafeInv, TypeInv, StoreTypeOK
    <3>8. call[c].op.id \in data'[store]
      BY <3>1, <3>7 DEF SafeInv, TypeInv, StoreTypeOK
    <3>9. (Sure' \subseteq Sure) /\ Sure \subseteq Store
      BY <2>1, SureStep DEF DataStep
    <3> HIDE DEF store, k
    <3>10. row = call[c].op =>
             \A s \in (Chunk(call[c].op.position, call[c].plan.to) \cap Outside \cap Sure')
                        \ (call[c].plan.left \ {store}) : call[c].op.id \in data'[s]
      BY <1>1, <2>1, <3>7, <3>8, <3>9 DEF CallData
    <3>. QED BY <2>1, <3>1, <3>6, <3>10 DEF CallData
  <2>. QED BY <1>2, <2>1, <2>2, DataKept
<1>7. CASE CommitAppend(c)
  <2>1. UNCHANGED <<outcome, late>> /\ call[c].at = "commit" /\ DataStep
    BY <1>7, CommitData DEF CommitAppend
  <2>2. call'[c].at \notin Fetched
    BY <1>7, RestoreTo DEF SafeInv
  <2>3. ASSUME Fenced(c) PROVE RowData'
    <3> DEFINE to == call[c].plan.to
    <3>1. /\ row = call[c].op /\ row' = [row EXCEPT !.position = to]
          /\ data' = IF "rows" \in Chunk(row.position, to)
                     THEN [data EXCEPT !["rows"] = @ \cup {row.id}] ELSE data
      BY <1>7, <2>3 DEF CommitAppend, Fenced
    <3>2. /\ row \in Row /\ row.phase = "ready" /\ row.discard = NoDiscard /\ row.kind = "import"
          /\ row # NoRow /\ row.position \in Nat /\ to \in 1 .. Ended /\ to > row.position
      BY <1>1, <2>1, <3>1 DEF OpShape, Appends, Lawful, Row, Ended, SafeInv, TypeInv, CallsOK,
                              Shape, Appending
    <3>3. /\ row'.phase = "ready" /\ row'.discard = NoDiscard /\ row'.id = row.id
          /\ row'.position = to /\ row'.kind = "import"
      BY <3>1, <3>2 DEF Row
    <3>4. Restored(row) /\ NoneActivated /\ NothingLive
      BY <3>2 DEF DataInv, RowData, Held
    <3>5. /\ \A s \in Store : data[s] \subseteq data'[s] /\ (Live \in data'[s] => Live \in data[s])
          /\ "rows" \in Chunk(row.position, to) => row.id \in data'["rows"]
      BY <1>1, <3>1 DEF SafeInv, TypeInv, StoreTypeOK, Store, Live, OpId
    <3>6. \A s \in Chunk(row.position, to) \cap Outside \cap Sure : row.id \in data[s]
      BY <1>1, <2>1, <3>1 DEF CallData
    <3>7. Sure' = Sure /\ Sure \subseteq Store
      BY <2>1, SureStep DEF Sure
    <3> HIDE DEF to
    <3>8. Restored(row)'
      <4> SUFFICES ASSUME NEW p \in 1 .. Ended - 2, Records[p] \in Sure, to > p
                   PROVE  row.id \in data'[Records[p]]
        BY <3>3, <3>7 DEF Restored
      <4>1. Records[p] \in Outside \cup {"rows"}
        BY <3>7 DEF Store, Outside
      <4>2. CASE row.position > p
        BY <3>2, <3>4, <3>5, <3>7, <4>2 DEF Restored
      <4>3. CASE p \in row.position .. to - 1
        BY <3>5, <3>6, <3>7, <4>1, <4>3 DEF Chunk
      <4>. QED BY <3>2, <4>2, <4>3 DEF Ended
    <3>9. NothingLive' /\ NoneActivated'
      BY <2>1, <3>4, <3>5 DEF NothingLive, NoneActivated, Store
    <3>. QED BY <3>3, <3>8, <3>9 DEF RowData, Untouched
  <2>4. row' = row \/ RowData'
    BY <1>7, <2>3 DEF CommitAppend
  <2>. QED BY <1>2, <2>1, <2>2, <2>4, DataKept
<1>. QED BY <1>3, <1>4, <1>5, <1>6, <1>7 DEF Restore

\* A discard goes to its release only from stores that it found empty.
LEMMA DiscardFinds ==
  ASSUME TypeInv, NEW c \in Caller, DiscardOne(c), call[c].op.discard \in Discard,
         call'[c].at \in {"verifyBackfill", "toReleasing"}
  PROVE  ~Occupied
<1> SUFFICES ASSUME Occupied PROVE FALSE
  OBVIOUS
<1>1. Goto(c, "wipe") \/ \E e : Save(c, e)
  BY DEF DiscardOne, UnlessLate, Discard
<1>. QED BY <1>1, GotoTo, SaveTo

LEMMA DiscardData ==
  ASSUME SafeInv, SafeInv', DataInv, RowStep, NEW c \in Caller, DiscardRestore(c)
  PROVE  DataInv'
<1>0. call[c].at \in Fetched
  BY DiscardAt DEF DiscardRestore, Claim, Revoke, SaveProgress, Fetched, Working, Steps
<1>1. /\ call[c].op \in Row /\ OpShape(call[c]) /\ Lawful(call[c].op) /\ CallData(call[c])
      /\ call[c].op # NoRow /\ call[c].op.discard \in Discard
  BY <1>0, ShapeOf, NoRowNotRow, RowFields DEF SafeInv, DataInv
<1>2. CASE Claim(c) \/ SaveProgress(c)
  <2>1. UNCHANGED <<outcome, data, late>>
    BY <1>2 DEF Claim, SaveProgress, stores
  <2>2. /\ \A d \in Caller \ {c} : call'[d] = call[d]
        /\ call'[c].at \in {"revokeClaimed", "conflict", "release", "idle"}
    BY <1>2, GotoTo, AnswerTo DEF Claim, SaveProgress, SafeInv
  <2>3. ASSUME NEW d \in Discard, d.step >= 1, row = call[c].op, row' = Discarding(row, d),
               row.phase \in {"ready", "discarding"}
        PROVE  RowData'
    <3>1. /\ row'.phase = "discarding" /\ row'.discard = d /\ row'.kind = row.kind
          /\ row'.id = row.id /\ row \in Row
      BY <1>1, <2>3 DEF Discarding, Row
    <3>2. row'.discard # NoDiscard
      BY <2>3, <3>1 DEF NoDiscard
    <3>3. row.kind = "import" => NoneActivated /\ NothingLive
      BY <1>1, <2>3 DEF DataInv, RowData, Held
    <3>4. Restored(row)'
      BY <3>2 DEF Restored
    <3>5. row.kind = "import" => NoneActivated' /\ NothingLive'
      BY <2>1, <3>3 DEF NoneActivated, NothingLive
    <3>. QED BY <3>1, <3>2, <3>4, <3>5 DEF RowData, Untouched
  <2>4. row' = row \/ RowData'
    <3>1. CASE Claim(c)
      <4>1. FirstDiscard \in Discard /\ FirstDiscard.step = 1
        BY DEF FirstDiscard, Discard
      <4>2. call[c].op.phase = "ready"
        BY <1>1, <3>1 DEF Claim, OpShape
      <4>. QED BY <2>3, <3>1, <4>1, <4>2 DEF Claim, Swaps
    <3>2. CASE SaveProgress(c)
      <4>1. call[c].plan \in Discard /\ call[c].plan.step >= 1 /\ call[c].op.phase = "discarding"
        BY <1>1, <3>2 DEF SaveProgress, OpShape, Discards, SafeInv, TypeInv, CallsOK, Shape
      <4>. QED BY <2>3, <3>2, <4>1 DEF SaveProgress, Swaps
    <3>. QED BY <1>2, <3>1, <3>2
  <2>5. CallData(call[c])'
    BY <2>2 DEF CallData
  <2>. QED BY <2>1, <2>2, <2>4, <2>5, StillData, DataKept
<1>3. CASE Revoke(c)
  <2>1. UNCHANGED <<row, outcome, data, late>>
    BY <1>3 DEF Revoke
  <2>2. /\ \A d \in Caller \ {c} : call'[d] = call[d]
        /\ call'[c].at \in {"discard", "conflict", "release", "idle"}
    BY <1>3, GotoTo, AnswerTo DEF Revoke, SafeInv
  <2>3. CallData(call[c])'
    BY <2>2 DEF CallData
  <2>. QED BY <2>1, <2>2, <2>3, StillData, DataKept
<1>4. CASE DiscardOne(c) \/ Wipe(c) \/ VerifyBackfill(c)
  <2>0. call[c].op.discard.step >= 1
    BY <1>1, <1>4, DiscardAt DEF OpShape, Discards, Lawful
  <2>1. /\ \A d \in Caller \ {c} : call'[d] = call[d]
        /\ call'[c].at \in Fetched =>
             /\ call'[c].at \in {"save", "wipe", "verifyBackfill", "toReleasing"}
             /\ call'[c].op = call[c].op
    BY <1>1, <1>4, <2>0, DiscardTo DEF SafeInv
  <2>2. UNCHANGED <<row, outcome>> /\ DataStep
    BY <1>4, DiscardAt, WipeData, StillData DEF stores
  <2>3. call'[c].at \in Fetched => CallData(call[c])'
    <3>1. CASE Wipe(c)
      <4>1. Answer(c) \/ Conflict(c) \/ \E e : Save(c, e)
        BY <3>1 DEF Wipe
      <4>2. call'[c].at \in {"save", "release", "conflict", "idle"}
        BY <4>1, AnswerTo, SaveTo DEF SafeInv
      <4>. QED BY <4>2 DEF CallData
    <3>2. CASE DiscardOne(c) \/ VerifyBackfill(c)
      <4>1. UNCHANGED <<data, late>> /\ Sure' = Sure
        BY <3>2, DiscardAt DEF stores, Sure
      <4>2. CASE call'[c].at \in {"verifyBackfill", "toReleasing"}
        <5>1. CleanOf(call[c].op.id)
          <6>1. CASE DiscardOne(c)
            BY <1>1, <4>1, <4>2, <6>1, DiscardFinds, SureStep DEF Occupied, CleanOf, SafeInv
          <6>2. CASE VerifyBackfill(c)
            BY <1>1, <6>2, DiscardAt DEF CallData, OpShape, Discards
          <6>. QED BY <3>2, <6>1, <6>2
        <5>2. \A i \in OpId : CleanOf(i) => CleanOf(i)'
          BY <4>1 DEF CleanOf
        <5>. QED BY <1>1, <2>1, <4>2, <5>1, <5>2, RowFields DEF CallData, Fetched, Working, Steps
      <4>3. CASE call'[c].at \in {"save", "wipe"}
        BY <4>3 DEF CallData
      <4>. QED BY <2>1, <4>2, <4>3
    <3>. QED BY <1>4, <3>1, <3>2
  <2>. QED BY <2>1, <2>2, <2>3, DataKept
<1>. QED BY <1>2, <1>3, <1>4 DEF DiscardRestore

LEMMA OutsideData ==
  ASSUME SafeInv, DataInv, RowStep, Age \/ Write \/ RecordOrFlush \/ Faulty
  PROVE  DataInv'
<1>1. UNCHANGED <<row, outcome>>
  BY DEF Age, Write, AdmitRow, CommitRow, RecordOrFlush, StartRecord, ObserveFreezes, CheckGate,
         ThawStale, CommitRecord, Faulty, CallFails, IsolateCrash, CountersRestart, ProcessRestart
<1>2. DataStep
  <2>1. CommitRow \/ CommitRecord \/ UNCHANGED <<data, late>>
    BY DEF Age, Write, AdmitRow, RecordOrFlush, StartRecord, ObserveFreezes, CheckGate,
           ThawStale, Faulty, CallFails, IsolateCrash, CountersRestart, ProcessRestart, stores
  <2>. QED BY <2>1, OrdinaryData, StillData
<1>. QED BY <1>1, <1>2, OutsideCalls, DataKept DEF SafeInv, Fetched, Working

LEMMA NextData ==
  ASSUME SafeInv, SafeInv', DataInv, [Next]_vars
  PROVE  DataInv'
<1>0. RowStep
  BY NextCourse DEF SafeInv
<1>1. CASE UNCHANGED vars
  BY <1>0, <1>1, StillData, DataKept DEF vars, stores
<1>2. ASSUME NEW c \in Caller, (\E r \in Requests : Acquire(c, r)) \/ Proceed(c) PROVE DataInv'
  BY <1>0, <1>2, RequestData, HoldData, ReleaseData, RestoreData, DiscardData DEF Proceed
<1>. QED BY <1>0, <1>1, <1>2, OutsideData DEF Next

LEMMA DataInvariant == Spec => [](SafeInv /\ DataInv)
<1>1. Init => DataInv
  BY DEF Init, DataInv, RowData, Idle, Fetched, Working, Live, Store
<1>2. SafeInv /\ SafeInv' /\ DataInv /\ [Next]_vars => DataInv'
  BY NextData
<1>3. Spec => []SafeInv
  BY TypeInvariant, CourseInvariant, HoldInvariant, GrantInvariant, EndInvariant, PTL DEF SafeInv
<1>. QED BY <1>1, <1>2, <1>3, PTL DEF Spec

\* What an import activates is the whole archive, and it never goes past a
\* record that is not stored, however requests stall, repeat and fail.
THEOREM RestoresAreComplete == Spec => []RestoreComplete
<1>1. DataInv => RestoreComplete
  BY DEF DataInv, RowData, Restored, RestoreComplete
<1>. QED BY <1>1, DataInvariant, PTL

\* A discarded or cancelled import leaves nothing in a store that it answers for.
THEOREM DiscardsLeaveNothing == Spec => []DiscardLeavesNothing
<1>1. DataInv => DiscardLeavesNothing
  BY DEF DataInv, CleanOf, DiscardLeavesNothing
<1>. QED BY <1>1, DataInvariant, PTL

LEMMA NextStores ==
  ASSUME SafeInv, DataInv, [Next]_vars
  PROVE  DataStep
<1>1. ASSUME NEW c \in Caller, HoldFor(c) \/ ReleaseServer(c)
      PROVE  UNCHANGED <<data, late>>
  BY <1>1 DEF HoldFor, CloseProcess, FreezeMemory, FreezeDurably, VerifyHold, UndoFreeze,
     UndoHold, Publish, Recheck, ReleaseServer, ToReleasing, CloseCounters, DeleteRow, Thaw,
     Reopen, stores
<1>2. ASSUME NEW c \in Caller, \/ \E r \in Requests : Acquire(c, r)
                               \/ Read(c) \/ Reread(c) \/ ReadHold(c) \/ Insert(c) \/ Release(c)
      PROVE  UNCHANGED <<data, late>>
  BY <1>2 DEF Acquire, Read, Reread, ReadHold, Insert, Release, stores
<1>3. ASSUME NEW c \in Caller, Restore(c) PROVE DataStep
  <2>1. WriteOutside(c) \/ CommitAppend(c) \/ UNCHANGED <<data, late>>
    BY <1>3 DEF Restore, BeginImport, CheckEmpty, ChooseChunk, CheckAppend, stores
  <2>. QED BY <2>1, WriteData, CommitData, StillData
<1>4. ASSUME NEW c \in Caller, DiscardRestore(c) PROVE DataStep
  <2>1. Wipe(c) \/ UNCHANGED <<data, late>>
    BY <1>4, DiscardAt DEF DiscardRestore, Claim, Revoke, SaveProgress, stores
  <2>. QED BY <2>1, WipeData, StillData
<1>5. CASE Age \/ Write \/ RecordOrFlush \/ Faulty
  <2>1. CommitRow \/ CommitRecord \/ UNCHANGED <<data, late>>
    BY <1>5 DEF Age, Write, AdmitRow, RecordOrFlush, StartRecord, ObserveFreezes, CheckGate,
           ThawStale, Faulty, CallFails, IsolateCrash, CountersRestart, ProcessRestart, stores
  <2>. QED BY <2>1, OrdinaryData, StillData
<1>6. CASE UNCHANGED vars
  BY <1>6, StillData DEF vars, stores
<1>. QED BY <1>1, <1>2, <1>3, <1>4, <1>5, <1>6, StillData DEF Next, Proceed

\* No archive request takes what ordinary writers stored, but for a counter that
\* slipped into an operation being released.
THEOREM LiveDataStays == Spec => LiveDataSurvives
<1>1. SafeInv /\ DataInv /\ [Next]_vars =>
        [\A s \in Store : Live \in data[s] /\ Live \notin data'[s] =>
            s = "counters" /\ row # NoRow /\ row.phase = "releasing"]_vars
  <2> SUFFICES ASSUME SafeInv, DataInv, Next, NEW s \in Store,
                      Live \in data[s], Live \notin data'[s]
               PROVE  s = "counters" /\ row # NoRow /\ row.phase = "releasing"
    OBVIOUS
  <2>1. DataStep
    BY NextStores
  <2>2. s \in {"rows", "counters"} /\ s \in Sure'
    BY <2>1, SureStep DEF DataInv, Store, DataStep
  <2>3. /\ row # NoRow /\ row.kind = "import" /\ row.discard # NoDiscard
        /\ s = "rows" => row.phase = "discarding"
    BY <2>1, <2>2 DEF DataStep, Removes
  <2>4. row.phase \in {"discarding", "releasing"}
    BY <2>3 DEF SafeInv, CourseInv, Lawful
  <2>5. ~Held
    BY <2>2, <2>3 DEF DataInv, RowData, NothingLive
  <2>. QED BY <2>2, <2>3, <2>4, <2>5 DEF Held
<1>. QED BY <1>1, DataInvariant, PTL DEF Spec, LiveDataSurvives

\* Between two pages of an export nothing changes in the stores that the export
\* answers for.
THEOREM ExportsAreStable == Spec => FrozenDatasetStable
<1>1. SafeInv /\ DataInv /\ [Next]_vars =>
        [row # NoRow /\ row.phase = "frozen" /\ row' = row =>
           \A s \in Store : data'[s] = data[s] \/ (s \in Unfenced /\ late')]_vars
  <2> SUFFICES ASSUME SafeInv, DataInv, Next, row # NoRow, row.phase = "frozen",
                      NEW s \in Store, s \notin Unfenced \/ ~late'
               PROVE  data'[s] = data[s]
    OBVIOUS
  <2>1. DataStep
    BY NextStores
  <2>2. s \in Sure'
    BY DEF Sure
  <2>3. row.kind = "export" /\ row.id \in OpId
    BY RowFields DEF SafeInv, CourseInv, Lawful, TypeInv, RowTypeOK, Row
  <2>4. Quiet /\ counterState[row.id] = 0
    BY DEF SafeInv, HoldInv, Held, GrantInv, Granted
  <2>5. \A i \in OpId \cup {Live} : ~Removes(s, i) /\ ~Adds(s, i)
    BY <2>1, <2>2, <2>3, <2>4 DEF DataStep
  <2>6. data[s] \subseteq OpId \cup {Live} /\ data'[s] \subseteq OpId \cup {Live}
    BY NextType DEF SafeInv, TypeInv, StoreTypeOK
  <2>. QED BY <2>5, <2>6 DEF Removes, Adds
<1>. QED BY <1>1, DataInvariant, PTL DEF Spec, FrozenDatasetStable

(***************************************************************************)
(* The lease.  While no request stalls, the one that is under way holds    *)
(* it, fresh, and the row is the one that this request read: its           *)
(* compare-and-sets succeed and its writes are in time, whatever fails.    *)
(***************************************************************************)
Acting == InHold \cup {"toFrozen", "toReleasing", "closeCounters", "delete", "claim"}
            \cup Preparing \cup Appends \cup Discards

\* What the request under way knows of the row.
Current(k) == /\ k.at \in Acting => row = k.op
              /\ k.at \notin Undoing \cup {"recheck"}

LeaseInv ==
    "stall" \notin Faults =>
    /\ ~late
    /\ \A c \in Caller : call[c].at # "idle" =>
         lease = [holder |-> c, age |-> "fresh"] /\ Current(call[c])

LEMMA Alone ==
  ASSUME LeaseInv, "stall" \notin Faults, NEW c \in Caller, call[c].at # "idle"
  PROVE  \A d \in Caller \ {c} : call[d].at = "idle"
  BY DEF LeaseInv

\* A step of the request under way.
LEMMA LeaseKept ==
  ASSUME LeaseInv, NEW c \in Caller, call[c].at # "idle", UNCHANGED lease,
         "stall" \notin Faults => late' = late,
         \A d \in Caller \ {c} : call'[d] = call[d],
         "stall" \notin Faults /\ call'[c].at # "idle" => Current(call[c])'
  PROVE  LeaseInv'
  BY Alone DEF LeaseInv

LEMMA RequestLease ==
  ASSUME TypeInv, CourseInv, LeaseInv, NEW c \in Caller,
         \/ \E r \in Requests : Acquire(c, r)
         \/ Release(c) \/ Read(c) \/ Reread(c) \/ ReadHold(c) \/ Insert(c)
  PROVE  LeaseInv'
<1>a. \A d \in Caller \ {c} : call'[d] = call[d]
  BY RequestTo
<1>b. UNCHANGED late
  BY DEF Acquire, Release, Read, Reread, ReadHold, Insert, stores
<1>0. (\A d \in Caller \ {c} : call'[d] = call[d]) /\ UNCHANGED late
  BY <1>a, <1>b
<1>1. Current(call[c])'
  BY RequestTo DEF Current, Acting, InHold, Preparing, Appends, Discards, Undoing
<1>2. CASE \E r \in Requests : Acquire(c, r)
  <2> SUFFICES ASSUME "stall" \notin Faults PROVE LeaseInv'
    BY DEF LeaseInv
  <2>1. /\ lease.holder = NoCaller \/ lease.age = "expired"
        /\ lease' = [holder |-> c, age |-> "fresh"]
    BY <1>2 DEF Acquire
  <2>2. \A d \in Caller : call[d].at = "idle"
    BY <2>1, ConstantsAssumption DEF LeaseInv
  <2>. QED BY <1>0, <1>1, <2>1, <2>2 DEF LeaseInv
<1>3. CASE Release(c)
  <2> SUFFICES ASSUME "stall" \notin Faults PROVE LeaseInv'
    BY DEF LeaseInv
  <2>1. call[c].at # "idle" /\ call'[c] = Idle
    BY <1>3 DEF Release, TypeInv, CallsOK
  <2>2. \A d \in Caller : call'[d].at = "idle"
    BY <1>0, <2>1, Alone DEF Idle
  <2>. QED BY <1>0, <2>2 DEF LeaseInv
<1>4. CASE Read(c) \/ Reread(c) \/ ReadHold(c) \/ Insert(c)
  <2>1. call[c].at # "idle" /\ UNCHANGED lease
    BY <1>4 DEF Read, Reread, ReadHold, Insert
  <2>. QED BY <1>0, <1>1, <2>1, LeaseKept
<1>. QED BY <1>2, <1>3, <1>4

LEMMA HoldLease ==
  ASSUME TypeInv, CourseInv, LeaseInv, NEW c \in Caller, HoldFor(c)
  PROVE  LeaseInv'
<1>0. /\ call[c].at \in Fetched /\ UNCHANGED <<lease, late>>
      /\ call[c].at \in InHold \cup Undoing \cup {"toFrozen", "toReady", "recheck"}
  BY DEF HoldFor, CloseProcess, FreezeMemory, FreezeDurably, VerifyHold, UndoFreeze, UndoHold,
         Publish, Recheck, Fetched, Working, Steps, InHold, Undoing, stores
<1>1. /\ call[c].op \in Row /\ OpShape(call[c]) /\ call[c] \in Call /\ call[c].at # "idle"
  BY <1>0, ShapeOf DEF Fetched, Working
<1>2. \A d \in Caller \ {c} : call'[d] = call[d]
  BY HoldTo
<1>3. ASSUME "stall" \notin Faults PROVE Current(call[c])'
  <2>1. row = call[c].op /\ call[c].at \notin Undoing \cup {"recheck"}
    BY <1>0, <1>1, <1>3 DEF LeaseInv, Current, Acting, Preparing
  <2>2. CASE call'[c].at \notin Fetched
    BY <2>2 DEF Current, Acting, InHold, Preparing, Appends, Discards, Undoing, Fetched, Working, Steps
  <2>3. CASE call'[c].at \in Fetched
    <3>1. call'[c].op = call[c].op /\ row' = row
      BY <2>3, HoldTo
    <3>2. call'[c].at \notin Undoing \cup {"recheck"}
      <4>1. CASE VerifyHold(c)
        <5>1. call[c].at = "verifyHold"
          BY <4>1 DEF VerifyHold
        <5>2. row.id = call[c].op.id /\ row.phase \in Holding
          BY <1>1, <2>1, <5>1 DEF OpShape, InHold, Holding, Phase
        <5>3. PICK s \in {"close", "toFrozen", "beginImport"} :
                call' = [call EXCEPT ![c].at = s, ![c].after = "release"]
          BY <4>1, <5>2 DEF VerifyHold
        <5>4. call'[c].at = s
          BY <1>1, <5>3 DEF TypeInv, CallsOK, Call
        <5>. QED BY <5>4 DEF Undoing
      <4>2. CASE Publish(c)
        <5>1. /\ call[c].at \in {"toFrozen", "toReady"}
              /\ call[c].op.phase \in {"freezing", "preparing"}
          BY <1>1, <4>2 DEF Publish, OpShape, Preparing
        <5>2. \A p \in {"frozen", "ready"} : [call[c].op EXCEPT !.phase = p] # row
          BY <1>1, <2>1, <5>1 DEF Row
        <5>3. Answer(c)
          BY <2>1, <4>2, <5>2 DEF Publish, Swaps
        <5>. QED BY <2>3, <5>3, AnswerTo
      <4>3. CASE CloseProcess(c) \/ FreezeDurably(c)
        <5>1. call'[c].at \in {"freeze", "verifyHold"}
          BY <1>1, <4>3 DEF CloseProcess, FreezeDurably, TypeInv, CallsOK, Call
        <5>. QED BY <5>1 DEF Undoing
      <4>4. CASE FreezeMemory(c)
        BY <4>4, GotoTo DEF FreezeMemory, Undoing
      <4>. QED BY <2>1, <4>1, <4>2, <4>3, <4>4 DEF HoldFor, UndoFreeze, UndoHold, Recheck, Undoing
    <3>. QED BY <2>1, <3>1, <3>2 DEF Current
  <2>. QED BY <2>2, <2>3
<1>. QED BY <1>0, <1>1, <1>2, <1>3, LeaseKept

LEMMA ReleaseLease ==
  ASSUME TypeInv, CourseInv, LeaseInv, NEW c \in Caller, ReleaseServer(c)
  PROVE  LeaseInv'
<1>0. /\ call[c].at \in {"toReleasing"} \cup Releases
      /\ \A d \in Caller \ {c} : call'[d] = call[d]
      /\ UNCHANGED <<lease, late>>
  BY ReleaseTo DEF ReleaseServer, ToReleasing, CloseCounters, DeleteRow, Thaw, Reopen, stores
<1>1. call[c].at # "idle" /\ call[c].op \in Row
  BY <1>0, ShapeOf DEF Releases, Fetched, Working, Steps
<1>2. ASSUME "stall" \notin Faults PROVE Current(call[c])'
  <2>1. call[c].at \in {"toReleasing", "closeCounters", "delete"} => row = call[c].op
    BY <1>1, <1>2 DEF LeaseInv, Current, Acting
  <2>2. call'[c].at \in {"release", "conflict", "idle", "reread", "insert"} \cup Releases
    BY ReleaseTo
  <2>3. call'[c].at \in {"closeCounters", "delete"} => row' = call'[c].op
    <3>1. CASE ToReleasing(c)
      <4> DEFINE to == [call[c].op EXCEPT !.phase = "releasing"]
                 k == [call[c] EXCEPT !.at = "closeCounters", !.op = to]
      <4>1. row = call[c].op
        BY <2>1, <3>1 DEF ToReleasing
      <4>2. CASE Goto(c, "closeCounters") /\ row' = row
        BY <4>1, <4>2, GotoTo
      <4>3. CASE row' = to /\ call' = [call EXCEPT ![c].at = "closeCounters", ![c].op = to]
        <5>1. call' = [call EXCEPT ![c] = k] /\ call[c] \in Call
          BY <4>3 DEF TypeInv, CallsOK
        <5>2. k.op = to
          BY <5>1 DEF Call
        <5> HIDE DEF k
        <5>. QED BY <4>3, <5>1, <5>2, CallTo
      <4>4. CASE Answer(c) \/ Conflict(c)
        BY <4>4, AnswerTo
      <4>. QED BY <3>1, <4>2, <4>3, <4>4 DEF ToReleasing
    <3>2. CASE CloseCounters(c)
      BY <2>1, <3>2, GotoTo DEF CloseCounters
    <3>3. CASE DeleteRow(c) \/ Thaw(c) \/ Reopen(c)
      <4>1. call[c].at \in {"delete", "thaw", "reopen"}
        BY <3>3 DEF DeleteRow, Thaw, Reopen
      <4>. QED BY <4>1, ReleaseTo DEF Releases
    <3>. QED BY <3>1, <3>2, <3>3 DEF ReleaseServer
  <2>. QED BY <2>2, <2>3 DEF Current, Acting, InHold, Preparing, Appends, Discards, Undoing, Releases
<1>. QED BY <1>0, <1>1, <1>2, LeaseKept

LEMMA RestoreLease ==
  ASSUME TypeInv, CourseInv, LeaseInv, NEW c \in Caller, Restore(c)
  PROVE  LeaseInv'
<1>0. /\ call[c].at \in {"beginImport", "checkEmpty"} \cup Appends
      /\ \A d \in Caller \ {c} : call'[d] = call[d]
      /\ call'[c].at \in Fetched => call'[c].op = call[c].op
  BY RestoreTo
<1>1. call[c].at # "idle"
  BY <1>0 DEF Appends
<1>2. /\ UNCHANGED lease
      /\ UNCHANGED late \/ \E s : NoteLate(c, s)
      /\ row' = row \/ CommitAppend(c)
  BY DEF Restore, BeginImport, CheckEmpty, ChooseChunk, CheckAppend, WriteOutside,
         CommitAppend, stores
<1>3. ASSUME "stall" \notin Faults PROVE late' = late /\ Current(call[c])'
  <2>1. row = call[c].op
    BY <1>0, <1>1, <1>3 DEF LeaseInv, Current, Acting, Preparing
  <2>2. late' = late
    BY <1>2, <2>1 DEF NoteLate, TypeInv, StoreTypeOK
  <2>3. call'[c].at \in Fetched => row' = row
    BY <1>2, RestoreTo
  <2>4. call'[c].at \notin Undoing \cup {"recheck"}
    <3>1. call'[c].at \in Fetched =>
            call'[c].at \in {"checkEmpty", "toReleasing", "toReady", "append", "commit", "write"}
      BY RestoreTo DEF Restore
    <3>2. \A s \in Undoing \cup {"recheck"} : s \in Fetched
      BY DEF Undoing, Fetched, Working, Steps
    <3>. QED BY <3>1, <3>2 DEF Undoing
  <2>5. call'[c].at \in Acting => call'[c].at \in Fetched
    BY DEF Acting, InHold, Preparing, Appends, Discards, Fetched, Working, Steps
  <2>. QED BY <1>0, <2>1, <2>2, <2>3, <2>4, <2>5 DEF Current
<1>. QED BY <1>0, <1>1, <1>2, <1>3, LeaseKept

LEMMA DiscardLease ==
  ASSUME TypeInv, CourseInv, LeaseInv, NEW c \in Caller, DiscardRestore(c)
  PROVE  LeaseInv'
<1>0. call[c].at \in {"claim", "revokeClaimed"} \cup Discards
  BY DiscardAt DEF DiscardRestore, Claim, Revoke, SaveProgress, Discards
<1>1. call[c].at # "idle" /\ call[c].op \in Row /\ OpShape(call[c]) /\ Lawful(call[c].op)
  BY <1>0, ShapeOf DEF Discards, Fetched, Working, Steps
<1>2. UNCHANGED lease
  BY DiscardAt DEF DiscardRestore, Claim, Revoke, SaveProgress
<1>3. "stall" \notin Faults /\ call[c].at # "revokeClaimed" => row = call[c].op
  BY <1>0, <1>1 DEF LeaseInv, Current, Acting
<1>4. CASE Claim(c) \/ Revoke(c) \/ SaveProgress(c)
  <2>1. /\ UNCHANGED late
        /\ \/ Answer(c) \/ Conflict(c) \/ Goto(c, "revokeClaimed")
           \/ row' = row /\ call[c].at # "revokeClaimed" /\ Goto(c, "discard")
    BY <1>4 DEF Claim, Revoke, SaveProgress, stores
  <2>2. \A d \in Caller \ {c} : call'[d] = call[d]
    BY <2>1, AnswerTo, GotoTo
  <2>3. "stall" \notin Faults => Current(call[c])'
    <3>1. CASE Answer(c) \/ Conflict(c) \/ Goto(c, "revokeClaimed")
      <4>1. call'[c].at \in {"release", "conflict", "idle", "revokeClaimed"}
        BY <3>1, AnswerTo, GotoTo
      <4>. QED BY <4>1 DEF Current, Acting, InHold, Preparing, Appends, Discards, Undoing
    <3>2. CASE row' = row /\ call[c].at # "revokeClaimed" /\ Goto(c, "discard")
      BY <1>3, <3>2, GotoTo DEF Current, Undoing
    <3>. QED BY <2>1, <3>1, <3>2
  <2>. QED BY <1>1, <1>2, <2>1, <2>2, <2>3, LeaseKept
<1>5. CASE DiscardOne(c) \/ Wipe(c) \/ VerifyBackfill(c)
  <2>0. /\ call[c].op.discard.step >= 1 /\ row' = row
        /\ call[c].at # "revokeClaimed"
    BY <1>1, <1>5, DiscardAt DEF OpShape, Discards, Lawful
  <2>1. /\ \A d \in Caller \ {c} : call'[d] = call[d]
        /\ call'[c].at \in Fetched =>
             /\ call'[c].at \in {"save", "wipe", "verifyBackfill", "toReleasing"}
             /\ call'[c].op = call[c].op
    BY <1>1, <1>5, <2>0, DiscardTo
  <2>2. "stall" \notin Faults => late' = late
    <3>1. UNCHANGED late \/ \E s : NoteLate(c, s)
      <4>1. Wipe(c) => UNCHANGED late \/ \E s : NoteLate(c, s)
        BY Zenon DEF Wipe
      <4>. QED BY <1>5, <4>1, DiscardAt DEF stores
    <3>. QED BY <1>3, <2>0, <3>1 DEF NoteLate, TypeInv, StoreTypeOK
  <2>3. "stall" \notin Faults => Current(call[c])'
    <3>1. \A s \in Acting \cup Undoing \cup {"recheck"} : s \in Fetched
      BY DEF Acting, InHold, Preparing, Appends, Discards, Undoing, Fetched, Working, Steps
    <3>. QED BY <1>3, <2>0, <2>1, <3>1 DEF Current, Undoing
  <2>. QED BY <1>1, <1>2, <2>1, <2>2, <2>3, LeaseKept
<1>. QED BY <1>4, <1>5 DEF DiscardRestore

LEMMA OutsideLease ==
  ASSUME TypeInv, LeaseInv, Age \/ Write \/ RecordOrFlush \/ Faulty
  PROVE  LeaseInv'
<1> SUFFICES ASSUME "stall" \notin Faults PROVE LeaseInv'
  BY DEF LeaseInv
<1>1. UNCHANGED <<row, late>>
  BY DEF Age, Write, AdmitRow, CommitRow, RecordOrFlush, StartRecord, ObserveFreezes, CheckGate,
         ThawStale, CommitRecord, Faulty, CallFails, IsolateCrash, CountersRestart,
         ProcessRestart, stores
<1>2. \A d \in Caller : call'[d].at # "idle" => call[d].at # "idle" /\ Current(call[d])'
  <2> SUFFICES ASSUME NEW d \in Caller, call'[d].at # "idle"
               PROVE  call[d].at # "idle" /\ Current(call[d])'
    OBVIOUS
  <2>1. call[d].at # "idle"
    <3>1. ASSUME NEW c \in Caller, CallFails(c) \/ IsolateCrash(c), call[d].at = "idle" PROVE FALSE
      <4>1. call[c].at # "idle" /\ c # d
        BY <3>1 DEF CallFails, IsolateCrash
      <4>2. call'[d] = call[d]
        BY <3>1, <4>1, AnswerTo DEF CallFails, IsolateCrash
      <4>. QED BY <3>1, <4>2
    <3>2. CASE CountersRestart
      <4>1. "idle" \notin InCounters
        BY DEF InCounters, MidCall
      <4>2. call[d].at \notin InCounters => call'[d] = call[d]
        BY <3>2 DEF CountersRestart
      <4>. QED BY <4>1, <4>2
    <3>4. CASE ProcessRestart
      BY <3>4 DEF ProcessRestart, Idle
    <3>3. CASE Age \/ Write \/ RecordOrFlush
      <4>1. UNCHANGED call \/ \E s : Drained(s)
        BY <3>3 DEF Age, Write, AdmitRow, CommitRow, RecordOrFlush, StartRecord, ObserveFreezes,
                    CheckGate, ThawStale, CommitRecord
      <4>. QED BY <4>1, DrainedTo
    <3>. QED BY <3>1, <3>2, <3>3, <3>4 DEF Faulty
  <2>2. Current(call[d])
    BY <2>1 DEF LeaseInv
  <2>. QED BY <1>1, <2>1, <2>2, OutsideCalls DEF Current, Acting, InHold, Preparing, Appends,
               Discards, Undoing
<1>3. CASE Age
  <2>1. \A d \in Caller : call[d].at = "idle"
    BY <1>3 DEF Age, LeaseInv
  <2>. QED BY <1>1, <1>2, <2>1 DEF LeaseInv
<1>4. CASE UNCHANGED lease
  BY <1>1, <1>2, <1>4 DEF LeaseInv
<1>. QED BY <1>3, <1>4 DEF Write, AdmitRow, CommitRow, RecordOrFlush, StartRecord, ObserveFreezes,
              CheckGate, ThawStale, CommitRecord, Faulty, CallFails, IsolateCrash,
              CountersRestart, ProcessRestart

LEMMA LeaseInvariant == Spec => []LeaseInv
<1>1. Init => LeaseInv
  BY DEF Init, LeaseInv, Idle
<1>2. TypeInv /\ CourseInv /\ LeaseInv /\ [Next]_vars => LeaseInv'
  <2> SUFFICES ASSUME TypeInv, CourseInv, LeaseInv, [Next]_vars PROVE LeaseInv'
    OBVIOUS
  <2>1. CASE UNCHANGED vars
    BY <2>1 DEF vars, stores, LeaseInv, Current
  <2>2. ASSUME NEW c \in Caller, (\E r \in Requests : Acquire(c, r)) \/ Proceed(c) PROVE LeaseInv'
    BY <2>2, RequestLease, HoldLease, ReleaseLease, RestoreLease, DiscardLease DEF Proceed
  <2>. QED BY <2>1, <2>2, OutsideLease DEF Next
<1>. QED BY <1>1, <1>2, TypeInvariant, CourseInvariant, PTL DEF Spec

\* Failing calls and restarts alone never make a write late, half undo a hold or
\* leave a discarded restore behind: only requests that stall do.
THEOREM FaultsAreSafe == Spec => []SafeThroughFaults
<1>1. SafeInv /\ DataInv /\ LeaseInv => SafeThroughFaults
  <2>1. DataInv => DiscardLeavesNothing
    BY DEF DataInv, CleanOf, DiscardLeavesNothing
  <2>2. HoldInv => HoldsCoverOperation
    BY DEF HoldInv, HoldsCoverOperation, Covers
  <2>. QED BY <2>1, <2>2 DEF LeaseInv, SafeThroughFaults, SafeInv
<1>. QED BY <1>1, DataInvariant, LeaseInvariant, PTL
=============================================================================
