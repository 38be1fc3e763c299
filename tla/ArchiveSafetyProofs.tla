------------------------ MODULE ArchiveSafetyProofs ------------------------
(***************************************************************************)
(* Type correctness and safety of the archive lifecycle, for any number of *)
(* callers and operations, any archive limit, any faults and either        *)
(* platform.                                                               *)
(***************************************************************************)
EXTENDS ArchiveOperation, TLAPS

-----------------------------------------------------------------------------
(* Type correctness.                                                       *)

\* Steps of a request that has not answered, and of one that has read the row
\* it works on.
Working == Steps \ {"idle", "release", "conflict"}
Fetched == Working \ {"read", "reread", "readHold", "insert"}

\* Steps of holdFor before it verifies: the first hold of an insert is in one.
InHold == {"close", "freeze", "freezeDurably", "verifyHold"}

\* What a request's locals hold at each of its steps.
Shape(k) ==
    /\ k.at \in Working => k.req \in RequestKinds
    /\ k.at \in Fetched => k.op \in Row
    /\ k.at \in {"append", "write", "commit"} => k.plan \in Appending
    /\ k.at = "save" => k.plan \in Discard
    /\ k.after = "again" => k.at \in InHold

CallsOK == call \in [Caller -> Call] /\ \A c \in Caller : Shape(call[c])

LEMMA CallOK ==
  ASSUME CallsOK, NEW c \in Caller, NEW k \in Call, Shape(k),
         call' = [call EXCEPT ![c] = k]
  PROVE  CallsOK'
  BY DEF CallsOK

LEMMA IdleOK ==
  ASSUME NEW s \in {"idle", "release", "conflict"}
  PROVE  [Idle EXCEPT !.at = s] \in Call /\ Shape([Idle EXCEPT !.at = s])
  BY DEF Idle, Call, Shape, Steps, Working, Fetched, InHold

LEMMA AnswerOK ==
  ASSUME CallsOK, NEW c \in Caller, Answer(c) \/ Conflict(c) \/ call' = [call EXCEPT ![c] = Idle]
  PROVE  CallsOK'
<1>1. Idle \in Call /\ Shape(Idle)
  BY DEF Idle, Call, Shape, Steps, Working, Fetched, InHold
<1>2. CASE Answer(c)
  <2>1. call' = [call EXCEPT ![c] = [Idle EXCEPT !.at = "release"]]
    BY <1>2 DEF Answer
  <2>. QED BY <2>1, IdleOK, CallOK
<1>3. CASE Conflict(c)
  <2>1. call' = [call EXCEPT ![c] = [Idle EXCEPT !.at = "conflict"]]
    BY <1>3 DEF Conflict
  <2>. QED BY <2>1, IdleOK, CallOK
<1>4. CASE call' = [call EXCEPT ![c] = Idle]
  BY <1>1, <1>4, CallOK
<1>. QED BY <1>2, <1>3, <1>4

LEMMA GotoOK ==
  ASSUME CallsOK, NEW c \in Caller, NEW s \in Steps, Goto(c, s),
         Shape([call[c] EXCEPT !.at = s])
  PROVE  CallsOK'
  BY DEF CallsOK, Goto, Call, Shape

LEMMA EnterOK ==
  ASSUME CallsOK, NEW c \in Caller, call[c].at \in Working,
         NEW s \in Steps, NEW o \in Row \cup {NoRow},
         NEW a \in {"release", "again", "reread", "insert"},
         call' = [call EXCEPT ![c].at = s, ![c].op = o, ![c].after = a],
         s \in Fetched => o \in Row, s \notin {"append", "write", "commit", "save"},
         a = "again" => s \in InHold
  PROVE  CallsOK'
<1> DEFINE k == [call[c] EXCEPT !.at = s, !.op = o, !.after = a]
<1>1. call[c] \in Call
  BY DEF CallsOK
<1>2. k \in Call
  BY <1>1 DEF Call
<1>3. k.at = s /\ k.op = o /\ k.after = a /\ k.req \in RequestKinds
  BY <1>1 DEF Call, CallsOK, Shape
<1>4. Shape(k)
  BY <1>3 DEF Shape
<1>5. call' = [call EXCEPT ![c] = k]
  BY DEF CallsOK
<1>. QED BY <1>2, <1>4, <1>5, CallOK

\* A request that has read its row goes on to a step without a plan.
LEMMA StepOK ==
  ASSUME CallsOK, NEW c \in Caller, call[c].at \in Fetched, NEW s \in Steps,
         s \notin {"append", "write", "commit", "save"}, Goto(c, s),
         s \in InHold \/ call[c].at \notin InHold
  PROVE  CallsOK'
<1>1. Shape([call[c] EXCEPT !.at = s])
  BY DEF CallsOK, Call, Shape, Working, Fetched, InHold
<1>. QED BY <1>1, GotoOK

LEMMA DrainOK ==
  ASSUME CallsOK, NEW c \in Caller, call[c].at \in Fetched,
         NEW s \in {"freeze", "verifyHold"}, NEW d \in BOOLEAN,
         call' = [call EXCEPT ![c].at = s, ![c].drain = d]
  PROVE  CallsOK'
<1> DEFINE k == [call[c] EXCEPT !.at = s, !.drain = d]
<1>1. call[c] \in Call /\ Shape(call[c])
  BY DEF CallsOK
<1>2. k \in Call
  BY <1>1 DEF Call, Steps, InHold
<1>3. Shape(k)
  BY <1>1 DEF Call, Shape, Working, Fetched, InHold
<1>4. call' = [call EXCEPT ![c] = k]
  BY DEF CallsOK
<1>. QED BY <1>2, <1>3, <1>4, CallOK

LEMMA PlanOK ==
  ASSUME CallsOK, NEW c \in Caller, call[c].at \in Fetched \ InHold,
         NEW s \in {"append", "save"}, NEW p, s = "append" => p \in Appending,
         s = "save" => p \in Discard,
         call' = [call EXCEPT ![c].at = s, ![c].plan = p]
  PROVE  CallsOK'
<1> DEFINE k == [call[c] EXCEPT !.at = s, !.plan = p]
<1>1. call[c] \in Call /\ Shape(call[c])
  BY DEF CallsOK
<1>2. k \in Call
  BY <1>1 DEF Call, Steps, InHold
<1>3. Shape(k)
  BY <1>1 DEF Call, Shape, Working, Fetched, InHold
<1>4. call' = [call EXCEPT ![c] = k]
  BY DEF CallsOK
<1>. QED BY <1>2, <1>3, <1>4, CallOK

LEMMA DrainedOK ==
  ASSUME CallsOK, NEW s, Drained(s)
  PROVE  CallsOK'
<1>1. ASSUME NEW c \in Caller PROVE call'[c] \in Call /\ Shape(call'[c])
  <2>1. call[c] \in Call /\ Shape(call[c])
    BY DEF CallsOK
  <2>2. (call[c].drain /\ call[c].at # s) \in BOOLEAN
    OBVIOUS
  <2>3. call'[c] = [call[c] EXCEPT !.drain = call[c].drain /\ call[c].at # s]
    BY DEF Drained
  <2>4. \A d \in BOOLEAN : [call[c] EXCEPT !.drain = d] \in Call
                         /\ Shape([call[c] EXCEPT !.drain = d])
    BY <2>1 DEF Call, Shape
  <2>. QED BY <2>2, <2>3, <2>4
<1>2. call' = [c \in Caller |-> call'[c]]
  BY DEF Drained
<1>. QED BY <1>1, <1>2 DEF CallsOK

LEMMA FetchedRow ==
  ASSUME CallsOK, NEW c \in Caller, call[c].at \in Fetched
  PROVE  call[c].op \in Row
  BY DEF CallsOK, Shape

LEMMA RowUpdate ==
  ASSUME NEW r \in Row
  PROVE  /\ \A p \in Phase : [r EXCEPT !.phase = p] \in Row
         /\ \A d \in Discard : Discarding(r, d) \in Row
         /\ \A n \in 1 .. Ended : [r EXCEPT !.position = n] \in Row
<1>1. ASSUME NEW p \in Phase PROVE [r EXCEPT !.phase = p] \in Row
  BY DEF Row
<1>2. ASSUME NEW d \in Discard PROVE Discarding(r, d) \in Row
  BY DEF Row, Discarding, Phase
<1>3. ASSUME NEW n \in 1 .. Ended PROVE [r EXCEPT !.position = n] \in Row
  BY DEF Row, Ended
<1>. QED BY <1>1, <1>2, <1>3

LEMMA RowFields ==
  ASSUME NEW r \in Row
  PROVE  r.id \in OpId /\ r.phase \in Phase /\ r.position \in 0 .. Ended /\ r.discard \in Discard
  BY DEF Row

LEMMA DiscardUpdate ==
  ASSUME NEW d \in Discard
  PROVE  /\ d.step < 5 => NextStep(d) \in Discard
         /\ RecordTemplates(d) \in Discard
         /\ Restart(d) \in Discard
         /\ Wiped(d) \in Discard
<1>1. ASSUME d.step < 5 PROVE NextStep(d) \in Discard
  <2>1. d.step + 1 \in 0 .. 5
    BY <1>1 DEF Discard
  <2>2. \A n \in 0 .. 5 : [d EXCEPT !.step = n, !.cleaned = FALSE] \in Discard
    BY DEF Discard
  <2>3. NextStep(d) = [d EXCEPT !.step = d.step + 1, !.cleaned = FALSE]
    BY DEF NextStep
  <2>. QED BY <2>1, <2>2, <2>3
<1>2. RecordTemplates(d) \in Discard
  BY DEF Discard, RecordTemplates
<1>3. Restart(d) \in Discard
  <2>1. FirstDiscard \in Discard
    BY DEF Discard, FirstDiscard
  <2>2. d.templates \in {"unset", "none", "some"}
    BY DEF Discard
  <2>. QED BY <2>1, <2>2 DEF Discard, Restart
<1>4. [d EXCEPT !.cleaned = TRUE] \in Discard
  BY DEF Discard
<1>5. d.step = 2 => d.step < 5
  OBVIOUS
<1>6. Wiped(d) \in Discard
  BY <1>1, <1>4, <1>5 DEF Wiped
<1>. QED BY <1>1, <1>2, <1>3, <1>6

\* The entry of a request that does not refuse is a step it may take next, and
\* only starting an operation needs no row.
LEMMA FirstStepOK ==
  ASSUME NEW q, NEW r
  PROVE  LET s == FirstStep(q, r)
         IN q \in RequestKinds =>
              /\ s \in {"close", "readHold", "release", "toReleasing", "choose", "claim", "revoke"}
              /\ s \notin {"release", "readHold"} => r # NoRow
  BY DEF FirstStep, RequestKinds, Importing, Exporting

TypeInv == RowTypeOK /\ HoldTypeOK /\ StoreTypeOK /\ CallsOK

LEMMA InitType == Init => TypeInv
<1> SUFFICES ASSUME Init PROVE TypeInv
  OBVIOUS
<1>1. RowTypeOK
  BY ConstantsAssumption DEF Init, RowTypeOK, NoRow
<1>2. HoldTypeOK
  BY DEF Init, HoldTypeOK
<1>3. StoreTypeOK
  <2>1. counterState \in [OpId -> 0 .. 3]
    BY DEF Init
  <2>2. data \in [Store -> SUBSET (OpId \cup {Live})]
    BY DEF Init
  <2>. QED BY <2>1, <2>2 DEF Init, StoreTypeOK
<1>4. CallsOK
  BY DEF Init, CallsOK, Idle, Call, Shape, Steps, Working, Fetched, InHold
<1>. QED BY <1>1, <1>2, <1>3, <1>4 DEF TypeInv

\* The steps of a request that change no shared state, or only the lease.
LEMMA RequestType ==
  ASSUME TypeInv, NEW c \in Caller
  PROVE  /\ \A r \in Requests : Acquire(c, r) => TypeInv'
         /\ Release(c) \/ Read(c) \/ Reread(c) \/ ReadHold(c) => TypeInv'
<1> USE DEF TypeInv
<1>1. ASSUME NEW r \in Requests, Acquire(c, r) PROVE TypeInv'
  <2>1. RowTypeOK' /\ HoldTypeOK' /\ StoreTypeOK'
    BY <1>1 DEF Acquire, RowTypeOK, HoldTypeOK, StoreTypeOK, stores, holds, writers
  <2>2. CallsOK'
    <3> DEFINE k == [call[c] EXCEPT !.at = "read", !.req = r]
    <3>1. call[c] \in Call /\ r \in RequestKinds /\ call[c].after # "again"
      BY <1>1, ConstantsAssumption DEF Acquire, CallsOK, Shape, InHold
    <3>2. k \in Call /\ k.at = "read" /\ k.req \in RequestKinds /\ k.after # "again"
      BY <3>1 DEF Call, Steps
    <3>3. Shape(k)
      BY <3>2 DEF Shape, Working, Fetched, InHold
    <3>4. call' = [call EXCEPT ![c] = k]
      BY <1>1 DEF Acquire, CallsOK
    <3>. QED BY <3>2, <3>3, <3>4, CallOK
  <2>. QED BY <2>1, <2>2
<1>2. ASSUME Release(c) PROVE TypeInv'
  <2>1. RowTypeOK' /\ HoldTypeOK' /\ StoreTypeOK'
    BY <1>2 DEF Release, RowTypeOK, HoldTypeOK, StoreTypeOK, stores, holds, writers
  <2>2. CallsOK'
    BY <1>2, AnswerOK DEF Release
  <2>. QED BY <2>1, <2>2
<1>3. ASSUME Enter(c), call[c].at \in Working PROVE CallsOK'
  <2> DEFINE s == FirstStep(call[c].req, row)
  <2>0. call[c].req \in RequestKinds
    BY <1>3 DEF CallsOK, Shape
  <2>1. CASE s = "release"
    BY <1>3, <2>1, AnswerOK DEF Enter
  <2>2. CASE s # "release"
    <3>1. /\ s \in Steps /\ s \notin {"append", "write", "commit", "save"}
          /\ s \in Fetched => row # NoRow
      BY <2>2, FirstStepOK, <2>0 DEF Steps, Working, Fetched, InHold
    <3>. QED BY <1>3, <2>2, <3>1, EnterOK DEF Enter, RowTypeOK
  <2>. QED BY <2>1, <2>2
<1>4. ASSUME NEW a \in {"reread", "insert"}, call[c].at \in Working, Pending, FinishPending(c, a) PROVE CallsOK'
  BY <1>4, EnterOK DEF FinishPending, Pending, RowTypeOK, Steps, InHold
<1>5. ASSUME Read(c) \/ Reread(c) \/ ReadHold(c) PROVE TypeInv'
  <2>1. RowTypeOK' /\ HoldTypeOK' /\ StoreTypeOK'
    BY <1>5 DEF Read, Reread, ReadHold, RowTypeOK, HoldTypeOK, StoreTypeOK, stores, holds, writers
  <2>2. call[c].at \in {"read", "reread", "readHold"} /\ call[c].at \in Working
    BY <1>5 DEF Read, Reread, ReadHold, Working, Steps, InHold
  <2>3. CASE Read(c) \/ Reread(c)
    <3>1. Enter(c) \/ (Pending /\ FinishPending(c, "reread"))
      BY <2>3 DEF Read, Reread
    <3>. QED BY <2>1, <2>2, <3>1, <1>3, <1>4
  <2>4. CASE ReadHold(c)
    <3>1. (Pending /\ FinishPending(c, "insert")) \/ Goto(c, "insert")
      BY <2>4 DEF ReadHold
    <3>2. CASE Goto(c, "insert")
      <4>1. Shape([call[c] EXCEPT !.at = "insert"])
        BY <2>2 DEF CallsOK, Call, Shape, Fetched, InHold
      <4>. QED BY <2>1, <3>2, <4>1, GotoOK DEF Steps
    <3>. QED BY <2>1, <2>2, <3>1, <3>2, <1>4
  <2>. QED BY <1>5, <2>3, <2>4
<1>. QED BY <1>1, <1>2, <1>5

\* holdServer's insert and the steps of holdFor.
LEMMA HoldType ==
  ASSUME TypeInv, NEW c \in Caller, Insert(c) \/ HoldFor(c)
  PROVE  TypeInv'
<1> USE DEF TypeInv
<1>1. CASE Insert(c)
  <2>1. HoldTypeOK' /\ StoreTypeOK'
    BY <1>1 DEF Insert, HoldTypeOK, StoreTypeOK, stores, holds, writers
  <2>2. CASE /\ row = NoRow /\ nextId \in OpId /\ row' = NewRow(call[c].req) /\ nextId' = nextId + 1
             /\ call' = [call EXCEPT ![c].at = "close", ![c].op = row', ![c].after = "again"]
    <3>1. NewRow(call[c].req) \in Row
      BY <2>2 DEF NewRow, Row, Phase, Discard, NoDiscard, Ended
    <3>2. nextId + 1 \in 1 .. MaxOps + 1
      BY <2>2, ConstantsAssumption DEF OpId
    <3>3. call[c].at \in Working
      BY <1>1 DEF Insert, Working, Steps, InHold
    <3>4. CallsOK'
      BY <2>2, <3>1, <3>3, EnterOK DEF Steps, InHold
    <3>5. RowTypeOK'
      BY <1>1, <2>2, <3>1, <3>2 DEF Insert, RowTypeOK
    <3>. QED BY <2>1, <3>4, <3>5
  <2>3. CASE Answer(c) /\ UNCHANGED <<row, nextId>>
    <3>1. RowTypeOK'
      BY <1>1, <2>3 DEF Insert, RowTypeOK
    <3>. QED BY <2>1, <2>3, <3>1, AnswerOK
  <2>. QED BY <1>1, <2>2, <2>3 DEF Insert
<1>2. ASSUME HoldFor(c) PROVE call[c].at \in Fetched /\ call[c].op \in Row /\ call[c].op.id \in OpId
  <2>1. call[c].at \in Fetched
    BY <1>2 DEF HoldFor, CloseProcess, FreezeMemory, FreezeDurably, VerifyHold, UndoFreeze,
                UndoHold, Publish, Recheck, Fetched, Working, Steps, InHold
  <2>. QED BY <2>1, FetchedRow, RowFields
<1>3. CASE CloseProcess(c)
  <2>1. (Portable /\ rowWriter = "writing") \in BOOLEAN
    OBVIOUS
  <2>2. CallsOK'
    BY <1>2, <1>3, <2>1, DrainOK DEF HoldFor, CloseProcess
  <2>3. RowTypeOK' /\ StoreTypeOK' /\ HoldTypeOK'
    BY <1>2, <1>3 DEF HoldFor, CloseProcess, RowTypeOK, StoreTypeOK, HoldTypeOK, stores, writers
  <2>. QED BY <2>2, <2>3
<1>4. CASE FreezeMemory(c)
  <2>1. CallsOK'
    BY <1>2, <1>4, StepOK DEF HoldFor, FreezeMemory, Steps, InHold
  <2>2. RowTypeOK' /\ StoreTypeOK' /\ HoldTypeOK'
    BY <1>2, <1>4 DEF HoldFor, FreezeMemory, RowTypeOK, StoreTypeOK, HoldTypeOK, stores, writers
  <2>. QED BY <2>1, <2>2
<1>5. CASE FreezeDurably(c)
  <2>1. (recorder.step = "writing") \in BOOLEAN
    OBVIOUS
  <2>2. CallsOK'
    BY <1>2, <1>5, <2>1, DrainOK DEF HoldFor, FreezeDurably
  <2>3. RowTypeOK' /\ StoreTypeOK' /\ HoldTypeOK'
    BY <1>2, <1>5 DEF HoldFor, FreezeDurably, RowTypeOK, StoreTypeOK, HoldTypeOK, stores, writers
  <2>. QED BY <2>2, <2>3
<1>6. CASE VerifyHold(c)
  <2>1. PICK s \in {"unfreezeOurs", "unfreeze", "close", "toFrozen", "beginImport"} :
            call' = [call EXCEPT ![c].at = s, ![c].after = "release"]
    BY <1>6 DEF VerifyHold
  <2> DEFINE k == [call[c] EXCEPT !.at = s, !.after = "release"]
  <2>2. call[c] \in Call /\ Shape(call[c]) /\ call[c].at \in Fetched
    BY <1>2, <1>6 DEF HoldFor, CallsOK
  <2>3. k \in Call
    BY <2>2 DEF Call, Steps, InHold
  <2>4. Shape(k)
    BY <2>2 DEF Call, Shape, Working, Fetched, InHold
  <2>5. call' = [call EXCEPT ![c] = k]
    BY <2>1 DEF CallsOK
  <2>6. CallsOK'
    BY <2>3, <2>4, <2>5, CallOK
  <2>7. RowTypeOK' /\ StoreTypeOK' /\ HoldTypeOK'
    BY <1>6 DEF VerifyHold, RowTypeOK, StoreTypeOK, HoldTypeOK, stores, holds, writers
  <2>. QED BY <2>6, <2>7
<1>7. CASE UndoFreeze(c)
  <2>1. CallsOK'
    BY <1>2, <1>7, StepOK DEF HoldFor, UndoFreeze, Steps, InHold
  <2>2. RowTypeOK' /\ StoreTypeOK' /\ HoldTypeOK'
    BY <1>7 DEF UndoFreeze, RowTypeOK, StoreTypeOK, HoldTypeOK, stores, writers
  <2>. QED BY <2>1, <2>2
<1>8. CASE UndoHold(c)
  <2>1. CallsOK'
    BY <1>8, AnswerOK DEF UndoHold
  <2>2. RowTypeOK' /\ StoreTypeOK' /\ HoldTypeOK'
    BY <1>8 DEF UndoHold, RowTypeOK, StoreTypeOK, HoldTypeOK, stores, writers
  <2>. QED BY <2>1, <2>2
<1>9. CASE Publish(c)
  <2>1. HoldTypeOK' /\ StoreTypeOK'
    BY <1>9 DEF Publish, HoldTypeOK, StoreTypeOK, stores, holds, writers
  <2>2. PICK p \in {"frozen", "ready"} :
            \/ row' = [call[c].op EXCEPT !.phase = p] /\ Answer(c)
            \/ row' = row /\ Goto(c, "recheck")
    BY <1>9 DEF Publish
  <2>3. row' \in Row \cup {NoRow}
    <3>1. [call[c].op EXCEPT !.phase = p] \in Row
      BY <1>2, <1>9, RowUpdate DEF HoldFor, Phase
    <3>. QED BY <2>2, <3>1 DEF RowTypeOK
  <2>4. RowTypeOK'
    BY <1>9, <2>3 DEF Publish, RowTypeOK
  <2>5. CallsOK'
    <3>1. call[c].at \notin InHold /\ "recheck" \in Steps
      BY <1>9 DEF Publish, InHold, Steps
    <3>. QED BY <1>2, <1>9, <2>2, <3>1, AnswerOK, StepOK DEF HoldFor
  <2>. QED BY <2>1, <2>4, <2>5
<1>10. CASE Recheck(c)
  <2>1. CallsOK'
    BY <1>10, AnswerOK DEF Recheck
  <2>2. RowTypeOK' /\ StoreTypeOK' /\ HoldTypeOK'
    BY <1>10 DEF Recheck, RowTypeOK, StoreTypeOK, HoldTypeOK, stores, holds, writers
  <2>. QED BY <2>1, <2>2
<1>. QED BY <1>1, <1>3, <1>4, <1>5, <1>6, <1>7, <1>8, <1>9, <1>10 DEF HoldFor

LEMMA AdvanceType ==
  ASSUME StoreTypeOK, NEW id, NEW to \in 0 .. 3, Advance(id, to), UNCHANGED <<data, late>>
  PROVE  StoreTypeOK'
  BY DEF StoreTypeOK, Advance

\* toReleasing and completeRelease.
LEMMA ReleaseType ==
  ASSUME TypeInv, NEW c \in Caller, ReleaseServer(c)
  PROVE  TypeInv'
<1> USE DEF TypeInv
<1>1. call[c].at \in Fetched \ InHold /\ call[c].op \in Row /\ call[c].op.id \in OpId
  <2>1. call[c].at \in Fetched \ InHold
    BY DEF ReleaseServer, ToReleasing, CloseCounters, DeleteRow, Thaw, Reopen,
           Fetched, Working, Steps, InHold
  <2>. QED BY <2>1, FetchedRow, RowFields
<1>2. CASE ToReleasing(c)
  <2> DEFINE to == [call[c].op EXCEPT !.phase = "releasing"]
  <2>1. to \in Row
    BY <1>1, RowUpdate DEF Phase
  <2>2. \/ row' = row /\ (Goto(c, "closeCounters") \/ Answer(c) \/ Conflict(c))
        \/ row' = to /\ call' = [call EXCEPT ![c].at = "closeCounters", ![c].op = to]
    BY <1>2 DEF ToReleasing
  <2>3. RowTypeOK'
    BY <1>2, <2>1, <2>2 DEF ToReleasing, RowTypeOK
  <2>4. HoldTypeOK' /\ StoreTypeOK'
    BY <1>2 DEF ToReleasing, HoldTypeOK, StoreTypeOK, stores, holds, writers
  <2>5. CASE call' = [call EXCEPT ![c].at = "closeCounters", ![c].op = to]
    <3> DEFINE k == [call[c] EXCEPT !.at = "closeCounters", !.op = to]
    <3>1. call[c] \in Call /\ Shape(call[c])
      BY DEF CallsOK
    <3>2. k \in Call
      BY <2>1, <3>1 DEF Call, Steps, InHold
    <3>3. Shape(k)
      BY <1>1, <2>1, <3>1 DEF Call, Shape, Fetched, InHold
    <3>4. call' = [call EXCEPT ![c] = k]
      BY <2>5 DEF CallsOK
    <3>. QED BY <2>3, <2>4, <3>2, <3>3, <3>4, CallOK
  <2>6. CASE Goto(c, "closeCounters") \/ Answer(c) \/ Conflict(c)
    BY <1>1, <2>3, <2>4, <2>6, AnswerOK, StepOK DEF Steps, InHold
  <2>. QED BY <2>2, <2>5, <2>6
<1>3. CASE CloseCounters(c)
  <2>1. CallsOK'
    BY <1>1, <1>3, StepOK DEF CloseCounters, Steps, InHold
  <2>2. RowTypeOK' /\ HoldTypeOK'
    BY <1>3 DEF CloseCounters, RowTypeOK, HoldTypeOK, holds, writers
  <2>3. StoreTypeOK'
    BY <1>3, AdvanceType DEF CloseCounters
  <2>. QED BY <2>1, <2>2, <2>3
<1>4. CASE DeleteRow(c)
  <2>1. CallsOK'
    BY <1>1, <1>4, StepOK DEF DeleteRow, Steps, InHold
  <2>2. HoldTypeOK' /\ StoreTypeOK'
    BY <1>4 DEF DeleteRow, HoldTypeOK, StoreTypeOK, stores, holds, writers
  <2>3. OutcomeOf(row) \in {"exported", "activated", "discarded", "cancelled"}
    BY DEF OutcomeOf
  <2>4. RowTypeOK'
    BY <1>4, <2>3 DEF DeleteRow, RowTypeOK
  <2>. QED BY <2>1, <2>2, <2>4
<1>5. CASE Thaw(c)
  <2>1. CallsOK'
    BY <1>1, <1>5, StepOK DEF Thaw, Steps, InHold
  <2>2. RowTypeOK' /\ StoreTypeOK' /\ HoldTypeOK'
    BY <1>5 DEF Thaw, RowTypeOK, StoreTypeOK, HoldTypeOK, stores, writers
  <2>. QED BY <2>1, <2>2
<1>6. CASE Reopen(c)
  <2>1. RowTypeOK' /\ StoreTypeOK' /\ HoldTypeOK'
    BY <1>6 DEF Reopen, RowTypeOK, StoreTypeOK, HoldTypeOK, stores, writers
  <2>2. CASE Answer(c)
    BY <2>1, <2>2, AnswerOK
  <2>3. CASE /\ call[c].after # "release"
             /\ call' = [call EXCEPT ![c].at = call[c].after, ![c].op = NoRow]
    <3> DEFINE k == [call[c] EXCEPT !.at = call[c].after, !.op = NoRow]
    <3>1. call[c] \in Call /\ Shape(call[c])
      BY DEF CallsOK
    <3>2. call[c].after \in {"reread", "insert"}
      BY <1>6, <2>3, <3>1 DEF Reopen, Call, Shape, InHold
    <3>3. k \in Call
      BY <3>1, <3>2 DEF Call, Steps, InHold
    <3>4. Shape(k)
      BY <1>1, <3>1, <3>2 DEF Call, Shape, Working, Fetched, InHold
    <3>5. call' = [call EXCEPT ![c] = k]
      BY <2>3 DEF CallsOK
    <3>. QED BY <2>1, <3>3, <3>4, <3>5, CallOK
  <2>. QED BY <1>6, <2>2, <2>3 DEF Reopen
<1>. QED BY <1>2, <1>3, <1>4, <1>5, <1>6 DEF ReleaseServer

LEMMA NoteLateType ==
  ASSUME late \in BOOLEAN, NEW c, NEW s, NoteLate(c, s)
  PROVE  late' \in BOOLEAN
<1>1. (late \/ (s \in Unfenced /\ row # call[c].op)) \in BOOLEAN
  OBVIOUS
<1>. QED BY <1>1 DEF NoteLate

\* prepare after its holds, and appendRestore.
LEMMA RestoreType ==
  ASSUME TypeInv, NEW c \in Caller, Restore(c)
  PROVE  TypeInv'
<1> USE DEF TypeInv
<1>1. call[c].at \in Fetched \ InHold /\ call[c].op \in Row /\ call[c].op.id \in OpId
  <2>1. call[c].at \in Fetched \ InHold
    BY DEF Restore, BeginImport, CheckEmpty, ChooseChunk, CheckAppend, WriteOutside,
           CommitAppend, Fetched, Working, Steps, InHold
  <2>. QED BY <2>1, FetchedRow, RowFields
<1>2. CASE BeginImport(c)
  <2>1. CallsOK'
    BY <1>1, <1>2, StepOK DEF BeginImport, Steps, InHold
  <2>2. RowTypeOK' /\ HoldTypeOK'
    BY <1>2 DEF BeginImport, RowTypeOK, HoldTypeOK, holds, writers
  <2>3. StoreTypeOK'
    BY <1>2, AdvanceType DEF BeginImport
  <2>. QED BY <2>1, <2>2, <2>3
<1>3. CASE CheckEmpty(c)
  <2>1. CallsOK'
    BY <1>1, <1>3, StepOK DEF CheckEmpty, Steps, InHold
  <2>2. RowTypeOK' /\ StoreTypeOK' /\ HoldTypeOK'
    BY <1>3 DEF CheckEmpty, RowTypeOK, StoreTypeOK, HoldTypeOK, stores, holds, writers
  <2>. QED BY <2>1, <2>2
<1>4. CASE ChooseChunk(c)
  <2>1. PICK n \in ChunkSizes :
          LET to == Least(call[c].op.position + n, Ended)
          IN call' = [call EXCEPT ![c].at = "append",
               ![c].plan = [to |-> to, left |-> Chunk(call[c].op.position, to) \cap Outside]]
    BY <1>4 DEF ChooseChunk
  <2> DEFINE to == Least(call[c].op.position + n, Ended)
             p == [to |-> to, left |-> Chunk(call[c].op.position, to) \cap Outside]
  <2>2. n \in Nat \ {0} /\ call[c].op.position \in 0 .. Ended
    BY <1>1, ConstantsAssumption, RowFields
  <2>3. to \in 1 .. Ended
    BY <2>2 DEF Least, Ended
  <2>4. p \in Appending
    BY <2>3 DEF Appending
  <2>5. call' = [call EXCEPT ![c].at = "append", ![c].plan = p]
    BY <2>1
  <2>6. CallsOK'
    BY <1>1, <2>4, <2>5, PlanOK
  <2>7. RowTypeOK' /\ StoreTypeOK' /\ HoldTypeOK'
    BY <1>4 DEF ChooseChunk, RowTypeOK, StoreTypeOK, HoldTypeOK, stores, holds, writers
  <2>. QED BY <2>6, <2>7
<1>5. CASE CheckAppend(c)
  <2>1. Answer(c) \/ Goto(c, "commit") \/ Goto(c, "write")
    BY <1>5 DEF CheckAppend
  <2>2. \A s \in {"commit", "write"} : Shape([call[c] EXCEPT !.at = s])
    BY <1>1, <1>5 DEF CheckAppend, CallsOK, Call, Shape, Working, Fetched, InHold
  <2>3. CallsOK'
    BY <2>1, <2>2, AnswerOK, GotoOK DEF Steps
  <2>4. RowTypeOK' /\ StoreTypeOK' /\ HoldTypeOK'
    BY <1>5 DEF CheckAppend, RowTypeOK, StoreTypeOK, HoldTypeOK, stores, holds, writers
  <2>. QED BY <2>3, <2>4
<1>6. CASE WriteOutside(c)
  <2> DEFINE store == NextOutside(call[c].plan.left)
  <2>1. store \in Store
    BY DEF NextOutside, Store
  <2>2. RowTypeOK' /\ HoldTypeOK'
    BY <1>6 DEF WriteOutside, RowTypeOK, HoldTypeOK, holds, writers
  <2>3. StoreTypeOK'
    <3>0. \/ UNCHANGED <<data, late>>
          \/ data' = [data EXCEPT ![store] = @ \cup {call[c].op.id}] /\ NoteLate(c, store)
      BY <1>6 DEF WriteOutside
    <3>1. late' \in BOOLEAN
      BY <3>0, NoteLateType DEF StoreTypeOK
    <3>2. data' = data \/ data' = [data EXCEPT ![store] = @ \cup {call[c].op.id}]
      BY <3>0
    <3>3. data' \in [Store -> SUBSET (OpId \cup {Live})]
      BY <1>1, <2>1, <3>2 DEF StoreTypeOK
    <3>4. counterState' \in [OpId -> 0 .. 3]
      BY <1>6 DEF WriteOutside, StoreTypeOK
    <3>. QED BY <3>1, <3>3, <3>4 DEF StoreTypeOK
  <2>4. CASE Conflict(c)
    BY <2>2, <2>3, <2>4, AnswerOK
  <2>5. CASE call' = [call EXCEPT ![c].at = "append", ![c].plan.left = @ \ {store}]
    <3> DEFINE p == [call[c].plan EXCEPT !.left = @ \ {store}]
               k == [call[c] EXCEPT !.at = "append", !.plan = p]
    <3>1. call[c] \in Call /\ call[c].plan \in Appending
      BY <1>6 DEF WriteOutside, CallsOK, Shape
    <3>2. p \in Appending
      BY <3>1 DEF Appending
    <3>3. call' = [call EXCEPT ![c].at = "append", ![c].plan = p]
      BY <2>5
    <3>4. CallsOK'
      BY <1>1, <3>2, <3>3, PlanOK
    <3>. QED BY <2>2, <2>3, <3>4
  <2>. QED BY <1>6, <2>4, <2>5 DEF WriteOutside
<1>7. CASE CommitAppend(c)
  <2> DEFINE to == call[c].plan.to
  <2>1. CallsOK'
    BY <1>7, AnswerOK DEF CommitAppend
  <2>2. HoldTypeOK'
    BY <1>7 DEF CommitAppend, HoldTypeOK, holds, writers
  <2>3. to \in 1 .. Ended
    BY <1>7 DEF CommitAppend, CallsOK, Shape, Appending
  <2>4. row' \in Row \cup {NoRow}
    <3>1. row' = row \/ (row = call[c].op /\ row' = [row EXCEPT !.position = to])
      BY <1>7 DEF CommitAppend, Fenced
    <3>. QED BY <1>1, <2>3, <3>1, RowUpdate DEF RowTypeOK
  <2>5. data' \in [Store -> SUBSET (OpId \cup {Live})]
    <3>1. data' = data \/ (row = call[c].op /\ data' = [data EXCEPT !["rows"] = @ \cup {row.id}])
      BY <1>7 DEF CommitAppend, Fenced
    <3>. QED BY <1>1, <3>1 DEF StoreTypeOK, Store
  <2>6. RowTypeOK'
    BY <1>7, <2>4 DEF CommitAppend, RowTypeOK
  <2>7. StoreTypeOK'
    BY <1>7, <2>5 DEF CommitAppend, StoreTypeOK
  <2>. QED BY <2>1, <2>2, <2>6, <2>7
<1>. QED BY <1>2, <1>3, <1>4, <1>5, <1>6, <1>7 DEF Restore

LEMMA SaveOK ==
  ASSUME CallsOK, NEW c \in Caller, call[c].at \in Fetched \ InHold, NEW d \in Discard, Save(c, d)
  PROVE  CallsOK'
<1>1. call' = [call EXCEPT ![c].at = "save", ![c].plan = d]
  BY DEF Save
<1>. QED BY <1>1, PlanOK

LEMMA UnlessLateOK ==
  ASSUME CallsOK, NEW c \in Caller, call[c].at \in Fetched \ InHold,
         NEW s \in {"wipe", "verifyBackfill"}, UnlessLate(c, s)
  PROVE  CallsOK'
<1>1. call[c].op.discard \in Discard
  BY FetchedRow, RowFields
<1>2. CASE Save(c, call[c].op.discard)
  BY <1>1, <1>2, SaveOK
<1>3. CASE Goto(c, s)
  BY <1>3, StepOK DEF Steps
<1>. QED BY <1>2, <1>3 DEF UnlessLate

\* discardRestore.
LEMMA DiscardType ==
  ASSUME TypeInv, NEW c \in Caller, DiscardRestore(c)
  PROVE  TypeInv'
<1> USE DEF TypeInv
<1>1. /\ call[c].at \in Fetched \ InHold /\ call[c].op \in Row /\ call[c].op.id \in OpId
      /\ call[c].op.discard \in Discard
  <2>1. call[c].at \in Fetched \ InHold
    BY DEF DiscardRestore, Claim, Revoke, DiscardOne, Wipe, VerifyBackfill, SaveProgress,
           Fetched, Working, Steps, InHold
  <2>. QED BY <2>1, FetchedRow, RowFields
<1>2. CASE Claim(c)
  <2> DEFINE to == Discarding(call[c].op, FirstDiscard)
  <2>0. FirstDiscard \in Discard
    BY DEF Discard, FirstDiscard
  <2>1. to \in Row
    BY <1>1, <2>0, RowUpdate
  <2>2. (row' = to /\ Goto(c, "revokeClaimed")) \/ (row' = row /\ Conflict(c))
    BY <1>2 DEF Claim
  <2>3. RowTypeOK'
    BY <1>2, <2>1, <2>2 DEF Claim, RowTypeOK
  <2>4. HoldTypeOK' /\ StoreTypeOK'
    BY <1>2 DEF Claim, HoldTypeOK, StoreTypeOK, stores, holds, writers
  <2>5. CallsOK'
    BY <1>1, <2>2, AnswerOK, StepOK DEF Steps
  <2>. QED BY <2>3, <2>4, <2>5
<1>3. CASE Revoke(c)
  <2>1. Goto(c, "discard") \/ Answer(c)
    BY <1>3 DEF Revoke
  <2>2. CallsOK'
    BY <1>1, <2>1, AnswerOK, StepOK DEF Steps
  <2>3. RowTypeOK' /\ HoldTypeOK'
    BY <1>3 DEF Revoke, RowTypeOK, HoldTypeOK, holds, writers
  <2>4. StoreTypeOK'
    BY <1>3, AdvanceType DEF Revoke
  <2>. QED BY <2>2, <2>3, <2>4
<1>4. CASE DiscardOne(c)
  <2> DEFINE d == call[c].op.discard
  <2>1. RowTypeOK' /\ StoreTypeOK' /\ HoldTypeOK'
    BY <1>4 DEF DiscardOne, RowTypeOK, StoreTypeOK, HoldTypeOK, stores, holds, writers
  <2>2. \/ \E e \in {RecordTemplates(d), Restart(d)} : Save(c, e)
        \/ d.step < 5 /\ Save(c, NextStep(d))
        \/ \E s \in {"wipe", "verifyBackfill"} : UnlessLate(c, s)
        \/ Goto(c, "toReleasing")
    BY <1>4 DEF DiscardOne
  <2>3. CallsOK'
    <3>1. RecordTemplates(d) \in Discard /\ Restart(d) \in Discard
      BY <1>1, DiscardUpdate
    <3>2. d.step < 5 => NextStep(d) \in Discard
      BY <1>1, DiscardUpdate
    <3>3. CASE \E e \in {RecordTemplates(d), Restart(d)} : Save(c, e)
      BY <1>1, <3>1, <3>3, SaveOK
    <3>4. CASE d.step < 5 /\ Save(c, NextStep(d))
      BY <1>1, <3>2, <3>4, SaveOK
    <3>5. CASE \E s \in {"wipe", "verifyBackfill"} : UnlessLate(c, s)
      BY <1>1, <3>5, UnlessLateOK
    <3>6. CASE Goto(c, "toReleasing")
      BY <1>1, <3>6, StepOK DEF Steps
    <3>. QED BY <2>2, <3>3, <3>4, <3>5, <3>6
  <2>. QED BY <2>1, <2>3
<1>5. CASE Wipe(c)
  <2> DEFINE d == call[c].op.discard
             store == StepStore[d.step]
  <2>1. \/ Conflict(c) /\ UNCHANGED <<data, late>>
        \/ Answer(c) /\ UNCHANGED <<data, late>>
        \/ data' = [data EXCEPT ![store] = {}] /\ NoteLate(c, store) /\ Save(c, Wiped(d))
    BY <1>5 DEF Wipe
  <2>2. CallsOK'
    <3>1. Wiped(d) \in Discard
      BY <1>1, DiscardUpdate
    <3>. QED BY <1>1, <2>1, <3>1, AnswerOK, SaveOK
  <2>3. RowTypeOK' /\ HoldTypeOK'
    BY <1>5 DEF Wipe, RowTypeOK, HoldTypeOK, holds, writers
  <2>4. StoreTypeOK'
    <3>1. data' \in [Store -> SUBSET (OpId \cup {Live})]
      BY <2>1 DEF StoreTypeOK
    <3>2. late' \in BOOLEAN
      BY <2>1, NoteLateType DEF StoreTypeOK
    <3>. QED BY <1>5, <3>1, <3>2 DEF Wipe, StoreTypeOK
  <2>. QED BY <2>2, <2>3, <2>4
<1>6. CASE VerifyBackfill(c)
  <2>1. RowTypeOK' /\ StoreTypeOK' /\ HoldTypeOK'
    BY <1>6 DEF VerifyBackfill, RowTypeOK, StoreTypeOK, HoldTypeOK, stores, holds, writers
  <2>2. Restart(call[c].op.discard) \in Discard
    BY <1>1, DiscardUpdate
  <2>3. Save(c, Restart(call[c].op.discard)) \/ Goto(c, "toReleasing")
    BY <1>6 DEF VerifyBackfill
  <2>4. CallsOK'
    BY <1>1, <2>2, <2>3, SaveOK, StepOK DEF Steps
  <2>. QED BY <2>1, <2>4
<1>7. CASE SaveProgress(c)
  <2> DEFINE to == Discarding(call[c].op, call[c].plan)
  <2>1. call[c].plan \in Discard
    BY <1>7 DEF SaveProgress, CallsOK, Shape
  <2>2. to \in Row
    BY <1>1, <2>1, RowUpdate
  <2>3. (row' = to /\ Answer(c)) \/ (row' = row /\ Conflict(c))
    BY <1>7 DEF SaveProgress
  <2>4. RowTypeOK'
    BY <1>7, <2>2, <2>3 DEF SaveProgress, RowTypeOK
  <2>5. HoldTypeOK' /\ StoreTypeOK'
    BY <1>7 DEF SaveProgress, HoldTypeOK, StoreTypeOK, stores, holds, writers
  <2>6. CallsOK'
    BY <2>3, AnswerOK
  <2>. QED BY <2>4, <2>5, <2>6
<1>. QED BY <1>2, <1>3, <1>4, <1>5, <1>6, <1>7 DEF DiscardRestore

\* Ordinary writes, counter records, and the passing of a lease's time.
LEMMA WriterType ==
  ASSUME TypeInv, Age \/ Write \/ RecordOrFlush
  PROVE  TypeInv'
<1> USE DEF TypeInv
<1>1. CASE Age
  <2>1. lease' \in [holder : Caller \cup {NoCaller}, age : {"fresh", "margin", "expired"}]
    BY <1>1 DEF Age, RowTypeOK
  <2>2. RowTypeOK' /\ HoldTypeOK' /\ StoreTypeOK'
    BY <1>1, <2>1 DEF Age, RowTypeOK, HoldTypeOK, StoreTypeOK, stores, holds, writers
  <2>. QED BY <1>1, <2>2 DEF Age, CallsOK
<1>2. CASE AdmitRow
  <2>1. RowTypeOK' /\ HoldTypeOK' /\ StoreTypeOK'
    BY <1>2 DEF AdmitRow, RowTypeOK, HoldTypeOK, StoreTypeOK, stores, holds
  <2>. QED BY <1>2, <2>1 DEF AdmitRow, CallsOK
<1>3. CASE CommitRow
  <2>1. data' \in [Store -> SUBSET (OpId \cup {Live})]
    BY <1>3 DEF CommitRow, StoreTypeOK, Store
  <2>2. RowTypeOK' /\ HoldTypeOK' /\ StoreTypeOK'
    BY <1>3, <2>1 DEF CommitRow, RowTypeOK, HoldTypeOK, StoreTypeOK, holds
  <2>. QED BY <1>3, <2>2, DrainedOK DEF CommitRow
<1>4. CASE StartRecord \/ ObserveFreezes \/ CheckGate
  <2>1. recorder' \in [step : {"idle", "observe", "gate", "thaw", "recheck", "writing"},
                       seen : SUBSET OpId]
    BY <1>4 DEF StartRecord, ObserveFreezes, CheckGate, Recorder, HoldTypeOK
  <2>2. RowTypeOK' /\ HoldTypeOK' /\ StoreTypeOK'
    BY <1>4, <2>1 DEF StartRecord, ObserveFreezes, CheckGate, RowTypeOK, HoldTypeOK, StoreTypeOK,
                      stores, holds
  <2>. QED BY <1>4, <2>2 DEF StartRecord, ObserveFreezes, CheckGate, CallsOK
<1>5. CASE ThawStale
  <2>1. recorder' \in [step : {"idle", "observe", "gate", "thaw", "recheck", "writing"},
                       seen : SUBSET OpId]
    BY <1>5 DEF ThawStale, Recorder, HoldTypeOK
  <2>2. RowTypeOK' /\ HoldTypeOK' /\ StoreTypeOK'
    BY <1>5, <2>1 DEF ThawStale, RowTypeOK, HoldTypeOK, StoreTypeOK, stores
  <2>. QED BY <1>5, <2>2 DEF ThawStale, CallsOK
<1>6. CASE CommitRecord
  <2>1. data' \in [Store -> SUBSET (OpId \cup {Live})]
    BY <1>6 DEF CommitRecord, StoreTypeOK, Store
  <2>2. recorder' \in [step : {"idle", "observe", "gate", "thaw", "recheck", "writing"},
                       seen : SUBSET OpId]
    BY <1>6 DEF CommitRecord, Recorder
  <2>3. RowTypeOK' /\ HoldTypeOK' /\ StoreTypeOK'
    BY <1>6, <2>1, <2>2 DEF CommitRecord, RowTypeOK, HoldTypeOK, StoreTypeOK, holds
  <2>. QED BY <1>6, <2>3, DrainedOK DEF CommitRecord
<1>. QED BY <1>1, <1>2, <1>3, <1>4, <1>5, <1>6 DEF Write, RecordOrFlush

\* Calls that throw, and restarts.
LEMMA FaultType ==
  ASSUME TypeInv, Faulty
  PROVE  TypeInv'
<1> USE DEF TypeInv
<1>1. ASSUME NEW c \in Caller, CallFails(c) PROVE TypeInv'
  <2>1. RowTypeOK' /\ HoldTypeOK' /\ StoreTypeOK'
    BY <1>1 DEF CallFails, RowTypeOK, HoldTypeOK, StoreTypeOK, stores, writers
  <2>. QED BY <1>1, <2>1, AnswerOK DEF CallFails
<1>2. ASSUME NEW c \in Caller, IsolateCrash(c) PROVE TypeInv'
  <2>1. RowTypeOK' /\ HoldTypeOK' /\ StoreTypeOK'
    BY <1>2 DEF IsolateCrash, RowTypeOK, HoldTypeOK, StoreTypeOK, stores, holds, writers
  <2>. QED BY <1>2, <2>1, AnswerOK DEF IsolateCrash
<1>3. CASE CountersRestart
  <2>1. RowTypeOK' /\ HoldTypeOK' /\ StoreTypeOK'
    BY <1>3 DEF CountersRestart, RowTypeOK, HoldTypeOK, StoreTypeOK, stores
  <2> DEFINE answered == [Idle EXCEPT !.at = "release"]
  <2>2. answered \in Call /\ Shape(answered)
    BY IdleOK
  <2>3. call' = [c \in Caller |-> IF call[c].at \in InCounters THEN answered ELSE call[c]]
    BY <1>3 DEF CountersRestart
  <2> HIDE DEF answered
  <2>4. CallsOK'
    BY <2>2, <2>3 DEF CallsOK
  <2>. QED BY <2>1, <2>4
<1>4. CASE ProcessRestart
  <2>1. row = NoRow \/ row.id \in OpId
    BY RowFields DEF RowTypeOK
  <2>2. RowTypeOK' /\ HoldTypeOK' /\ StoreTypeOK'
    BY <1>4, <2>1 DEF ProcessRestart, RowTypeOK, HoldTypeOK, StoreTypeOK, stores
  <2>3. Idle \in Call /\ Shape(Idle)
    BY DEF Idle, Call, Shape, Steps, Working, Fetched, InHold
  <2>4. CallsOK'
    BY <1>4, <2>3 DEF ProcessRestart, CallsOK
  <2>. QED BY <2>2, <2>4
<1>. QED BY <1>1, <1>2, <1>3, <1>4 DEF Faulty

LEMMA NextType == TypeInv /\ [Next]_vars => TypeInv'
<1> SUFFICES ASSUME TypeInv, [Next]_vars PROVE TypeInv'
  OBVIOUS
<1>1. ASSUME NEW c \in Caller, NEW r \in Requests, Acquire(c, r) PROVE TypeInv'
  BY <1>1, RequestType
<1>2. ASSUME NEW c \in Caller, Proceed(c) PROVE TypeInv'
  BY <1>2, RequestType, HoldType, ReleaseType, RestoreType, DiscardType DEF Proceed
<1>3. CASE UNCHANGED vars
  <2>1. RowTypeOK' /\ HoldTypeOK' /\ StoreTypeOK'
    BY <1>3 DEF TypeInv, vars, stores, holds, writers, RowTypeOK, HoldTypeOK, StoreTypeOK
  <2>2. CallsOK'
    BY <1>3 DEF TypeInv, vars, CallsOK
  <2>. QED BY <2>1, <2>2 DEF TypeInv
<1>. QED BY <1>1, <1>2, <1>3, WriterType, FaultType DEF Next

LEMMA TypeInvariant == Spec => []TypeInv
BY InitType, NextType, PTL DEF Spec

\* The lifecycle keeps its shape for any number of requests and operations:
\* in particular a request past its read always works on a row it read, and the
\* plan it writes is one its kind of step makes.
THEOREM TypeCorrect == Spec => []TypeOK
<1>1. TypeInv => TypeOK
  BY DEF TypeInv, TypeOK, CallsOK
<1>. QED BY <1>1, TypeInvariant, PTL

-----------------------------------------------------------------------------
(* Safety.                                                                 *)

(***************************************************************************)
(* EndedForGood.  An operation has ended only after its counter state was  *)
(* closed, ids are handed out in order, and the compare-and-set never      *)
(* changes the row's id.                                                   *)
(***************************************************************************)
EndInv ==
    /\ \A i \in OpId : outcome[i] # "none" => i < nextId /\ counterState[i] = 3
    /\ row # NoRow => row.id < nextId /\ outcome[row.id] = "none"
    /\ \A c \in Caller : call[c].at = "delete" => counterState[call[c].op.id] = 3

\* What every step but Insert, CloseCounters and DeleteRow does to it.
KeepsEnd ==
    /\ UNCHANGED <<nextId, outcome>>
    /\ row' = row \/ (row # NoRow /\ row' \in Row /\ row'.id = row.id)
    /\ \A i \in OpId : counterState[i] = 3 => counterState'[i] = 3
    /\ \A c \in Caller : call'[c].at = "delete" =>
                            call[c].at = "delete" /\ call'[c].op = call[c].op

LEMMA NoRowNotRow == NoRow \notin Row
  BY DEF NoRow, Row, OpId

LEMMA KeepsEndInv ==
  ASSUME TypeInv, EndInv, KeepsEnd
  PROVE  EndInv'
<1>1. \A i \in OpId : outcome'[i] # "none" => i < nextId' /\ counterState'[i] = 3
  BY DEF EndInv, KeepsEnd
<1>2. row' # NoRow => row'.id < nextId' /\ outcome'[row'.id] = "none"
  BY DEF EndInv, KeepsEnd
<1>3. ASSUME NEW c \in Caller, call'[c].at = "delete" PROVE counterState'[call'[c].op.id] = 3
  <2>1. call[c].at = "delete" /\ call'[c].op = call[c].op
    BY <1>3 DEF KeepsEnd
  <2>2. call[c].op.id \in OpId
    BY <2>1, FetchedRow, RowFields DEF TypeInv, Fetched, Working, Steps
  <2>. QED BY <2>1, <2>2 DEF EndInv, KeepsEnd
<1>. QED BY <1>1, <1>2, <1>3 DEF EndInv

\* The counter state only moves forward.
LEMMA AdvanceKeeps ==
  ASSUME TypeInv, NEW j \in OpId, NEW to \in 0 .. 3, Advance(j, to)
  PROVE  /\ \A i \in OpId : counterState[i] = 3 => counterState'[i] = 3
         /\ to = 3 => counterState'[j] = 3
  BY DEF TypeInv, StoreTypeOK, Advance

\* A step that answers or goes on, but not to the delete of a row.
LEMMA CallKeeps ==
  ASSUME TypeInv, NEW c \in Caller, NEW k, k.at # "delete", call' = [call EXCEPT ![c] = k]
  PROVE  \A d \in Caller : call'[d].at = "delete" =>
                              call[d].at = "delete" /\ call'[d].op = call[d].op
  BY DEF TypeInv, CallsOK

LEMMA RowKeeps ==
  ASSUME NEW r \in Row
  PROVE  /\ \A p \in Phase : [r EXCEPT !.phase = p].id = r.id
         /\ \A d \in Discard : Discarding(r, d).id = r.id
         /\ \A n \in 1 .. Ended : [r EXCEPT !.position = n].id = r.id
  BY DEF Row, Discarding

\* A compare-and-set writes another state of the same operation.
LEMMA SwapKeeps ==
  ASSUME NEW r \in Row, row = r,
         \/ \E p \in Phase : row' = [r EXCEPT !.phase = p]
         \/ \E n \in 1 .. Ended : row' = [r EXCEPT !.position = n]
  PROVE  row # NoRow /\ row' \in Row /\ row'.id = row.id
<1>1. row # NoRow
  BY NoRowNotRow
<1>2. ASSUME NEW p \in Phase, row' = [r EXCEPT !.phase = p] PROVE row' \in Row /\ row'.id = row.id
  <2>1. [r EXCEPT !.phase = p].id = r.id
    BY RowKeeps
  <2>. QED BY <1>2, <2>1, RowUpdate
<1>3. ASSUME NEW n \in 1 .. Ended, row' = [r EXCEPT !.position = n]
      PROVE  row' \in Row /\ row'.id = row.id
  <2>1. [r EXCEPT !.position = n].id = r.id
    BY RowKeeps
  <2>. QED BY <1>3, <2>1, RowUpdate
<1>. QED BY <1>1, <1>2, <1>3

LEMMA AnswerKeeps ==
  ASSUME TypeInv, NEW c \in Caller, Answer(c) \/ Conflict(c) \/ call' = [call EXCEPT ![c] = Idle]
  PROVE  \A d \in Caller : call'[d].at = "delete" =>
                              call[d].at = "delete" /\ call'[d].op = call[d].op
<1>1. \A s \in {"release", "conflict"} : [Idle EXCEPT !.at = s].at = s
  BY DEF Idle
<1>2. Idle.at = "idle"
  BY DEF Idle
<1>. QED BY <1>1, <1>2, CallKeeps DEF Answer, Conflict

LEMMA GotoKeeps ==
  ASSUME TypeInv, NEW c \in Caller, NEW s, s # "delete", Goto(c, s)
  PROVE  \A d \in Caller : call'[d].at = "delete" =>
                              call[d].at = "delete" /\ call'[d].op = call[d].op
<1>1. call' = [call EXCEPT ![c] = [call[c] EXCEPT !.at = s]]
  BY DEF Goto, TypeInv, CallsOK
<1>2. [call[c] EXCEPT !.at = s].at = s
  BY DEF TypeInv, CallsOK, Call
<1>. QED BY <1>1, <1>2, CallKeeps

LEMMA EnterKeeps ==
  ASSUME TypeInv, NEW c \in Caller, call[c].at \in Working, Enter(c)
  PROVE  \A d \in Caller : call'[d].at = "delete" =>
                              call[d].at = "delete" /\ call'[d].op = call[d].op
<1> DEFINE s == FirstStep(call[c].req, row)
           k == [call[c] EXCEPT !.at = s, !.op = row, !.after = "release"]
<1>1. call[c].req \in RequestKinds /\ call[c] \in Call
  BY DEF TypeInv, CallsOK, Shape
<1>2. s # "delete"
  BY <1>1, FirstStepOK
<1>3. CASE Answer(c)
  BY <1>3, AnswerKeeps
<1>4. CASE call' = [call EXCEPT ![c].at = s, ![c].op = row, ![c].after = "release"]
  <2>1. call' = [call EXCEPT ![c] = k]
    BY <1>4 DEF TypeInv, CallsOK
  <2>2. k.at = s
    BY <1>1 DEF Call
  <2>. QED BY <1>2, <2>1, <2>2, CallKeeps
<1>. QED BY <1>3, <1>4 DEF Enter

LEMMA FinishKeeps ==
  ASSUME TypeInv, NEW c \in Caller, NEW a, FinishPending(c, a)
  PROVE  \A d \in Caller : call'[d].at = "delete" =>
                              call[d].at = "delete" /\ call'[d].op = call[d].op
  BY DEF TypeInv, CallsOK, Call, FinishPending

\* Requests that begin or end change neither the row nor the counter state.
LEMMA RequestKeeps ==
  ASSUME TypeInv, NEW c \in Caller,
         \/ \E r \in Requests : Acquire(c, r)
         \/ Release(c) \/ Read(c) \/ Reread(c) \/ ReadHold(c)
  PROVE  KeepsEnd
<1>1. UNCHANGED <<row, nextId, outcome, counterState>>
  BY DEF Acquire, Release, Read, Reread, ReadHold, stores
<1>2. \A d \in Caller : call'[d].at = "delete" =>
                           call[d].at = "delete" /\ call'[d].op = call[d].op
  <2>1. CASE \E r \in Requests : Acquire(c, r)
    BY <2>1 DEF Acquire, TypeInv, CallsOK, Call
  <2>2. CASE Release(c)
    BY <2>2, AnswerKeeps DEF Release
  <2>3. CASE Read(c) \/ Reread(c)
    <3>1. call[c].at \in Working
      BY <2>3 DEF Read, Reread, Working, Steps
    <3>. QED BY <2>3, <3>1, EnterKeeps, FinishKeeps DEF Read, Reread
  <2>4. CASE ReadHold(c)
    BY <2>4, GotoKeeps, FinishKeeps DEF ReadHold
  <2>. QED BY <2>1, <2>2, <2>3, <2>4
<1>. QED BY <1>1, <1>2 DEF KeepsEnd

LEMMA HoldKeeps ==
  ASSUME TypeInv, NEW c \in Caller, HoldFor(c)
  PROVE  KeepsEnd
<1>1. UNCHANGED <<nextId, outcome, counterState>>
  BY DEF HoldFor, CloseProcess, FreezeMemory, FreezeDurably, VerifyHold, UndoFreeze, UndoHold,
         Publish, Recheck, stores
<1>2. row' = row \/ (row # NoRow /\ row' \in Row /\ row'.id = row.id)
  <2>1. CASE Publish(c)
    <3>1. row' = row \/ (row = call[c].op /\ \E p \in Phase : row' = [call[c].op EXCEPT !.phase = p])
      BY <2>1 DEF Publish, Swaps, Phase
    <3>2. call[c].op \in Row
      BY <2>1, FetchedRow DEF Publish, TypeInv, Fetched, Working, Steps
    <3>. QED BY <3>1, <3>2, SwapKeeps
  <2>2. CASE ~Publish(c)
    BY <2>2 DEF HoldFor, CloseProcess, FreezeMemory, FreezeDurably, VerifyHold, UndoFreeze,
                UndoHold, Recheck
  <2>. QED BY <2>1, <2>2
<1>3. \A d \in Caller : call'[d].at = "delete" =>
                           call[d].at = "delete" /\ call'[d].op = call[d].op
  <2>1. CASE CloseProcess(c) \/ FreezeDurably(c) \/ VerifyHold(c)
    BY <2>1 DEF CloseProcess, FreezeDurably, VerifyHold, TypeInv, CallsOK, Call
  <2>2. CASE FreezeMemory(c) \/ UndoFreeze(c) \/ UndoHold(c) \/ Publish(c) \/ Recheck(c)
    BY <2>2, GotoKeeps, AnswerKeeps DEF FreezeMemory, UndoFreeze, UndoHold, Publish, Recheck
  <2>. QED BY <2>1, <2>2 DEF HoldFor
<1>. QED BY <1>1, <1>2, <1>3 DEF KeepsEnd

LEMMA RestoreKeeps ==
  ASSUME TypeInv, NEW c \in Caller, Restore(c)
  PROVE  KeepsEnd
<1>0. call[c].op \in Row
  <2>1. call[c].at \in Fetched
    BY DEF Restore, BeginImport, CheckEmpty, ChooseChunk, CheckAppend, WriteOutside,
           CommitAppend, Fetched, Working, Steps
  <2>. QED BY <2>1, FetchedRow DEF TypeInv
<1>1. UNCHANGED <<nextId, outcome>>
  BY DEF Restore, BeginImport, CheckEmpty, ChooseChunk, CheckAppend, WriteOutside,
         CommitAppend, stores
<1>2. \A i \in OpId : counterState[i] = 3 => counterState'[i] = 3
  <2>1. CASE BeginImport(c)
    BY <1>0, <2>1, RowFields, AdvanceKeeps DEF BeginImport
  <2>2. CASE ~BeginImport(c)
    BY <2>2 DEF Restore, CheckEmpty, ChooseChunk, CheckAppend, WriteOutside, CommitAppend, stores
  <2>. QED BY <2>1, <2>2
<1>3. row' = row \/ (row # NoRow /\ row' \in Row /\ row'.id = row.id)
  <2>1. CASE CommitAppend(c)
    <3>1. row' = row \/ (row = call[c].op /\ row' = [call[c].op EXCEPT !.position = call[c].plan.to])
      BY <2>1 DEF CommitAppend, Fenced
    <3>2. call[c].plan.to \in 1 .. Ended
      BY <2>1 DEF CommitAppend, TypeInv, CallsOK, Shape, Appending
    <3>. QED BY <1>0, <3>1, <3>2, SwapKeeps
  <2>2. CASE ~CommitAppend(c)
    BY <2>2 DEF Restore, BeginImport, CheckEmpty, ChooseChunk, CheckAppend, WriteOutside
  <2>. QED BY <2>1, <2>2
<1>4. \A d \in Caller : call'[d].at = "delete" =>
                           call[d].at = "delete" /\ call'[d].op = call[d].op
  <2>1. CASE ChooseChunk(c)
    BY <2>1 DEF ChooseChunk, TypeInv, CallsOK, Call
  <2>2. CASE WriteOutside(c)
    <3>1. Conflict(c) \/ \E p : call' = [call EXCEPT ![c].at = "append", ![c].plan = p]
      BY <2>2 DEF WriteOutside
    <3>. QED BY <3>1, AnswerKeeps DEF TypeInv, CallsOK, Call
  <2>3. CASE BeginImport(c) \/ CheckEmpty(c) \/ CheckAppend(c) \/ CommitAppend(c)
    BY <2>3, GotoKeeps, AnswerKeeps DEF BeginImport, CheckEmpty, CheckAppend, CommitAppend
  <2>. QED BY <2>1, <2>2, <2>3 DEF Restore
<1>. QED BY <1>1, <1>2, <1>3, <1>4 DEF KeepsEnd

LEMMA DiscardKeeps ==
  ASSUME TypeInv, NEW c \in Caller, DiscardRestore(c)
  PROVE  KeepsEnd
<1>0. call[c].op \in Row
  <2>1. call[c].at \in Fetched
    BY DEF DiscardRestore, Claim, Revoke, DiscardOne, Wipe, VerifyBackfill, SaveProgress,
           Fetched, Working, Steps
  <2>. QED BY <2>1, FetchedRow DEF TypeInv
<1>1. UNCHANGED <<nextId, outcome>>
  BY DEF DiscardRestore, Claim, Revoke, DiscardOne, Wipe, VerifyBackfill, SaveProgress, stores
<1>2. \A i \in OpId : counterState[i] = 3 => counterState'[i] = 3
  <2>1. CASE Revoke(c)
    BY <1>0, <2>1, RowFields, AdvanceKeeps DEF Revoke
  <2>2. CASE ~Revoke(c)
    BY <2>2 DEF DiscardRestore, Claim, DiscardOne, Wipe, VerifyBackfill, SaveProgress, stores
  <2>. QED BY <2>1, <2>2
<1>3. row' = row \/ (row # NoRow /\ row' \in Row /\ row'.id = row.id)
  <2>1. CASE Claim(c) \/ SaveProgress(c)
    <3>1. row' = row \/ \E d \in Discard : row = call[c].op /\ row' = Discarding(row, d)
      <4>1. FirstDiscard \in Discard
        BY DEF Discard, FirstDiscard
      <4>2. SaveProgress(c) => call[c].plan \in Discard
        BY DEF SaveProgress, TypeInv, CallsOK, Shape
      <4>. QED BY <2>1, <4>1, <4>2 DEF Claim, SaveProgress, Swaps
    <3>. QED BY <1>0, <3>1, RowKeeps, RowUpdate, NoRowNotRow
  <2>2. CASE ~(Claim(c) \/ SaveProgress(c))
    BY <2>2 DEF DiscardRestore, Revoke, DiscardOne, Wipe, VerifyBackfill
  <2>. QED BY <2>1, <2>2
<1>4. \A d \in Caller : call'[d].at = "delete" =>
                           call[d].at = "delete" /\ call'[d].op = call[d].op
  <2>0. ASSUME NEW d, Save(c, d)
        PROVE  \A e \in Caller : call'[e].at = "delete" =>
                                    call[e].at = "delete" /\ call'[e].op = call[e].op
    BY <2>0 DEF Save, TypeInv, CallsOK, Call
  <2>1. CASE Claim(c) \/ Revoke(c) \/ SaveProgress(c)
    BY <2>1, GotoKeeps, AnswerKeeps DEF Claim, Revoke, SaveProgress
  <2>2. CASE DiscardOne(c)
    <3>1. (\E d : Save(c, d)) \/ \E s \in {"wipe", "verifyBackfill", "toReleasing"} : Goto(c, s)
      BY <2>2 DEF DiscardOne, UnlessLate
    <3>. QED BY <2>0, <3>1, GotoKeeps
  <2>3. CASE Wipe(c)
    <3>1. Conflict(c) \/ Answer(c) \/ \E d : Save(c, d)
      BY <2>3 DEF Wipe
    <3>. QED BY <2>0, <3>1, AnswerKeeps
  <2>4. CASE VerifyBackfill(c)
    BY <2>0, <2>4, GotoKeeps DEF VerifyBackfill
  <2>. QED BY <2>1, <2>2, <2>3, <2>4 DEF DiscardRestore
<1>. QED BY <1>1, <1>2, <1>3, <1>4 DEF KeepsEnd

LEMMA OutsideKeeps ==
  ASSUME TypeInv, Age \/ Write \/ RecordOrFlush \/ Faulty
  PROVE  KeepsEnd
<1>1. UNCHANGED <<row, nextId, outcome, counterState>>
  BY DEF Age, Write, AdmitRow, CommitRow, RecordOrFlush, StartRecord, ObserveFreezes, CheckGate,
         ThawStale, CommitRecord, Faulty, CallFails, IsolateCrash, CountersRestart,
         ProcessRestart, stores
<1>2. \A d \in Caller : call'[d].at = "delete" =>
                           call[d].at = "delete" /\ call'[d].op = call[d].op
  <2>1. CASE CommitRow \/ CommitRecord
    <3>1. \A d \in Caller : call[d] \in Call
      BY DEF TypeInv, CallsOK
    <3>. QED BY <2>1, <3>1 DEF CommitRow, CommitRecord, Drained, Call
  <2>2. CASE CountersRestart \/ ProcessRestart
    BY <2>2 DEF CountersRestart, ProcessRestart, Idle
  <2>3. ASSUME NEW c \in Caller, CallFails(c) \/ IsolateCrash(c)
        PROVE  \A d \in Caller : call'[d].at = "delete" =>
                                    call[d].at = "delete" /\ call'[d].op = call[d].op
    BY <2>3, AnswerKeeps DEF CallFails, IsolateCrash
  <2>4. CASE UNCHANGED call
    BY <2>4
  <2>. QED BY <2>1, <2>2, <2>3, <2>4 DEF Age, Write, AdmitRow, RecordOrFlush, StartRecord,
                ObserveFreezes, CheckGate, ThawStale, Faulty
<1>. QED BY <1>1, <1>2 DEF KeepsEnd

\* The three steps that start or end an operation.
LEMMA EndSteps ==
  ASSUME TypeInv, EndInv, NEW c \in Caller, Insert(c) \/ ReleaseServer(c)
  PROVE  EndInv'
<1>1. CASE Insert(c)
  <2>1. CASE Answer(c) /\ UNCHANGED <<row, nextId>>
    <3>1. KeepsEnd
      BY <1>1, <2>1, AnswerKeeps DEF Insert, KeepsEnd, stores
    <3>. QED BY <3>1, KeepsEndInv
  <2>2. CASE /\ row = NoRow /\ nextId \in OpId /\ row' = NewRow(call[c].req) /\ nextId' = nextId + 1
             /\ call' = [call EXCEPT ![c].at = "close", ![c].op = row', ![c].after = "again"]
    <3>1. row'.id = nextId
      BY <2>2 DEF NewRow
    <3>2. UNCHANGED <<outcome, counterState>>
      BY <1>1 DEF Insert, stores
    <3>3. nextId < nextId' /\ outcome[nextId] = "none"
      BY <2>2 DEF OpId, EndInv
    <3>4. \A i \in OpId : outcome'[i] # "none" => i < nextId' /\ counterState'[i] = 3
      BY <2>2, <3>2 DEF EndInv, OpId
    <3>5. \A d \in Caller : call'[d].at = "delete" =>
                               call[d].at = "delete" /\ call'[d].op = call[d].op
      BY <2>2 DEF TypeInv, CallsOK, Call
    <3>. QED BY <3>1, <3>2, <3>3, <3>4, <3>5 DEF EndInv
  <2>. QED BY <1>1, <2>1, <2>2 DEF Insert
<1>2. ASSUME ReleaseServer(c) PROVE call[c].op \in Row /\ call[c].op.id \in OpId
  <2>1. call[c].at \in Fetched
    BY <1>2 DEF ReleaseServer, ToReleasing, CloseCounters, DeleteRow, Thaw, Reopen,
                Fetched, Working, Steps
  <2>. QED BY <2>1, FetchedRow, RowFields DEF TypeInv
<1>3. CASE ToReleasing(c) \/ Thaw(c) \/ Reopen(c)
  <2>1. UNCHANGED <<nextId, outcome, counterState>>
    BY <1>3 DEF ToReleasing, Thaw, Reopen, stores
  <2>2. row' = row \/ (row # NoRow /\ row' \in Row /\ row'.id = row.id)
    <3>1. row' = row \/ (row = call[c].op /\ row' = [call[c].op EXCEPT !.phase = "releasing"])
      BY <1>3 DEF ToReleasing, Thaw, Reopen, Swaps
    <3>2. "releasing" \in Phase
      BY DEF Phase
    <3>. QED BY <1>2, <1>3, <3>1, <3>2, SwapKeeps DEF ReleaseServer
  <2>3. \A d \in Caller : call'[d].at = "delete" =>
                             call[d].at = "delete" /\ call'[d].op = call[d].op
    <3>1. CASE ToReleasing(c)
      <4>1. \/ Goto(c, "closeCounters") \/ Answer(c) \/ Conflict(c)
            \/ \E o : call' = [call EXCEPT ![c].at = "closeCounters", ![c].op = o]
        BY <3>1 DEF ToReleasing
      <4>2. ASSUME NEW o, call' = [call EXCEPT ![c].at = "closeCounters", ![c].op = o]
            PROVE  \A d \in Caller : call'[d].at = "delete" =>
                                        call[d].at = "delete" /\ call'[d].op = call[d].op
        BY <4>2 DEF TypeInv, CallsOK, Call
      <4>. QED BY <4>1, <4>2, GotoKeeps, AnswerKeeps
    <3>2. CASE Thaw(c)
      BY <3>2, GotoKeeps DEF Thaw
    <3>3. CASE Reopen(c)
      <4>1. CASE Answer(c)
        BY <4>1, AnswerKeeps
      <4>2. CASE call' = [call EXCEPT ![c].at = call[c].after, ![c].op = NoRow]
        <5>1. call[c] \in Call /\ call[c].after # "delete"
          BY DEF TypeInv, CallsOK, Call
        <5>. QED BY <4>2, <5>1 DEF TypeInv, CallsOK, Call
      <4>. QED BY <3>3, <4>1, <4>2 DEF Reopen
    <3>. QED BY <1>3, <3>1, <3>2, <3>3
  <2>4. KeepsEnd
    BY <2>1, <2>2, <2>3 DEF KeepsEnd
  <2>. QED BY <2>4, KeepsEndInv
<1>4. CASE CloseCounters(c)
  <2>1. /\ \A i \in OpId : counterState[i] = 3 => counterState'[i] = 3
        /\ counterState'[call[c].op.id] = 3
    BY <1>2, <1>4, AdvanceKeeps DEF CloseCounters, ReleaseServer
  <2>2. UNCHANGED <<row, nextId, outcome>>
    BY <1>4 DEF CloseCounters
  <2>3. \A d \in Caller : call'[d].op = call[d].op /\ (call'[d].at = "delete" => d = c \/ call[d].at = "delete")
    BY <1>4 DEF CloseCounters, Goto, TypeInv, CallsOK, Call
  <2>4. ASSUME NEW d \in Caller, call'[d].at = "delete" PROVE counterState'[call'[d].op.id] = 3
    <3>1. CASE d = c
      BY <2>1, <2>3, <3>1
    <3>2. CASE call[d].at = "delete"
      <4>1. call[d].op.id \in OpId
        BY <3>2, FetchedRow, RowFields DEF TypeInv, Fetched, Working, Steps
      <4>. QED BY <2>1, <2>3, <3>2, <4>1 DEF EndInv
    <3>. QED BY <2>3, <2>4, <3>1, <3>2
  <2>. QED BY <2>1, <2>2, <2>4 DEF EndInv
<1>5. CASE DeleteRow(c)
  <2>1. UNCHANGED <<nextId, counterState>>
    BY <1>5 DEF DeleteRow, stores
  <2>2. \A d \in Caller : call'[d].at = "delete" =>
                             call[d].at = "delete" /\ call'[d].op = call[d].op
    BY <1>5, GotoKeeps DEF DeleteRow
  <2>3. CASE row # call[c].op
    <3>1. KeepsEnd
      BY <1>5, <2>1, <2>2, <2>3 DEF DeleteRow, KeepsEnd
    <3>. QED BY <3>1, KeepsEndInv
  <2>4. CASE row = call[c].op
    <3>1. row.id \in OpId /\ row # NoRow
      BY <1>2, <1>5, <2>4, NoRowNotRow DEF ReleaseServer
    <3>2. row' = NoRow /\ outcome' = [outcome EXCEPT ![row.id] = OutcomeOf(row)]
      BY <1>5, <2>4 DEF DeleteRow
    <3>3. counterState[row.id] = 3 /\ row.id < nextId
      BY <1>5, <2>4, <3>1 DEF DeleteRow, EndInv
    <3>4. \A i \in OpId : outcome'[i] # "none" => i < nextId' /\ counterState'[i] = 3
      BY <2>1, <3>2, <3>3 DEF EndInv, TypeInv, RowTypeOK
    <3>. QED BY <2>1, <2>2, <3>2, <3>4 DEF EndInv
  <2>. QED BY <2>3, <2>4
<1>. QED BY <1>1, <1>3, <1>4, <1>5 DEF ReleaseServer

LEMMA EndInvariant == Spec => []EndInv
<1>1. Init => EndInv
  BY DEF Init, EndInv, Idle
<1>2. TypeInv /\ EndInv /\ [Next]_vars => EndInv'
  <2> SUFFICES ASSUME TypeInv, EndInv, [Next]_vars PROVE EndInv'
    OBVIOUS
  <2>1. CASE UNCHANGED vars
    BY <2>1 DEF EndInv, vars, stores
  <2>2. ASSUME NEW c \in Caller, (\E r \in Requests : Acquire(c, r)) \/ Proceed(c) PROVE EndInv'
    <3>1. CASE Insert(c) \/ ReleaseServer(c)
      BY <3>1, EndSteps
    <3>2. CASE ~(Insert(c) \/ ReleaseServer(c))
      <4>1. KeepsEnd
        BY <2>2, <3>2, RequestKeeps, HoldKeeps, RestoreKeeps, DiscardKeeps DEF Proceed
      <4>. QED BY <4>1, KeepsEndInv
    <3>. QED BY <3>1, <3>2
  <2>3. CASE Age \/ Write \/ RecordOrFlush \/ Faulty
    BY <2>3, OutsideKeeps, KeepsEndInv
  <2>. QED BY <2>1, <2>2, <2>3 DEF Next
<1>. QED BY <1>1, <1>2, TypeInvariant, PTL DEF Spec

\* However many requests run late, an operation that ended is never the row
\* again, and its counter state stays closed to imports and cleanup.
THEOREM EndedStaysEnded == Spec => []EndedForGood
<1>1. TypeInv /\ EndInv => EndedForGood
  <2>1. \A i \in OpId : NoRow.id # i
    BY DEF NoRow, OpId
  <2>. QED BY <2>1 DEF EndInv, EndedForGood, TypeInv
<1>. QED BY <1>1, EndInvariant, TypeInvariant, PTL

(***************************************************************************)
(* The course of an operation.  A row only moves forward through its       *)
(* phases, and what a request read is on the course of the row that still  *)
(* carries its id, or that row is gone.                                    *)
(***************************************************************************)
Undoing == {"unfreeze", "unfreezeOurs", "unhold", "unholdOurs"}
Preparing == {"beginImport", "checkEmpty", "toReady"}
Appends == {"choose", "append", "write", "commit"}
Discards == {"revoke", "discard", "wipe", "verifyBackfill", "save"}
Releases == {"closeCounters", "delete", "thaw", "reopen"}

\* The rows that the lifecycle writes.
Lawful(r) ==
    /\ r.kind = "export" => /\ r.phase \in {"freezing", "frozen", "releasing"}
                            /\ r.position = 0 /\ r.discard = NoDiscard
    /\ r.kind = "import" => /\ r.phase \in {"preparing", "ready", "discarding", "releasing"}
                            /\ r.position >= 1
                            /\ r.phase = "releasing" /\ r.discard = NoDiscard
                                 => r.position \in {1, Ended}
    /\ r.phase = "preparing" => r.position = 1
    /\ r.phase \in {"preparing", "ready"} => r.discard = NoDiscard
    /\ r.phase = "discarding" => r.discard.step >= 1

\* If r and o are rows of one operation, r is o or what later became of it.
Leads(o, r) ==
    r.id = o.id =>
    /\ r.kind = o.kind /\ r.position >= o.position
    /\ o.phase = "releasing" => r = o
    /\ o.phase = "frozen" => r.phase \in {"frozen", "releasing"}
    /\ o.phase = "ready" => /\ r.phase # "preparing"
                            /\ r.phase = "releasing" => r.discard # NoDiscard \/ r.position = Ended
    /\ o.phase = "discarding" => r.phase \in {"discarding", "releasing"} /\ r.discard # NoDiscard

Carried(o) == Lawful(o) /\ o.id < nextId /\ (row # NoRow => Leads(o, row))

\* The row that a request works on at each of its steps.
OpShape(k) ==
    /\ k.at \in InHold \cup Undoing \cup {"recheck"} => k.op.phase \in {"freezing", "preparing"}
    /\ k.at = "toFrozen" => k.op.phase = "freezing"
    /\ k.at \in Preparing => k.op.phase = "preparing"
    /\ k.at \in Appends \cup {"claim", "revokeClaimed"} => k.op.phase = "ready"
    /\ k.at \in Discards => k.op.phase = "discarding"
    /\ k.at = "toReleasing" /\ k.op.phase = "ready" => k.op.position = Ended
    /\ k.at \in Releases => k.op.phase = "releasing"
    /\ k.at = "choose" => k.op.position < Ended
    /\ k.at \in {"append", "write", "commit"} => k.plan.to > k.op.position
    /\ k.at = "save" => k.plan.step >= 1

\* What it knows of the row that carries its id by now.
Behind(k) ==
    row.id = k.op.id =>
    /\ k.at = "recheck" => row.phase # k.op.phase
    /\ k.at = "revokeClaimed" => row.discard # NoDiscard
    /\ k.at \in Undoing => row.phase = "releasing"

FactsOf(k) == Carried(k.op) /\ OpShape(k) /\ Behind(k)

CourseInv ==
    /\ row # NoRow => Lawful(row) /\ row.id < nextId
    /\ \A c \in Caller : call[c].at \in Fetched => FactsOf(call[c])

\* What any step does to the row.
RowStep ==
    /\ nextId' \in Nat /\ nextId <= nextId'
    /\ \/ row' = row
       \/ row' = NoRow
       \/ row = NoRow /\ row' \in Row /\ row'.id = nextId /\ nextId < nextId' /\ Lawful(row')
       \/ row \in Row /\ row' \in Row /\ row'.id = row.id /\ Lawful(row') /\ Leads(row, row')

LEMMA LeadsOn ==
  ASSUME NEW o \in Row, NEW r \in Row, NEW s \in Row, Lawful(o), Lawful(r),
         s.id = r.id, Leads(o, r), Leads(r, s)
  PROVE  Leads(o, s)
<1>1. r.kind \in {"export", "import"} /\ r.phase \in Phase /\ s.phase \in Phase
  BY DEF Row
<1>2. r.position \in Nat /\ o.position \in Nat /\ s.position \in Nat
  BY DEF Row, Ended
<1> SUFFICES ASSUME s.id = o.id PROVE Leads(o, s)
  BY DEF Leads
<1>3. s.kind = o.kind /\ s.position >= o.position /\ r.kind = o.kind /\ r.position >= o.position
  BY <1>2 DEF Leads
<1>4. o.phase = "releasing" => s = o
  BY DEF Leads
<1>5. o.phase \in {"frozen", "discarding"} =>
        s.phase \in {o.phase, "releasing"} /\ (o.phase = "discarding" => s.discard # NoDiscard)
  BY <1>1 DEF Leads, Lawful, Phase
<1>6. o.phase = "ready" => /\ s.phase # "preparing"
                           /\ s.phase = "releasing" => s.discard # NoDiscard \/ s.position = Ended
  <2> SUFFICES ASSUME o.phase = "ready"
               PROVE  /\ s.phase # "preparing"
                      /\ s.phase = "releasing" => s.discard # NoDiscard \/ s.position = Ended
    OBVIOUS
  <2>1. r.phase # "preparing" /\ (r.phase = "releasing" => r.discard # NoDiscard \/ r.position = Ended)
    BY DEF Leads
  <2>2. CASE r.phase = "ready"
    BY <2>2 DEF Leads
  <2>3. CASE r.phase = "releasing"
    BY <2>1, <2>3 DEF Leads
  <2>4. CASE r.phase = "discarding"
    BY <2>4 DEF Leads
  <2>5. r.phase \notin {"freezing", "frozen"}
    BY <1>1, <1>3 DEF Lawful, Row
  <2>. QED BY <1>1, <2>1, <2>2, <2>3, <2>4, <2>5 DEF Phase
<1>. QED BY <1>3, <1>4, <1>5, <1>6 DEF Leads

LEMMA CarriedKept ==
  ASSUME TypeInv, CourseInv, RowStep, NEW o \in Row, Carried(o)
  PROVE  Carried(o)'
<1>1. o.id < nextId' /\ nextId \in Nat /\ o.id \in Nat
  BY RowFields DEF RowStep, Carried, TypeInv, RowTypeOK, OpId
<1>2. ASSUME row' # NoRow PROVE Leads(o, row')
  <2>1. CASE row = NoRow /\ row'.id = nextId
    BY <1>1, <2>1 DEF Leads, Carried
  <2>2. CASE row' = row
    BY <1>2, <2>2 DEF Carried
  <2>3. CASE row \in Row /\ row' \in Row /\ row'.id = row.id /\ Leads(row, row')
    <3>1. row # NoRow
      BY <2>3, NoRowNotRow
    <3>. QED BY <2>3, <3>1, LeadsOn DEF Carried, CourseInv
  <2>. QED BY <1>2, <2>1, <2>2, <2>3 DEF RowStep
<1>. QED BY <1>1, <1>2 DEF Carried, Lawful

LEMMA BehindKept ==
  ASSUME TypeInv, CourseInv, RowStep, NEW k, k.op \in Row, FactsOf(k)
  PROVE  Behind(k)'
<1> SUFFICES ASSUME row'.id = k.op.id
             PROVE  /\ k.at = "recheck" => row'.phase # k.op.phase
                    /\ k.at = "revokeClaimed" => row'.discard # NoDiscard
                    /\ k.at \in Undoing => row'.phase = "releasing"
  BY DEF Behind
<1>1. k.op.id \in OpId /\ k.op.id < nextId /\ nextId \in Nat
  BY RowFields DEF FactsOf, Carried, TypeInv, RowTypeOK
<1>2. row' # NoRow /\ row'.id # nextId
  BY <1>1 DEF NoRow, OpId
<1>3. CASE row' = row
  BY <1>3 DEF FactsOf, Behind
<1>4. CASE row \in Row /\ row' \in Row /\ row'.id = row.id /\ Lawful(row') /\ Leads(row, row')
  <2>1. row # NoRow /\ Lawful(row) /\ Leads(k.op, row) /\ Lawful(k.op) /\ Behind(k) /\ OpShape(k)
    BY <1>4, NoRowNotRow DEF CourseInv, FactsOf, Carried
  <2>2. row.id = k.op.id
    BY <1>4
  <2>3. row.kind \in {"export", "import"} /\ row.phase \in Phase /\ row'.phase \in Phase
    BY <1>4 DEF Row
  <2>4. k.at = "recheck" => row'.phase # k.op.phase
    BY <1>4, <2>1, <2>2, <2>3 DEF Leads, Lawful, Behind, OpShape, Phase
  <2>5. k.at = "revokeClaimed" => row'.discard # NoDiscard
    BY <1>4, <2>1, <2>2, <2>3 DEF Leads, Lawful, Behind, OpShape, Phase
  <2>6. k.at \in Undoing => row'.phase = "releasing"
    BY <1>4, <2>1, <2>2, <2>3 DEF Leads, Lawful, Behind, OpShape, Phase
  <2>. QED BY <2>4, <2>5, <2>6
<1>. QED BY <1>2, <1>3, <1>4 DEF RowStep

LEMMA CourseKept ==
  ASSUME TypeInv, TypeInv', CourseInv, RowStep,
         \A d \in Caller : call'[d].at \in Fetched =>
           \/ /\ call'[d].at = call[d].at /\ call'[d].op = call[d].op
              /\ call'[d].plan = call[d].plan
           \/ /\ call[d].at \in Fetched /\ call'[d].op = call[d].op
              /\ OpShape(call'[d]) /\ Behind(call[d])'
           \/ FactsOf(call[d])'
  PROVE  CourseInv' /\ RowStep
<1>1. row' # NoRow => Lawful(row') /\ row'.id < nextId'
  <2>1. nextId \in Nat /\ nextId' \in Nat /\ nextId <= nextId' /\ (row # NoRow => row.id \in Nat)
    BY RowFields DEF RowStep, TypeInv, RowTypeOK, OpId
  <2>2. row \in Row => row # NoRow
    BY NoRowNotRow
  <2>. QED BY <2>1, <2>2 DEF CourseInv, RowStep
<1>2. ASSUME NEW d \in Caller, call'[d].at \in Fetched PROVE FactsOf(call[d])'
  <2>1. CASE FactsOf(call[d])'
    BY <2>1
  <2>2. CASE /\ call'[d].at = call[d].at /\ call'[d].op = call[d].op
             /\ call'[d].plan = call[d].plan
    <3>1. call[d].op \in Row /\ FactsOf(call[d])
      BY <1>2, <2>2, FetchedRow DEF TypeInv, CourseInv
    <3>2. Carried(call[d].op)' /\ Behind(call[d])' /\ OpShape(call'[d])
      <4>1. Behind(call'[d]) <=> Behind(call[d])
        BY <2>2 DEF Behind
      <4>2. FactsOf(call'[d])
        BY <2>2, <3>1, <4>1 DEF FactsOf, OpShape
      <4>3. \A o \in Row : Carried(o) => Carried(o)'
        BY CarriedKept
      <4>4. \A k : k.op \in Row /\ FactsOf(k) => Behind(k)'
        BY BehindKept
      <4>. QED BY <2>2, <3>1, <4>2, <4>3, <4>4 DEF FactsOf
    <3>. QED BY <3>2 DEF FactsOf
  <2>3. CASE /\ call[d].at \in Fetched /\ call'[d].op = call[d].op
             /\ OpShape(call'[d]) /\ Behind(call[d])'
    <3>1. call[d].op \in Row /\ Carried(call[d].op)
      BY <2>3, FetchedRow DEF TypeInv, CourseInv, FactsOf
    <3>2. \A o \in Row : Carried(o) => Carried(o)'
      BY CarriedKept
    <3>. QED BY <2>3, <3>1, <3>2 DEF FactsOf
  <2>. QED BY <1>2, <2>1, <2>2, <2>3
<1>. QED BY <1>1, <1>2 DEF CourseInv

\* The locals of a request after a step of its own; the others keep theirs.
LEMMA CallTo ==
  ASSUME TypeInv, NEW c \in Caller, NEW k, call' = [call EXCEPT ![c] = k]
  PROVE  call'[c] = k /\ \A d \in Caller \ {c} : call'[d] = call[d]
  BY DEF TypeInv, CallsOK

LEMMA GotoTo ==
  ASSUME TypeInv, NEW c \in Caller, NEW s, Goto(c, s)
  PROVE  /\ call'[c].at = s /\ call'[c].op = call[c].op /\ call'[c].plan = call[c].plan
         /\ call'[c].drain = call[c].drain /\ call'[c].after = call[c].after
         /\ call'[c].req = call[c].req
         /\ \A d \in Caller \ {c} : call'[d] = call[d]
<1>1. call[c] \in Call
  BY DEF TypeInv, CallsOK
<1>. QED BY <1>1 DEF Goto, TypeInv, CallsOK, Call

LEMMA AnswerTo ==
  ASSUME TypeInv, NEW c \in Caller, Answer(c) \/ Conflict(c) \/ call' = [call EXCEPT ![c] = Idle]
  PROVE  /\ call'[c].at \in {"release", "conflict", "idle"} /\ call'[c].at \notin Fetched
         /\ call'[c].op = NoRow
         /\ \A d \in Caller \ {c} : call'[d] = call[d]
<1> SUFFICES ASSUME NEW k, call' = [call EXCEPT ![c] = k], k.op = NoRow,
                    k.at \in {"release", "conflict", "idle"}
             PROVE  /\ call'[c].at \in {"release", "conflict", "idle"} /\ call'[c].at \notin Fetched
                    /\ call'[c].op = NoRow
                    /\ \A d \in Caller \ {c} : call'[d] = call[d]
  <2>0. /\ [Idle EXCEPT !.at = "release"].op = NoRow /\ [Idle EXCEPT !.at = "release"].at = "release"
        /\ [Idle EXCEPT !.at = "conflict"].op = NoRow /\ [Idle EXCEPT !.at = "conflict"].at = "conflict"
        /\ Idle.op = NoRow /\ Idle.at = "idle"
    BY DEF Idle
  <2>1. CASE Answer(c)
    BY <2>0, <2>1, Zenon DEF Answer
  <2>2. CASE Conflict(c)
    BY <2>0, <2>2, Zenon DEF Conflict
  <2>3. CASE call' = [call EXCEPT ![c] = Idle]
    BY <2>0, <2>3, Zenon
  <2>. QED BY <2>1, <2>2, <2>3
<1>1. call'[c] = k /\ \A d \in Caller \ {c} : call'[d] = call[d]
  BY CallTo
<1>. QED BY <1>1 DEF Fetched, Working

LEMMA NextIdNat == TypeInv => nextId \in Nat /\ nextId <= nextId
  BY DEF TypeInv, RowTypeOK

LEMMA StaysRowStep ==
  ASSUME TypeInv, UNCHANGED <<row, nextId>>
  PROVE  RowStep
  BY NextIdNat DEF RowStep

LEMMA FirstStepShape ==
  ASSUME NEW q \in RequestKinds, NEW r \in Row, Lawful(r)
  PROVE  LET s == FirstStep(q, r)
         IN  /\ s = "close" => r.phase \in {"freezing", "preparing"}
             /\ s = "choose" => r.phase = "ready" /\ r.position < Ended
             /\ s = "claim" => r.phase = "ready"
             /\ s = "revoke" => r.phase = "discarding"
             /\ s = "toReleasing" /\ r.phase = "ready" => r.position = Ended
<1>1. r # NoRow /\ r.kind \in {"export", "import"} /\ r.phase \in Phase
  BY NoRowNotRow DEF Row
<1>2. CASE q \in {"startExport", "exportPage", "finishExport"}
  BY <1>1, <1>2 DEF FirstStep, Exporting, Lawful
<1>3. CASE q = "beginRestore"
  BY <1>1, <1>3 DEF FirstStep, Importing
<1>4. CASE q = "appendRestore"
  BY <1>1, <1>4 DEF FirstStep, Importing
<1>5. CASE q = "activateRestore"
  BY <1>1, <1>5 DEF FirstStep, Importing
<1>6. CASE q = "discardRestore"
  BY <1>1, <1>6 DEF FirstStep, Importing, Untouching, Lawful, Phase
<1>. QED BY <1>2, <1>3, <1>4, <1>5, <1>6 DEF RequestKinds

LEMMA CarriedRow ==
  ASSUME TypeInv, CourseInv, row # NoRow
  PROVE  row \in Row /\ Carried(row)
<1>1. row \in Row
  BY DEF TypeInv, RowTypeOK
<1>2. row.position \in Nat
  BY <1>1 DEF Row, Ended
<1>3. Leads(row, row)
  BY <1>1, <1>2 DEF Leads, CourseInv, Lawful, NoDiscard
<1>. QED BY <1>1, <1>3 DEF Carried, CourseInv

LEMMA EnterCourse ==
  ASSUME TypeInv, CourseInv, NEW c \in Caller, call[c].at \in Working, Enter(c),
         UNCHANGED <<row, nextId>>
  PROVE  /\ call'[c].at \in Fetched => FactsOf(call[c])'
         /\ \A d \in Caller \ {c} : call'[d] = call[d]
<1> DEFINE s == FirstStep(call[c].req, row)
           k == [call[c] EXCEPT !.at = s, !.op = row, !.after = "release"]
<1>1. call[c].req \in RequestKinds /\ call[c] \in Call
  BY DEF TypeInv, CallsOK, Shape
<1>2. CASE Answer(c)
  BY <1>2, AnswerTo
<1>3. CASE s # "release" /\ call' = [call EXCEPT ![c].at = s, ![c].op = row, ![c].after = "release"]
  <2>1. call' = [call EXCEPT ![c] = k]
    BY <1>3 DEF TypeInv, CallsOK
  <2>2. k.at = s /\ k.op = row
    BY <1>1 DEF Call
  <2>3. call'[c].at = s /\ call'[c].op = row /\ \A d \in Caller \ {c} : call'[d] = call[d]
    BY <2>1, <2>2, CallTo
  <2>4. s \in {"close", "readHold", "toReleasing", "choose", "claim", "revoke"}
        /\ (s # "readHold" => row # NoRow)
    BY <1>1, <1>3, FirstStepOK
  <2>5. ASSUME s # "readHold" PROVE FactsOf(call[c])'
    <3>1. row \in Row /\ Lawful(row) /\ Carried(row) /\ Carried(row)'
      BY <2>4, <2>5, CarriedRow DEF Carried
    <3>2. /\ s = "close" => row.phase \in {"freezing", "preparing"}
          /\ s = "choose" => row.phase = "ready" /\ row.position < Ended
          /\ s = "claim" => row.phase = "ready"
          /\ s = "revoke" => row.phase = "discarding"
          /\ s = "toReleasing" /\ row.phase = "ready" => row.position = Ended
      BY <1>1, <3>1, FirstStepShape
    <3>3. OpShape(call'[c])
      BY <2>3, <2>4, <2>5, <3>2 DEF OpShape, InHold, Undoing, Preparing, Appends, Discards, Releases
    <3>4. Behind(call[c])'
      BY <2>3, <2>4 DEF Behind, Undoing
    <3>. QED BY <2>3, <3>1, <3>3, <3>4 DEF FactsOf
  <2>. QED BY <2>3, <2>5 DEF Fetched, Working
<1>. QED BY <1>2, <1>3 DEF Enter

LEMMA PendingCourse ==
  ASSUME TypeInv, CourseInv, NEW c \in Caller, NEW a, FinishPending(c, a), Pending,
         UNCHANGED <<row, nextId>>
  PROVE  /\ FactsOf(call[c])'
         /\ \A d \in Caller \ {c} : call'[d] = call[d]
<1>1. call[c] \in Call
  BY DEF TypeInv, CallsOK
<1>2. /\ call'[c].at = "closeCounters" /\ call'[c].op = row
      /\ \A d \in Caller \ {c} : call'[d] = call[d]
  BY <1>1 DEF FinishPending, TypeInv, CallsOK, Call
<1>3. Carried(row)' /\ row.phase = "releasing"
  BY CarriedRow DEF Pending, Carried
<1>4. OpShape(call'[c]) /\ Behind(call[c])'
  BY <1>2, <1>3 DEF OpShape, Behind, InHold, Undoing, Preparing, Appends, Discards, Releases
<1>. QED BY <1>2, <1>3, <1>4 DEF FactsOf

\* Requests that begin, read and end.
LEMMA RequestCourse ==
  ASSUME TypeInv, TypeInv', CourseInv, NEW c \in Caller,
         \/ \E r \in Requests : Acquire(c, r)
         \/ Release(c) \/ Read(c) \/ Reread(c) \/ ReadHold(c)
  PROVE  CourseInv' /\ RowStep
<1>1. UNCHANGED <<row, nextId>>
  BY DEF Acquire, Release, Read, Reread, ReadHold
<1>2. /\ call'[c].at \in Fetched => FactsOf(call[c])'
      /\ \A d \in Caller \ {c} : call'[d] = call[d]
  <2>1. ASSUME NEW r \in Requests, Acquire(c, r)
        PROVE  call'[c].at \notin Fetched /\ \A d \in Caller \ {c} : call'[d] = call[d]
    <3> DEFINE k == [call[c] EXCEPT !.at = "read", !.req = r]
    <3>a. call' = [call EXCEPT ![c].at = "read", ![c].req = r]
      BY <2>1 DEF Acquire
    <3>1. call' = [call EXCEPT ![c] = k]
      BY <3>a DEF TypeInv, CallsOK
    <3>0. call[c] \in Call
      BY DEF TypeInv, CallsOK
    <3>2. k.at = "read"
      BY <3>0 DEF Call
    <3>3. call'[c].at = "read" /\ \A d \in Caller \ {c} : call'[d] = call[d]
      BY <3>1, <3>2, CallTo
    <3>. QED BY <3>3 DEF Fetched
  <2>2. CASE Release(c)
    BY <2>2, AnswerTo DEF Release
  <2>3. CASE Read(c) \/ Reread(c)
    <3>1. call[c].at \in Working
      BY <2>3 DEF Read, Reread, Working, Steps
    <3>. QED BY <1>1, <2>3, <3>1, EnterCourse, PendingCourse DEF Read, Reread
  <2>4. CASE ReadHold(c)
    <3>1. Goto(c, "insert") => call'[c].at \notin Fetched
      BY GotoTo DEF Fetched
    <3>. QED BY <1>1, <2>4, <3>1, GotoTo, PendingCourse DEF ReadHold
  <2>. QED BY <2>1, <2>2, <2>3, <2>4
<1>3. RowStep
  BY <1>1, StaysRowStep
<1>. QED BY <1>2, <1>3, CourseKept

\* A step of c itself that leaves the row alone.
LEMMA OwnCourse ==
  ASSUME TypeInv, TypeInv', CourseInv, NEW c \in Caller, call[c].at \in Fetched,
         RowStep, \A d \in Caller \ {c} : call'[d] = call[d],
         call'[c].at \in Fetched =>
            \/ call'[c].op = call[c].op /\ OpShape(call'[c]) /\ Behind(call[c])'
            \/ FactsOf(call[c])'
  PROVE  CourseInv' /\ RowStep
  BY CourseKept

LEMMA ShapeOf ==
  ASSUME TypeInv, CourseInv, NEW c \in Caller, call[c].at \in Fetched
  PROVE  /\ call[c].op \in Row /\ call[c].op.id \in OpId /\ call[c] \in Call
         /\ Lawful(call[c].op) /\ OpShape(call[c]) /\ Behind(call[c])
         /\ row # NoRow => Leads(call[c].op, row)
         /\ call[c].op.id < nextId
  BY FetchedRow, RowFields DEF TypeInv, CallsOK, CourseInv, FactsOf, Carried

\* Which row an operation in its first phase has.
LEMMA FirstRow ==
  ASSUME NEW o \in Row, NEW r \in Row, Lawful(o), Lawful(r), Leads(o, r), r.id = o.id,
         r.phase = o.phase, o.phase \in {"freezing", "preparing"}
  PROVE  r = o
<1>1. r.kind = o.kind /\ o.kind \in {"export", "import"}
  BY DEF Leads, Row
<1>2. r.position = o.position /\ r.discard = o.discard
  BY <1>1 DEF Lawful
<1>3. /\ o = [id |-> o.id, kind |-> o.kind, phase |-> o.phase, position |-> o.position,
              discard |-> o.discard]
      /\ r = [id |-> r.id, kind |-> r.kind, phase |-> r.phase, position |-> r.position,
              discard |-> r.discard]
  BY DEF Row
<1>. QED BY <1>1, <1>2, <1>3

LEMMA PublishRow ==
  ASSUME NEW o \in Row, Lawful(o), NEW p \in {"frozen", "ready"},
         p = "frozen" => o.phase = "freezing", p = "ready" => o.phase = "preparing"
  PROVE  LET to == [o EXCEPT !.phase = p]
         IN  to \in Row /\ to.id = o.id /\ Lawful(to) /\ Leads(o, to)
<1> DEFINE to == [o EXCEPT !.phase = p]
<1>1. to \in Row /\ to.id = o.id /\ to.kind = o.kind /\ to.phase = p
      /\ to.position = o.position /\ to.discard = o.discard
  BY DEF Row, Phase
<1>2. o.kind \in {"export", "import"} /\ o.position \in Nat
  BY DEF Row, Ended
<1>3. Lawful(to)
  BY <1>1, <1>2 DEF Lawful
<1>4. Leads(o, to)
  BY <1>1, <1>2 DEF Leads
<1>. QED BY <1>1, <1>3, <1>4

LEMMA HoldCourse ==
  ASSUME TypeInv, TypeInv', CourseInv, NEW c \in Caller, HoldFor(c)
  PROVE  CourseInv' /\ RowStep
<1>0. call[c].at \in Fetched
  BY DEF HoldFor, CloseProcess, FreezeMemory, FreezeDurably, VerifyHold, UndoFreeze, UndoHold,
         Publish, Recheck, Fetched, Working, Steps
<1>1. /\ call[c].op \in Row /\ call[c].op.id \in OpId /\ call[c] \in Call
      /\ Lawful(call[c].op) /\ OpShape(call[c]) /\ Behind(call[c])
  BY <1>0, ShapeOf
<1>2. CASE CloseProcess(c) \/ FreezeMemory(c) \/ FreezeDurably(c)
  <2>1. /\ call'[c].at \in InHold /\ call'[c].op = call[c].op /\ call[c].at \in InHold
        /\ \A d \in Caller \ {c} : call'[d] = call[d]
    <3>1. CASE CloseProcess(c)
      BY <1>1, <3>1 DEF CloseProcess, InHold, TypeInv, CallsOK, Call
    <3>2. CASE FreezeMemory(c)
      BY <3>2, GotoTo DEF FreezeMemory, InHold
    <3>3. CASE FreezeDurably(c)
      BY <1>1, <3>3 DEF FreezeDurably, InHold, TypeInv, CallsOK, Call
    <3>. QED BY <1>2, <3>1, <3>2, <3>3
  <2>2. OpShape(call'[c]) /\ Behind(call[c])'
    BY <1>1, <2>1 DEF OpShape, Behind, InHold, Undoing, Preparing, Appends, Discards, Releases
  <2>3. RowStep
    BY <1>2, StaysRowStep DEF CloseProcess, FreezeMemory, FreezeDurably
  <2>. QED BY <1>0, <2>1, <2>2, <2>3, OwnCourse
<1>3. CASE VerifyHold(c)
  <2> DEFINE ours == row.id = call[c].op.id
             step == IF ~(ours /\ row.phase \in Holding)
                     THEN IF ours THEN "unfreezeOurs" ELSE "unfreeze"
                     ELSE IF call[c].after = "again" THEN "close"
                     ELSE IF call[c].op.kind = "export" THEN "toFrozen" ELSE "beginImport"
             k == [call[c] EXCEPT !.at = step, !.after = "release"]
  <2>1. call' = [call EXCEPT ![c] = k]
    <3>1. call' = [call EXCEPT ![c].at = step, ![c].after = "release"]
      BY <1>3 DEF VerifyHold
    <3>. QED BY <3>1 DEF TypeInv, CallsOK
  <2>2. k.at = step /\ k.op = call[c].op
    BY <1>1 DEF Call
  <2>3. call'[c].at = step /\ call'[c].op = call[c].op /\ \A d \in Caller \ {c} : call'[d] = call[d]
    <3> HIDE DEF k, step
    <3>. QED BY <2>1, <2>2, CallTo
  <2>4. row' = row /\ nextId' = nextId
    BY <1>3 DEF VerifyHold
  <2>5. call[c].op.phase \in {"freezing", "preparing"} /\ call[c].op.kind \in {"export", "import"}
    BY <1>1, <1>3 DEF VerifyHold, OpShape, InHold, Row
  <2>6. OpShape(call'[c])
    BY <1>1, <2>3, <2>5 DEF OpShape, InHold, Undoing, Preparing, Appends, Discards, Releases, Lawful
  <2>7. Behind(call[c])'
    <3>1. ours => row.phase \in Phase
      BY <1>1 DEF TypeInv, RowTypeOK, NoRow, OpId, Row
    <3>. QED BY <2>3, <2>4, <3>1 DEF Behind, Undoing, Holding
  <2>8. RowStep
    BY <2>4, StaysRowStep
  <2>. QED BY <1>0, <2>3, <2>6, <2>7, <2>8, OwnCourse
<1>4. CASE UndoFreeze(c) \/ UndoHold(c) \/ Recheck(c)
  <2>1. row' = row /\ nextId' = nextId
    BY <1>4 DEF UndoFreeze, UndoHold, Recheck
  <2>2. /\ \A d \in Caller \ {c} : call'[d] = call[d]
        /\ call'[c].at \in Fetched => /\ call[c].at \in Undoing /\ call'[c].at \in Undoing
                                      /\ call'[c].op = call[c].op
    <3>1. UndoFreeze(c) => Goto(c, "unhold") \/ Goto(c, "unholdOurs")
      BY DEF UndoFreeze
    <3>. QED BY <1>4, <3>1, GotoTo, AnswerTo DEF UndoFreeze, UndoHold, Recheck, Undoing
  <2>3. call'[c].at \in Fetched => OpShape(call'[c]) /\ Behind(call[c])'
    BY <1>1, <2>1, <2>2 DEF OpShape, Behind, InHold, Undoing, Preparing, Appends, Discards, Releases
  <2>. QED BY <1>0, <2>1, <2>2, <2>3, StaysRowStep, OwnCourse
<1>5. CASE Publish(c)
  <2> DEFINE p == IF call[c].at = "toFrozen" THEN "frozen" ELSE "ready"
             to == [call[c].op EXCEPT !.phase = p]
  <2>1. p = "frozen" => call[c].op.phase = "freezing"
    BY <1>1 DEF OpShape
  <2>2. p = "ready" => call[c].op.phase = "preparing"
    BY <1>1, <1>5 DEF OpShape, Publish, Preparing
  <2>3. to \in Row /\ to.id = call[c].op.id /\ Lawful(to) /\ Leads(call[c].op, to)
        /\ to # call[c].op
    <3>1. to.phase = p
      BY <1>1 DEF Row
    <3>2. p \in {"frozen", "ready"}
      OBVIOUS
    <3> HIDE DEF p
    <3>3. to # call[c].op
      <4> HIDE DEF to
      <4>. QED BY <2>1, <2>2, <3>1, <3>2
    <3>. QED BY <1>1, <2>1, <2>2, <3>2, <3>3, PublishRow
  <2>4. nextId' = nextId
    BY <1>5 DEF Publish
  <2>5. CASE Swaps(c, to) /\ row' = to /\ Answer(c)
    <3>1. row = call[c].op
      BY <2>5 DEF Swaps
    <3>2. RowStep
      BY <1>1, <2>3, <2>4, <2>5, <3>1, NextIdNat DEF RowStep
    <3>. QED BY <1>0, <2>5, <3>2, AnswerTo, OwnCourse
  <2>6. CASE ~Swaps(c, to) /\ row' = row /\ Goto(c, "recheck")
    <3>1. row # call[c].op
      BY <2>3, <2>6 DEF Swaps
    <3>2. ASSUME row.id = call[c].op.id PROVE row.phase # call[c].op.phase
      <4>1. row # NoRow
        BY <1>1, <3>2 DEF NoRow, OpId
      <4>2. row \in Row /\ Lawful(row) /\ Leads(call[c].op, row)
        BY <1>0, <4>1, ShapeOf, CarriedRow DEF CourseInv
      <4>3. call[c].op.phase \in {"freezing", "preparing"}
        BY <2>1, <2>2
      <4>. QED BY <1>1, <3>1, <3>2, <4>2, <4>3, FirstRow
    <3>3. /\ call'[c].at = "recheck" /\ call'[c].op = call[c].op
          /\ \A d \in Caller \ {c} : call'[d] = call[d]
      BY <2>6, GotoTo
    <3>4. OpShape(call'[c])
      BY <2>1, <2>2, <3>3 DEF OpShape, InHold, Undoing, Preparing, Appends, Discards, Releases
    <3>5. Behind(call[c])'
      BY <2>6, <3>2, <3>3 DEF Behind, Undoing
    <3>. QED BY <1>0, <2>4, <2>6, <3>3, <3>4, <3>5, StaysRowStep, OwnCourse
  <2>. QED BY <1>5, <2>5, <2>6 DEF Publish
<1>. QED BY <1>2, <1>3, <1>4, <1>5 DEF HoldFor

LEMMA InsertCourse ==
  ASSUME TypeInv, TypeInv', CourseInv, NEW c \in Caller, Insert(c)
  PROVE  CourseInv' /\ RowStep
<1>1. CASE Answer(c) /\ UNCHANGED <<row, nextId>>
  <2>1. call'[c].at \notin Fetched /\ \A d \in Caller \ {c} : call'[d] = call[d]
    BY <1>1, AnswerTo
  <2>. QED BY <1>1, <2>1, StaysRowStep, CourseKept
<1>2. CASE /\ row = NoRow /\ nextId \in OpId /\ row' = NewRow(call[c].req) /\ nextId' = nextId + 1
           /\ call' = [call EXCEPT ![c].at = "close", ![c].op = row', ![c].after = "again"]
  <2> DEFINE k == [call[c] EXCEPT !.at = "close", !.op = row', !.after = "again"]
  <2>0. call[c] \in Call
    BY DEF TypeInv, CallsOK
  <2>1. call' = [call EXCEPT ![c] = k]
    BY <1>2 DEF TypeInv, CallsOK
  <2>2. k.at = "close" /\ k.op = row'
    BY <2>0 DEF Call
  <2>3. call'[c].at = "close" /\ call'[c].op = row' /\ \A d \in Caller \ {c} : call'[d] = call[d]
    <3> HIDE DEF k
    <3>. QED BY <2>1, <2>2, CallTo
  <2>4. row'.id = nextId /\ row' # NoRow /\ row' \in Row /\ row'.phase \in {"freezing", "preparing"}
        /\ Lawful(row')
    <3>1. /\ row'.id = nextId /\ row'.discard = NoDiscard
          /\ \/ row'.kind = "export" /\ row'.phase = "freezing" /\ row'.position = 0
             \/ row'.kind = "import" /\ row'.phase = "preparing" /\ row'.position = 1
      BY <1>2 DEF NewRow
    <3>2. row' # NoRow
      BY <1>2, <3>1 DEF OpId, NoRow
    <3>. QED BY <3>1, <3>2 DEF Lawful, TypeInv, RowTypeOK
  <2>5. RowStep
    <3>1. nextId' \in Nat /\ nextId < nextId'
      BY <1>2 DEF OpId
    <3>. QED BY <1>2, <2>4, <3>1, NextIdNat DEF RowStep
  <2>6. FactsOf(call[c])'
    <3>1. Leads(row', row') /\ row'.id < nextId'
      <4>1. row'.position \in Nat
        BY <2>4 DEF Row, Ended
      <4>. QED BY <1>2, <2>4, <4>1 DEF Leads, OpId
    <3>2. OpShape(call'[c]) /\ Behind(call[c])'
      BY <2>3, <2>4 DEF OpShape, Behind, InHold, Undoing, Preparing, Appends, Discards, Releases
    <3>. QED BY <2>3, <2>4, <3>1, <3>2 DEF FactsOf, Carried
  <2>. QED BY <2>3, <2>5, <2>6, CourseKept
<1>. QED BY <1>1, <1>2 DEF Insert

LEMMA ReleaseRow ==
  ASSUME NEW o \in Row, Lawful(o), o.phase # "releasing",
         o.phase = "ready" => o.position = Ended
  PROVE  LET to == [o EXCEPT !.phase = "releasing"]
         IN  to \in Row /\ to.id = o.id /\ Lawful(to) /\ Leads(o, to) /\ to.phase = "releasing"
<1> DEFINE to == [o EXCEPT !.phase = "releasing"]
<1>1. to \in Row /\ to.id = o.id /\ to.kind = o.kind /\ to.phase = "releasing"
      /\ to.position = o.position /\ to.discard = o.discard
  BY DEF Row, Phase
<1>2. o.kind \in {"export", "import"} /\ o.position \in Nat /\ o.phase \in Phase
  BY DEF Row, Ended
<1>3. o.phase = "discarding" => o.discard # NoDiscard
  BY DEF Lawful, NoDiscard
<1>4. Lawful(to)
  BY <1>1, <1>2, <1>3 DEF Lawful, Phase
<1>5. Leads(o, to)
  BY <1>1, <1>2, <1>3 DEF Leads
<1>. QED BY <1>1, <1>4, <1>5

LEMMA ReleaseCourse ==
  ASSUME TypeInv, TypeInv', CourseInv, NEW c \in Caller, ReleaseServer(c)
  PROVE  CourseInv' /\ RowStep
<1>0. call[c].at \in Fetched
  BY DEF ReleaseServer, ToReleasing, CloseCounters, DeleteRow, Thaw, Reopen,
         Fetched, Working, Steps
<1>1. /\ call[c].op \in Row /\ call[c].op.id \in OpId /\ call[c] \in Call
      /\ Lawful(call[c].op) /\ OpShape(call[c]) /\ Behind(call[c])
  BY <1>0, ShapeOf
<1>2. CASE ToReleasing(c)
  <2> DEFINE to == [call[c].op EXCEPT !.phase = "releasing"]
  <2>0. nextId' = nextId
    BY <1>2 DEF ToReleasing
  <2>1. CASE call[c].op.phase = "releasing" /\ Goto(c, "closeCounters") /\ row' = row
    <3>1. /\ call'[c].at = "closeCounters" /\ call'[c].op = call[c].op
          /\ \A d \in Caller \ {c} : call'[d] = call[d]
      BY <2>1, GotoTo
    <3>2. OpShape(call'[c]) /\ Behind(call[c])'
      BY <2>1, <3>1 DEF OpShape, Behind, InHold, Undoing, Preparing, Appends, Discards, Releases
    <3>. QED BY <1>0, <2>0, <2>1, <3>1, <3>2, StaysRowStep, OwnCourse
  <2>2. CASE /\ call[c].op.phase # "releasing" /\ Swaps(c, to) /\ row' = to
             /\ call' = [call EXCEPT ![c].at = "closeCounters", ![c].op = to]
    <3> DEFINE k == [call[c] EXCEPT !.at = "closeCounters", !.op = to]
    <3>1. to \in Row /\ to.id = call[c].op.id /\ Lawful(to) /\ Leads(call[c].op, to)
          /\ to.phase = "releasing"
      BY <1>1, <1>2, <2>2, ReleaseRow DEF OpShape, ToReleasing
    <3>2. RowStep
      BY <1>1, <2>0, <2>2, <3>1, NextIdNat DEF RowStep, Swaps
    <3>3. /\ call'[c].at = "closeCounters" /\ call'[c].op = row'
          /\ \A d \in Caller \ {c} : call'[d] = call[d]
      <4>1. call' = [call EXCEPT ![c] = k]
        BY <2>2 DEF TypeInv, CallsOK
      <4>2. k.at = "closeCounters" /\ k.op = to
        BY <1>1 DEF Call
      <4> HIDE DEF k
      <4>. QED BY <2>2, <4>1, <4>2, CallTo
    <3>4. FactsOf(call[c])'
      <4>1. row' # NoRow /\ row'.id < nextId' /\ row'.position \in Nat
        BY <1>0, <2>0, <2>2, <3>1, ShapeOf, NoRowNotRow DEF Row, Ended
      <4>2. Leads(row', row')
        BY <2>2, <3>1, <4>1 DEF Leads
      <4>3. OpShape(call'[c]) /\ Behind(call[c])'
        BY <2>2, <3>1, <3>3 DEF OpShape, Behind, InHold, Undoing, Preparing, Appends, Discards, Releases
      <4>. QED BY <2>2, <3>1, <3>3, <4>1, <4>2, <4>3 DEF FactsOf, Carried
    <3>. QED BY <1>0, <3>2, <3>3, <3>4, OwnCourse
  <2>3. CASE (Answer(c) \/ Conflict(c)) /\ row' = row
    BY <1>0, <2>0, <2>3, AnswerTo, StaysRowStep, OwnCourse
  <2>. QED BY <1>2, <2>1, <2>2, <2>3 DEF ToReleasing
<1>3. CASE CloseCounters(c) \/ DeleteRow(c) \/ Thaw(c)
  <2>1. RowStep
    <3>1. nextId' = nextId /\ (row' = row \/ row' = NoRow)
      BY <1>3 DEF CloseCounters, DeleteRow, Thaw
    <3>. QED BY <3>1, NextIdNat DEF RowStep
  <2>2. /\ call[c].at \in Releases /\ call'[c].at \in Releases /\ call'[c].op = call[c].op
        /\ \A d \in Caller \ {c} : call'[d] = call[d]
    BY <1>3, GotoTo DEF CloseCounters, DeleteRow, Thaw, Releases
  <2>3. OpShape(call'[c]) /\ Behind(call[c])'
    BY <1>1, <2>2 DEF OpShape, Behind, InHold, Undoing, Preparing, Appends, Discards, Releases
  <2>. QED BY <1>0, <2>1, <2>2, <2>3, OwnCourse
<1>4. CASE Reopen(c)
  <2>1. call'[c].at \notin Fetched /\ \A d \in Caller \ {c} : call'[d] = call[d]
    <3>1. CASE Answer(c)
      BY <3>1, AnswerTo
    <3>2. CASE /\ call' = [call EXCEPT ![c].at = call[c].after, ![c].op = NoRow]
               /\ call[c].after # "release"
      <4> DEFINE k == [call[c] EXCEPT !.at = call[c].after, !.op = NoRow]
      <4>1. call' = [call EXCEPT ![c] = k]
        BY <3>2 DEF TypeInv, CallsOK
      <4>2. k.at = call[c].after
        BY <1>1 DEF Call
      <4>3. call[c].after \in {"reread", "insert"}
        <5>1. call[c].after \in {"release", "again", "reread", "insert"}
          BY <1>1 DEF Call
        <5>2. call[c].after = "again" => call[c].at \in InHold
          BY DEF TypeInv, CallsOK, Shape
        <5>. QED BY <1>4, <3>2, <5>1, <5>2 DEF Reopen, InHold
      <4>4. call'[c] = k /\ \A d \in Caller \ {c} : call'[d] = call[d]
        <5> HIDE DEF k
        <5>. QED BY <4>1, CallTo
      <4>. QED BY <4>2, <4>3, <4>4 DEF Fetched
    <3>. QED BY <1>4, <3>1, <3>2 DEF Reopen
  <2>2. RowStep
    BY <1>4, StaysRowStep DEF Reopen
  <2>. QED BY <1>0, <2>1, <2>2, OwnCourse
<1>. QED BY <1>2, <1>3, <1>4 DEF ReleaseServer

LEMMA ReadyRow ==
  ASSUME NEW o \in Row, Lawful(o), o.phase = "ready"
  PROVE  /\ \A n \in 1 .. Ended : n > o.position =>
              LET to == [o EXCEPT !.position = n]
              IN  to \in Row /\ to.id = o.id /\ Lawful(to) /\ Leads(o, to)
         /\ LET to == Discarding(o, FirstDiscard)
            IN  /\ to \in Row /\ to.id = o.id /\ Lawful(to) /\ Leads(o, to)
                /\ to.discard # NoDiscard
<1>0. o.kind = "import" /\ o.position \in Nat
  BY DEF Row, Lawful, Ended
<1>1. ASSUME NEW n \in 1 .. Ended, n > o.position
      PROVE  LET to == [o EXCEPT !.position = n]
             IN  to \in Row /\ to.id = o.id /\ Lawful(to) /\ Leads(o, to)
  <2> DEFINE to == [o EXCEPT !.position = n]
  <2>1. /\ to \in Row /\ to.id = o.id /\ to.kind = o.kind /\ to.phase = o.phase
        /\ to.position = n /\ to.discard = o.discard
    BY DEF Row, Ended
  <2>2. n \in Nat /\ n >= 1
    BY DEF Ended
  <2>3. Lawful(to) /\ Leads(o, to)
    <3> HIDE DEF to
    <3>. QED BY <1>0, <1>1, <2>1, <2>2 DEF Lawful, Leads
  <2>. QED BY <2>1, <2>3
<1>2. LET to == Discarding(o, FirstDiscard)
      IN  /\ to \in Row /\ to.id = o.id /\ Lawful(to) /\ Leads(o, to)
          /\ to.discard # NoDiscard
  <2> DEFINE to == Discarding(o, FirstDiscard)
  <2>1. FirstDiscard \in Discard /\ FirstDiscard.step = 1 /\ NoDiscard.step = 0
    BY DEF FirstDiscard, Discard, NoDiscard
  <2>2. /\ to \in Row /\ to.id = o.id /\ to.kind = o.kind /\ to.phase = "discarding"
        /\ to.position = o.position /\ to.discard = FirstDiscard
    BY <2>1 DEF Row, Discarding, Phase
  <2>3. Lawful(to) /\ Leads(o, to) /\ to.discard # NoDiscard
    <3> HIDE DEF to
    <3>. QED BY <1>0, <2>1, <2>2 DEF Lawful, Leads
  <2>. QED BY <2>2, <2>3
<1>. QED BY <1>1, <1>2

LEMMA DiscardingRow ==
  ASSUME NEW o \in Row, Lawful(o), o.phase = "discarding", NEW d \in Discard, d.step >= 1
  PROVE  LET to == Discarding(o, d)
         IN  to \in Row /\ to.id = o.id /\ Lawful(to) /\ Leads(o, to)
<1> DEFINE to == Discarding(o, d)
<1>0. o.kind = "import" /\ o.position \in Nat
  BY DEF Row, Lawful, Ended
<1>1. NoDiscard.step = 0
  BY DEF NoDiscard
<1>2. /\ to \in Row /\ to.id = o.id /\ to.kind = o.kind /\ to.phase = "discarding"
      /\ to.position = o.position /\ to.discard = d
  BY DEF Row, Discarding, Phase
<1>3. Lawful(to) /\ Leads(o, to)
  <2> HIDE DEF to
  <2>. QED BY <1>0, <1>1, <1>2 DEF Lawful, Leads
<1>. QED BY <1>2, <1>3

LEMMA RestoreCourse ==
  ASSUME TypeInv, TypeInv', CourseInv, NEW c \in Caller, Restore(c)
  PROVE  CourseInv' /\ RowStep
<1>0. call[c].at \in Fetched
  BY DEF Restore, BeginImport, CheckEmpty, ChooseChunk, CheckAppend, WriteOutside,
         CommitAppend, Fetched, Working, Steps
<1>1. /\ call[c].op \in Row /\ call[c].op.id \in OpId /\ call[c] \in Call
      /\ Lawful(call[c].op) /\ OpShape(call[c]) /\ Behind(call[c])
  BY <1>0, ShapeOf
<1>2. CASE BeginImport(c) \/ CheckEmpty(c)
  <2>1. /\ call[c].at \in Preparing /\ call'[c].at \in Preparing \cup {"toReleasing"}
        /\ call'[c].op = call[c].op /\ \A d \in Caller \ {c} : call'[d] = call[d]
    <3>1. CheckEmpty(c) => Goto(c, "toReleasing") \/ Goto(c, "toReady")
      BY DEF CheckEmpty
    <3>. QED BY <1>2, <3>1, GotoTo DEF BeginImport, CheckEmpty, Preparing
  <2>2. OpShape(call'[c]) /\ Behind(call[c])'
    BY <1>1, <2>1 DEF OpShape, Behind, InHold, Undoing, Preparing, Appends, Discards, Releases
  <2>3. RowStep
    BY <1>2, StaysRowStep DEF BeginImport, CheckEmpty
  <2>. QED BY <1>0, <2>1, <2>2, <2>3, OwnCourse
<1>3. CASE ChooseChunk(c)
  <2>1. PICK n \in ChunkSizes :
          LET from == call[c].op.position
              to == Least(from + n, Ended)
          IN call' = [call EXCEPT ![c].at = "append",
                        ![c].plan = [to |-> to, left |-> Chunk(from, to) \cap Outside]]
    BY <1>3 DEF ChooseChunk
  <2> DEFINE to == Least(call[c].op.position + n, Ended)
             p == [to |-> to, left |-> Chunk(call[c].op.position, to) \cap Outside]
             k == [call[c] EXCEPT !.at = "append", !.plan = p]
  <2>2. call' = [call EXCEPT ![c] = k]
    BY <2>1 DEF TypeInv, CallsOK
  <2>3. k.at = "append" /\ k.op = call[c].op /\ k.plan.to = to
    BY <1>1 DEF Call
  <2>4. call'[c] = k /\ \A d \in Caller \ {c} : call'[d] = call[d]
    <3> HIDE DEF k
    <3>. QED BY <2>2, CallTo
  <2>5. to > call[c].op.position
    <3>1. n \in Nat \ {0}
      BY ConstantsAssumption
    <3>2. call[c].op.position < Ended
      BY <1>1, <1>3 DEF ChooseChunk, OpShape
    <3>3. call[c].op.position \in Nat
      BY <1>1 DEF Row, Ended
    <3>. QED BY <3>1, <3>2, <3>3 DEF Least, Ended
  <2>6. OpShape(call'[c]) /\ Behind(call[c])'
    <3> HIDE DEF k, to
    <3>. QED BY <1>1, <1>3, <2>3, <2>4, <2>5 DEF ChooseChunk, OpShape, Behind, InHold, Undoing,
                Preparing, Appends, Discards, Releases
  <2>7. RowStep
    BY <1>3, StaysRowStep DEF ChooseChunk
  <2> HIDE DEF k
  <2>. QED BY <1>0, <2>3, <2>4, <2>6, <2>7, OwnCourse
<1>4. CASE CheckAppend(c) \/ WriteOutside(c)
  <2>1. /\ call[c].at \in {"append", "write"}
        /\ \A d \in Caller \ {c} : call'[d] = call[d]
        /\ call'[c].at \in Fetched => /\ call'[c].at \in {"append", "write", "commit"}
                                      /\ call'[c].op = call[c].op
                                      /\ call'[c].plan.to = call[c].plan.to
    <3>1. CASE CheckAppend(c)
      <4>1. Answer(c) \/ Goto(c, "commit") \/ Goto(c, "write")
        BY <3>1 DEF CheckAppend
      <4>. QED BY <3>1, <4>1, AnswerTo, GotoTo DEF CheckAppend
    <3>2. CASE WriteOutside(c)
      <4> DEFINE l == call[c].plan.left \ {NextOutside(call[c].plan.left)}
                 k == [call[c] EXCEPT !.at = "append", !.plan.left = l]
      <4>1. Conflict(c) \/ call' = [call EXCEPT ![c].at = "append", ![c].plan.left = l]
        BY <3>2 DEF WriteOutside
      <4>2. CASE call' = [call EXCEPT ![c].at = "append", ![c].plan.left = l]
        <5>1. call' = [call EXCEPT ![c] = k]
          BY <4>2 DEF TypeInv, CallsOK
        <5>2. call[c].plan \in Appending
          BY <3>2 DEF WriteOutside, TypeInv, CallsOK, Shape
        <5>3. k.at = "append" /\ k.op = call[c].op /\ k.plan.to = call[c].plan.to
          BY <1>1, <5>2 DEF Call, Appending
        <5> HIDE DEF k
        <5>. QED BY <3>2, <5>1, <5>3, CallTo DEF WriteOutside
      <4>. QED BY <3>2, <4>1, <4>2, AnswerTo DEF WriteOutside
    <3>. QED BY <1>4, <3>1, <3>2
  <2>2. call'[c].at \in Fetched => OpShape(call'[c]) /\ Behind(call[c])'
    BY <1>1, <2>1 DEF OpShape, Behind, InHold, Undoing, Preparing, Appends, Discards, Releases
  <2>3. RowStep
    BY <1>4, StaysRowStep DEF CheckAppend, WriteOutside
  <2>. QED BY <1>0, <2>1, <2>2, <2>3, OwnCourse
<1>5. CASE CommitAppend(c)
  <2>1. RowStep
    <3>1. nextId' = nextId
      BY <1>5 DEF CommitAppend
    <3>2. CASE row = call[c].op /\ row' = [row EXCEPT !.position = call[c].plan.to]
      <4>1. /\ call[c].plan.to \in 1 .. Ended /\ call[c].plan.to > call[c].op.position
            /\ call[c].op.phase = "ready"
        BY <1>1, <1>5 DEF CommitAppend, TypeInv, CallsOK, Shape, Appending, OpShape, Appends
      <4>2. row' \in Row /\ row'.id = row.id /\ Lawful(row') /\ Leads(row, row')
        BY <1>1, <3>2, <4>1, ReadyRow
      <4>. QED BY <1>1, <3>1, <3>2, <4>2, NextIdNat DEF RowStep
    <3>3. CASE row' = row
      BY <3>1, <3>3, StaysRowStep
    <3>. QED BY <1>5, <3>2, <3>3 DEF CommitAppend, Fenced
  <2>. QED BY <1>0, <1>5, <2>1, AnswerTo, OwnCourse DEF CommitAppend
<1>. QED BY <1>2, <1>3, <1>4, <1>5 DEF Restore

LEMMA SaveTo ==
  ASSUME TypeInv, NEW c \in Caller, NEW p, Save(c, p)
  PROVE  /\ call'[c].at = "save" /\ call'[c].op = call[c].op /\ call'[c].plan = p
         /\ \A d \in Caller \ {c} : call'[d] = call[d]
<1> DEFINE k == [call[c] EXCEPT !.at = "save", !.plan = p]
<1>1. call' = [call EXCEPT ![c] = k]
  BY DEF Save, TypeInv, CallsOK
<1>2. k.at = "save" /\ k.op = call[c].op /\ k.plan = p
  BY DEF TypeInv, CallsOK, Call
<1> HIDE DEF k
<1>. QED BY <1>1, <1>2, CallTo

\* The progress that a discard saves has begun.
LEMMA ProgressSteps ==
  ASSUME NEW d \in Discard, d.step >= 1
  PROVE  /\ RecordTemplates(d).step >= 1 /\ Restart(d).step >= 1
         /\ NextStep(d).step >= 1 /\ Wiped(d).step >= 1
<1>1. RecordTemplates(d).step = d.step /\ [d EXCEPT !.cleaned = TRUE].step = d.step
  BY DEF RecordTemplates, Discard
<1>2. Restart(d).step = 1
  BY DEF Restart, FirstDiscard
<1>3. NextStep(d).step >= 1
  BY DEF NextStep, Discard
<1>. QED BY <1>1, <1>2, <1>3 DEF Wiped

\* The steps of a discard that only read the row.
LEMMA DiscardAt ==
  ASSUME NEW c \in Caller
  PROVE  /\ DiscardOne(c) => call[c].at = "discard" /\ UNCHANGED <<row, nextId, outcome, lease, stores, holds>>
         /\ Wipe(c) => call[c].at = "wipe" /\ UNCHANGED <<row, nextId, outcome, lease, counterState, holds>>
         /\ VerifyBackfill(c) => /\ call[c].at = "verifyBackfill"
                                 /\ UNCHANGED <<row, nextId, outcome, lease, stores, holds>>
<1>1. DiscardOne(c) => call[c].at = "discard" /\ UNCHANGED <<row, nextId, outcome, lease, stores, holds>>
  BY Zenon DEF DiscardOne
<1>2. Wipe(c) => call[c].at = "wipe" /\ UNCHANGED <<row, nextId, outcome, lease, counterState, holds>>
  BY Zenon DEF Wipe
<1>3. VerifyBackfill(c) => /\ call[c].at = "verifyBackfill"
                           /\ UNCHANGED <<row, nextId, outcome, lease, stores, holds>>
  BY Zenon DEF VerifyBackfill
<1>. QED BY <1>1, <1>2, <1>3

LEMMA DiscardChoice ==
  ASSUME NEW c \in Caller, DiscardOne(c)
  PROVE  LET d == call[c].op.discard
         IN  \/ \E e \in {RecordTemplates(d), Restart(d), NextStep(d)} : Save(c, e)
             \/ \E s \in {"wipe", "verifyBackfill"} : UnlessLate(c, s)
             \/ Goto(c, "toReleasing")
  BY DEF DiscardOne

\* Where a step of a discard leads.
LEMMA DiscardTo ==
  ASSUME TypeInv, NEW c \in Caller, call[c].op \in Row, call[c].op.discard.step >= 1,
         DiscardOne(c) \/ Wipe(c) \/ VerifyBackfill(c)
  PROVE  /\ call[c].at \in {"discard", "wipe", "verifyBackfill"}
         /\ \A d \in Caller \ {c} : call'[d] = call[d]
         /\ call'[c].at \in Fetched =>
              /\ call'[c].at \in {"save", "wipe", "verifyBackfill", "toReleasing"}
              /\ call'[c].op = call[c].op
              /\ call'[c].at = "save" => call'[c].plan.step >= 1
<1> DEFINE d == call[c].op.discard
<1>1. d \in Discard
  BY RowFields
<1>2. /\ RecordTemplates(d).step >= 1 /\ Restart(d).step >= 1
      /\ NextStep(d).step >= 1 /\ Wiped(d).step >= 1
  BY <1>1, ProgressSteps
<1>3. \/ Answer(c) \/ Conflict(c) \/ Goto(c, "toReleasing")
      \/ \E e \in {RecordTemplates(d), Restart(d), NextStep(d), Wiped(d), d} : Save(c, e)
      \/ \E s \in {"wipe", "verifyBackfill"} : Goto(c, s)
  <2>1. CASE DiscardOne(c)
    BY <2>1, DiscardChoice DEF UnlessLate
  <2>2. CASE Wipe(c)
    BY <2>2 DEF Wipe
  <2>3. CASE VerifyBackfill(c)
    BY <2>3 DEF VerifyBackfill
  <2>. QED BY <2>1, <2>2, <2>3
<1>4. call[c].at \in {"discard", "wipe", "verifyBackfill"}
  BY DiscardAt
<1>5. CASE Answer(c) \/ Conflict(c)
  BY <1>4, <1>5, AnswerTo
<1>6. ASSUME NEW e \in {RecordTemplates(d), Restart(d), NextStep(d), Wiped(d), d}, Save(c, e)
      PROVE  /\ call'[c].at = "save" /\ call'[c].op = call[c].op /\ call'[c].plan.step >= 1
             /\ \A i \in Caller \ {c} : call'[i] = call[i]
  <2>1. e.step >= 1
    BY <1>2
  <2> HIDE DEF d
  <2>. QED BY <1>6, <2>1, SaveTo
<1>7. ASSUME NEW s \in {"wipe", "verifyBackfill", "toReleasing"}, Goto(c, s)
      PROVE  /\ call'[c].at = s /\ call'[c].op = call[c].op
             /\ \A i \in Caller \ {c} : call'[i] = call[i]
  BY <1>7, GotoTo
<1> HIDE DEF d
<1>. QED BY <1>3, <1>4, <1>5, <1>6, <1>7

LEMMA DiscardCourse ==
  ASSUME TypeInv, TypeInv', CourseInv, NEW c \in Caller, DiscardRestore(c)
  PROVE  CourseInv' /\ RowStep
<1>0. call[c].at \in Fetched
  BY DiscardAt DEF DiscardRestore, Claim, Revoke, SaveProgress, Fetched, Working, Steps
<1>1. /\ call[c].op \in Row /\ call[c].op.id \in OpId /\ call[c] \in Call
      /\ Lawful(call[c].op) /\ OpShape(call[c]) /\ Behind(call[c])
  BY <1>0, ShapeOf
<1>2. CASE Claim(c)
  <2> DEFINE to == Discarding(call[c].op, FirstDiscard)
  <2>1. call[c].op.phase = "ready" /\ nextId' = nextId
    BY <1>1, <1>2 DEF OpShape, Claim
  <2>2. /\ to \in Row /\ to.id = call[c].op.id /\ Lawful(to) /\ Leads(call[c].op, to)
        /\ to.discard # NoDiscard
    BY <1>1, <2>1, ReadyRow
  <2>3. CASE Swaps(c, to) /\ row' = to /\ Goto(c, "revokeClaimed")
    <3>1. RowStep
      BY <1>1, <2>1, <2>2, <2>3, NextIdNat DEF RowStep, Swaps
    <3>2. /\ call'[c].at = "revokeClaimed" /\ call'[c].op = call[c].op
          /\ \A d \in Caller \ {c} : call'[d] = call[d]
      BY <2>3, GotoTo
    <3>3. OpShape(call'[c])
      BY <2>1, <3>2 DEF OpShape, InHold, Undoing, Preparing, Appends, Discards, Releases
    <3>4. Behind(call[c])'
      BY <2>2, <2>3, <3>2 DEF Behind, Undoing
    <3>. QED BY <1>0, <3>1, <3>2, <3>3, <3>4, OwnCourse
  <2>4. CASE row' = row /\ Conflict(c)
    BY <1>0, <2>1, <2>4, AnswerTo, StaysRowStep, OwnCourse
  <2>. QED BY <1>2, <2>3, <2>4 DEF Claim
<1>3. CASE Revoke(c)
  <2>1. RowStep
    BY <1>3, StaysRowStep DEF Revoke
  <2>2. CASE call[c].at = "revoke" /\ Goto(c, "discard")
    <3>1. /\ call'[c].at = "discard" /\ call'[c].op = call[c].op
          /\ \A d \in Caller \ {c} : call'[d] = call[d]
      BY <2>2, GotoTo
    <3>2. OpShape(call'[c]) /\ Behind(call[c])'
      BY <1>1, <2>2, <3>1 DEF OpShape, Behind, InHold, Undoing, Preparing, Appends, Discards, Releases
    <3>. QED BY <1>0, <2>1, <3>1, <3>2, OwnCourse
  <2>3. CASE Answer(c)
    BY <1>0, <2>1, <2>3, AnswerTo, OwnCourse
  <2>. QED BY <1>3, <2>2, <2>3 DEF Revoke
<1>4. CASE DiscardOne(c) \/ Wipe(c) \/ VerifyBackfill(c)
  <2>1. call[c].op.phase = "discarding" /\ call[c].op.discard.step >= 1
    BY <1>1, <1>4, DiscardAt DEF OpShape, Discards, Lawful
  <2>2. /\ \A d \in Caller \ {c} : call'[d] = call[d]
        /\ call'[c].at \in Fetched =>
             /\ call'[c].at \in {"save", "wipe", "verifyBackfill", "toReleasing"}
             /\ call'[c].op = call[c].op
             /\ call'[c].at = "save" => call'[c].plan.step >= 1
    BY <1>1, <1>4, <2>1, DiscardTo
  <2>3. call'[c].at \in Fetched => OpShape(call'[c]) /\ Behind(call[c])'
    BY <2>1, <2>2 DEF OpShape, Behind, InHold, Undoing, Preparing, Appends, Discards, Releases
  <2>4. RowStep
    BY <1>4, DiscardAt, StaysRowStep
  <2>. QED BY <1>0, <2>2, <2>3, <2>4, OwnCourse
<1>5. CASE SaveProgress(c)
  <2> DEFINE to == Discarding(call[c].op, call[c].plan)
  <2>1. /\ call[c].op.phase = "discarding" /\ nextId' = nextId
        /\ call[c].plan \in Discard /\ call[c].plan.step >= 1
    BY <1>1, <1>5 DEF OpShape, Discards, SaveProgress, TypeInv, CallsOK, Shape
  <2>2. to \in Row /\ to.id = call[c].op.id /\ Lawful(to) /\ Leads(call[c].op, to)
    BY <1>1, <2>1, DiscardingRow
  <2>3. CASE Swaps(c, to) /\ row' = to /\ Answer(c)
    <3>1. RowStep
      BY <1>1, <2>1, <2>2, <2>3, NextIdNat DEF RowStep, Swaps
    <3>. QED BY <1>0, <2>3, <3>1, AnswerTo, OwnCourse
  <2>4. CASE row' = row /\ Conflict(c)
    BY <1>0, <2>1, <2>4, AnswerTo, StaysRowStep, OwnCourse
  <2>. QED BY <1>5, <2>3, <2>4 DEF SaveProgress
<1>. QED BY <1>2, <1>3, <1>4, <1>5 DEF DiscardRestore

\* What time, ordinary writers and faults leave of the requests.
LEMMA OutsideCalls ==
  ASSUME TypeInv, Age \/ Write \/ RecordOrFlush \/ Faulty, NEW d \in Caller
  PROVE  \/ call'[d].at = call[d].at /\ call'[d].op = call[d].op /\ call'[d].plan = call[d].plan
         \/ call'[d].at \in {"idle", "release"}
<1>0. call[d] \in Call
  BY DEF TypeInv, CallsOK
<1>1. CASE CommitRow \/ CommitRecord
  <2>1. PICK s \in {"freeze", "verifyHold"} : Drained(s)
    BY <1>1 DEF CommitRow, CommitRecord
  <2>2. call'[d] = [call[d] EXCEPT !.drain = @ /\ call[d].at # s]
    BY <2>1 DEF Drained
  <2>. QED BY <1>0, <2>2 DEF Call
<1>2. CASE CountersRestart \/ ProcessRestart
  <2>1. [Idle EXCEPT !.at = "release"].at = "release" /\ Idle.at = "idle"
    BY DEF Idle
  <2>. QED BY <1>2, <2>1, Zenon DEF CountersRestart, ProcessRestart
<1>3. ASSUME NEW c \in Caller, CallFails(c) \/ IsolateCrash(c)
      PROVE  call'[d] = call[d] \/ call'[d].at \in {"idle", "release"}
  <2>1. Answer(c) \/ call' = [call EXCEPT ![c] = Idle]
    BY <1>3 DEF CallFails, IsolateCrash
  <2>2. [Idle EXCEPT !.at = "release"].at = "release" /\ Idle.at = "idle"
    BY DEF Idle
  <2>3. d = c => call'[d] = Idle \/ call'[d] = [Idle EXCEPT !.at = "release"]
    BY <2>1 DEF Answer, TypeInv, CallsOK
  <2>. QED BY <2>1, <2>2, <2>3, AnswerTo
<1>4. CASE UNCHANGED call
  BY <1>4
<1>. QED BY <1>1, <1>2, <1>3, <1>4 DEF Age, Write, AdmitRow, RecordOrFlush, StartRecord,
              ObserveFreezes, CheckGate, ThawStale, Faulty

LEMMA OutsideCourse ==
  ASSUME TypeInv, TypeInv', CourseInv, Age \/ Write \/ RecordOrFlush \/ Faulty
  PROVE  CourseInv' /\ RowStep
<1>1. UNCHANGED <<row, nextId>>
  BY DEF Age, Write, AdmitRow, CommitRow, RecordOrFlush, StartRecord, ObserveFreezes, CheckGate,
         ThawStale, CommitRecord, Faulty, CallFails, IsolateCrash, CountersRestart, ProcessRestart
<1>2. RowStep
  BY <1>1, StaysRowStep
<1>. QED BY <1>2, OutsideCalls, CourseKept DEF Fetched, Working

\* A step of the lifecycle keeps the course, and does no more to the row.
LEMMA NextCourse ==
  ASSUME TypeInv, TypeInv', CourseInv, [Next]_vars
  PROVE  CourseInv' /\ RowStep
<1>1. CASE UNCHANGED vars
  BY <1>1, StaysRowStep, CourseKept DEF vars
<1>2. ASSUME NEW c \in Caller, (\E r \in Requests : Acquire(c, r)) \/ Proceed(c)
      PROVE  CourseInv' /\ RowStep
  BY <1>2, RequestCourse, InsertCourse, HoldCourse, ReleaseCourse, RestoreCourse,
     DiscardCourse DEF Proceed
<1>. QED BY <1>1, <1>2, OutsideCourse DEF Next

LEMMA CourseInvariant == Spec => []CourseInv
<1>1. Init => CourseInv
  BY DEF Init, CourseInv, Idle, Fetched, Working
<1>2. TypeInv /\ TypeInv' /\ CourseInv /\ [Next]_vars => CourseInv'
  BY NextCourse
<1>. QED BY <1>1, <1>2, TypeInvariant, PTL DEF Spec

(***************************************************************************)
(* HoldsCoverOperation and AdmittedWritesDrained.  A hold is put in place   *)
(* piece by piece, each piece before its drain, and nothing takes a piece  *)
(* away from an operation that still holds: what undoes a freeze found the *)
(* operation gone or being released, and what cleans stale freezes found   *)
(* no operation at all.                                                    *)
(***************************************************************************)
RowHolds(i) == row.id = i /\ row.phase \in Holding
Covers(i) == i \in freezeDb /\ i \in freezeMem /\ (Portable => i \in closedBy)
RowsQuiet == Portable => rowWriter = "idle"
Quiet == RowsQuiet /\ recorder.step # "writing"

\* How far a request has come with the hold of an operation that still holds.
Stopped(k) ==
    RowHolds(k.op.id) =>
    /\ k.at = "freeze" => /\ Portable => k.op.id \in closedBy
                          /\ k.drain \/ RowsQuiet
    /\ k.at = "freezeDurably" => /\ Portable => k.op.id \in closedBy
                                 /\ k.op.id \in freezeMem /\ RowsQuiet
    /\ k.at = "verifyHold" => /\ Covers(k.op.id) /\ RowsQuiet
                              /\ k.drain \/ recorder.step # "writing"
    /\ k.at \in Preparing \cup {"toFrozen"} => Covers(k.op.id) /\ Quiet

HoldInv ==
    /\ Held => Covers(row.id) /\ Quiet
    /\ \A c \in Caller : call[c].at \in Fetched => Stopped(call[c])
    /\ \A i \in freezeDb \cup recorder.seen : i < nextId
    /\ recorder.step = "thaw" => \A i \in recorder.seen : ~RowHolds(i)

LEMMA HoldsBefore ==
  ASSUME TypeInv, CourseInv, RowStep, NEW i \in OpId, i < nextId, RowHolds(i)'
  PROVE  RowHolds(i)
<1>1. row' # NoRow /\ row'.id = i /\ row'.phase \in Holding
  BY DEF RowHolds, NoRow, OpId
<1>2. row'.id # nextId
  BY <1>1, NextIdNat DEF OpId
<1>3. CASE row' = row
  BY <1>1, <1>3 DEF RowHolds
<1>4. CASE row \in Row /\ row' \in Row /\ row'.id = row.id /\ Leads(row, row')
  <2>1. row.phase = "releasing" => row' = row
    BY <1>4 DEF Leads
  <2>2. row.phase \in Phase
    BY <1>4 DEF Row
  <2>. QED BY <1>1, <1>4, <2>1, <2>2 DEF RowHolds, Holding
<1>. QED BY <1>1, <1>2, <1>3, <1>4 DEF RowStep

\* What no step takes away from an operation that holds.
KeepsHolds ==
    /\ \A i \in OpId : RowHolds(i) =>
         /\ i \in freezeDb => i \in freezeDb'
         /\ i \in closedBy => i \in closedBy'
         /\ i \in freezeMem => \/ i \in freezeMem'
                               \/ /\ i \in freezeDb => i \in freezeMem'
                                  /\ \A d \in Caller : call'[d].at # "freezeDurably"
    /\ rowWriter' = rowWriter \/ rowWriter' = "idle" \/ closedBy = {}
    /\ recorder'.step = "writing" => recorder.step = "writing" \/ freezeMem = {}
    /\ \A i \in freezeDb' \cup recorder'.seen : i < nextId'
    /\ recorder'.step = "thaw" => \A i \in recorder'.seen : ~RowHolds(i)'

\* What a step leaves of a request that it does not advance.
KeepsPlace(d) ==
    /\ call'[d].at = call[d].at /\ call'[d].op = call[d].op
    /\ \/ call'[d].drain = call[d].drain
       \/ /\ call[d].at = "freeze" => rowWriter' = "idle"
          /\ call[d].at = "verifyHold" => recorder'.step # "writing"

LEMMA HoldKept ==
  ASSUME TypeInv, CourseInv, HoldInv, RowStep, KeepsHolds,
         Held' => Held \/ (Covers(row'.id) /\ Quiet),
         \A d \in Caller : call'[d].at \in Fetched => KeepsPlace(d) \/ Stopped(call[d])'
  PROVE  HoldInv'
<1>1. ASSUME NEW i \in OpId, RowHolds(i)
      PROVE  /\ Covers(i) => Covers(i)'
             /\ (Portable => i \in closedBy) /\ RowsQuiet => RowsQuiet'
             /\ Covers(i) /\ recorder.step # "writing" => recorder'.step # "writing"
  <2>1. Covers(i) => Covers(i)'
    BY <1>1 DEF KeepsHolds, Covers
  <2>2. (Portable => i \in closedBy) /\ RowsQuiet => RowsQuiet'
    BY <1>1 DEF KeepsHolds, RowsQuiet
  <2>3. Covers(i) /\ recorder.step # "writing" => recorder'.step # "writing"
    BY <1>1 DEF KeepsHolds, Covers
  <2>. QED BY <2>1, <2>2, <2>3
<1>0. \A i \in OpId : i < nextId /\ row'.id = i /\ row'.phase \in Holding => RowHolds(i)
  BY HoldsBefore DEF RowHolds
<1>2. Held' => Covers(row.id)' /\ Quiet'
  <2> SUFFICES ASSUME Held' PROVE Covers(row.id)' /\ Quiet'
    OBVIOUS
  <2>0. row' # NoRow /\ row'.phase \in Holding
    BY DEF Held, Holding, Phase
  <2>1. row'.id \in OpId /\ row'.id < nextId /\ Covers(row'.id) /\ Quiet
    <3>1. CASE Held
      <4>1. row # NoRow /\ row.id \in OpId /\ row.id < nextId
        BY <3>1 DEF Held, TypeInv, RowTypeOK, Row, CourseInv
      <4>2. row'.id = row.id
        BY <2>0, <4>1 DEF RowStep
      <4>. QED BY <3>1, <4>1, <4>2 DEF HoldInv
    <3>2. CASE Covers(row'.id) /\ Quiet
      BY <3>2 DEF HoldInv, Covers, TypeInv, HoldTypeOK
    <3>. QED BY <3>1, <3>2
  <2>2. RowHolds(row'.id)
    BY <1>0, <2>0, <2>1
  <2>3. /\ Covers(row.id)'
        /\ RowsQuiet => RowsQuiet'
        /\ recorder.step # "writing" => recorder'.step # "writing"
    BY <1>1, <2>1, <2>2 DEF Covers
  <2>. QED BY <2>1, <2>3 DEF Quiet
<1>3. ASSUME NEW d \in Caller, call'[d].at \in Fetched PROVE Stopped(call[d])'
  <2> SUFFICES ASSUME KeepsPlace(d), RowHolds(call[d].op.id)' PROVE Stopped(call[d])'
    BY <1>3 DEF Stopped
  <2> DEFINE i == call[d].op.id
  <2>1. call[d].at \in Fetched /\ i \in OpId /\ i < nextId /\ call'[d].op.id = i
    BY <1>3, ShapeOf DEF KeepsPlace
  <2>2. RowHolds(i)
    BY <1>0, <2>1 DEF RowHolds
  <2>3. Stopped(call[d])
    BY <2>1 DEF HoldInv
  <2>4. call[d].at = "freezeDurably" /\ i \in freezeMem => i \in freezeMem'
    BY <2>1, <2>2 DEF KeepsHolds, KeepsPlace
  <2>5. i \in closedBy => i \in closedBy'
    BY <2>1, <2>2 DEF KeepsHolds
  <2>6. CASE call[d].at = "freeze"
    BY <1>1, <2>1, <2>2, <2>3, <2>5, <2>6 DEF Stopped, KeepsPlace, Preparing, RowsQuiet
  <2>7. CASE call[d].at = "freezeDurably"
    BY <1>1, <2>1, <2>2, <2>3, <2>4, <2>5, <2>7 DEF Stopped, KeepsPlace, Preparing
  <2>8. CASE call[d].at = "verifyHold"
    BY <1>1, <2>1, <2>2, <2>3, <2>8 DEF Stopped, KeepsPlace, Preparing, Covers
  <2>9. CASE call[d].at \in Preparing \cup {"toFrozen"}
    BY <1>1, <2>1, <2>2, <2>3, <2>9 DEF Stopped, KeepsPlace, Preparing, Quiet, Covers
  <2>. QED BY <2>1, <2>6, <2>7, <2>8, <2>9 DEF Stopped, KeepsPlace
<1>. QED BY <1>2, <1>3 DEF HoldInv, KeepsHolds

\* The steps at which a request relies on what its hold has stopped so far.
Staged == {"freeze", "freezeDurably", "verifyHold", "toFrozen"} \cup Preparing

LEMMA StillKeeps ==
  ASSUME TypeInv, CourseInv, HoldInv, RowStep, UNCHANGED <<holds, writers>>
  PROVE  KeepsHolds
<1>1. UNCHANGED <<freezeDb, freezeMem, closedBy, rowWriter, recorder>>
  BY DEF holds, writers
<1>2. \A i \in freezeDb \cup recorder.seen : i \in OpId /\ i < nextId
  BY DEF TypeInv, HoldTypeOK, HoldInv
<1>3. \A i \in freezeDb \cup recorder.seen : i < nextId'
  BY <1>2, NextIdNat DEF OpId, RowStep
<1>4. recorder.step = "thaw" => \A i \in recorder.seen : ~RowHolds(i)'
  BY <1>2, HoldsBefore DEF HoldInv
<1>. QED BY <1>1, <1>3, <1>4 DEF KeepsHolds

\* A step of c that leaves the holds and the writers alone.
LEMMA StillHold ==
  ASSUME TypeInv, CourseInv, HoldInv, RowStep, UNCHANGED <<holds, writers>>, Held' => Held,
         NEW c \in Caller, \A d \in Caller \ {c} : call'[d] = call[d],
         call'[c].at \notin Staged
  PROVE  HoldInv'
<1>1. KeepsHolds
  BY StillKeeps
<1>2. \A d \in Caller : KeepsPlace(d) \/ Stopped(call[d])'
  BY DEF KeepsPlace, Stopped, Staged
<1>. QED BY <1>1, <1>2, HoldKept

LEMMA EnterTo ==
  ASSUME TypeInv, NEW c \in Caller, call[c].at \in Working, Enter(c)
  PROVE  /\ call'[c].at \in {"release", "close", "readHold", "toReleasing", "choose", "claim", "revoke"}
         /\ call'[c].at # "release" => call'[c].op = row
         /\ call'[c].at = "toReleasing" => \E q \in RequestKinds : FirstStep(q, row) = "toReleasing"
         /\ \A d \in Caller \ {c} : call'[d] = call[d]
<1> DEFINE s == FirstStep(call[c].req, row)
           k == [call[c] EXCEPT !.at = s, !.op = row, !.after = "release"]
<1>1. call[c].req \in RequestKinds /\ call[c] \in Call
  BY DEF TypeInv, CallsOK, Shape
<1>2. CASE Answer(c)
  <2>1. call'[c] = [Idle EXCEPT !.at = "release"]
    BY <1>2 DEF Answer, TypeInv, CallsOK
  <2>. QED BY <1>2, <2>1, AnswerTo DEF Idle
<1>3. CASE s # "release" /\ call' = [call EXCEPT ![c].at = s, ![c].op = row, ![c].after = "release"]
  <2>1. call' = [call EXCEPT ![c] = k]
    BY <1>3 DEF TypeInv, CallsOK
  <2>2. k.at = s /\ k.op = row
    BY <1>1 DEF Call
  <2>3. call'[c].at = s /\ call'[c].op = row /\ \A d \in Caller \ {c} : call'[d] = call[d]
    <3> HIDE DEF k
    <3>. QED BY <2>1, <2>2, CallTo
  <2>. QED BY <1>1, <1>3, <2>3, FirstStepOK
<1>. QED BY <1>2, <1>3 DEF Enter

\* Where the steps before a request has its row, and its last, lead.
LEMMA RequestTo ==
  ASSUME TypeInv, NEW c \in Caller,
         \/ \E r \in Requests : Acquire(c, r)
         \/ Release(c) \/ Read(c) \/ Reread(c) \/ ReadHold(c) \/ Insert(c)
  PROVE  /\ \A d \in Caller \ {c} : call'[d] = call[d]
         /\ call'[c].at \in {"idle", "release", "read", "readHold", "insert", "close",
                             "closeCounters", "toReleasing", "choose", "claim", "revoke"}
         /\ call'[c].at \in {"close", "closeCounters", "toReleasing", "choose", "claim", "revoke"} =>
              call'[c].op = row'
         /\ call'[c].at = "closeCounters" => Pending
         /\ call'[c].at = "toReleasing" => \E q \in RequestKinds : FirstStep(q, row') = "toReleasing"
<1>0. call[c] \in Call
  BY DEF TypeInv, CallsOK
<1>a. Answer(c) \/ call' = [call EXCEPT ![c] = Idle] => call'[c].at \in {"release", "idle"}
  <2>1. [Idle EXCEPT !.at = "release"].at = "release" /\ Idle.at = "idle"
    BY DEF Idle
  <2>. QED BY <2>1 DEF Answer, TypeInv, CallsOK
<1>b. ASSUME NEW a, FinishPending(c, a)
      PROVE  /\ call'[c].at = "closeCounters" /\ call'[c].op = row
             /\ \A d \in Caller \ {c} : call'[d] = call[d]
  BY <1>0, <1>b DEF FinishPending, TypeInv, CallsOK, Call
<1>1. ASSUME NEW r \in Requests, Acquire(c, r)
      PROVE  call'[c].at = "read" /\ \A d \in Caller \ {c} : call'[d] = call[d]
  <2> DEFINE k == [call[c] EXCEPT !.at = "read", !.req = r]
  <2>1. call' = [call EXCEPT ![c].at = "read", ![c].req = r]
    BY <1>1 DEF Acquire
  <2>2. call' = [call EXCEPT ![c] = k]
    BY <2>1 DEF TypeInv, CallsOK
  <2>3. k.at = "read"
    BY <1>0 DEF Call
  <2>. QED BY <2>2, <2>3, CallTo
<1>2. CASE Release(c)
  BY <1>a, <1>2, AnswerTo DEF Release
<1>3. CASE Read(c) \/ Reread(c)
  <2>1. call[c].at \in Working /\ row' = row
    BY <1>3 DEF Read, Reread, Working, Steps
  <2>2. Enter(c) \/ (Pending /\ FinishPending(c, "reread"))
    BY <1>3 DEF Read, Reread
  <2>. QED BY <1>b, <2>1, <2>2, EnterTo
<1>4. CASE ReadHold(c)
  <2>1. Goto(c, "insert") \/ (Pending /\ FinishPending(c, "insert"))
    BY <1>4 DEF ReadHold
  <2>. QED BY <1>4, <1>b, <2>1, GotoTo DEF ReadHold
<1>5. CASE Insert(c)
  <2> DEFINE k == [call[c] EXCEPT !.at = "close", !.op = row', !.after = "again"]
  <2>1. Answer(c) \/ call' = [call EXCEPT ![c].at = "close", ![c].op = row', ![c].after = "again"]
    BY <1>5 DEF Insert
  <2>2. CASE Answer(c)
    BY <1>a, <2>2, AnswerTo
  <2>3. CASE call' = [call EXCEPT ![c].at = "close", ![c].op = row', ![c].after = "again"]
    <3>1. call' = [call EXCEPT ![c] = k]
      BY <2>3 DEF TypeInv, CallsOK
    <3>2. k.at = "close" /\ k.op = row'
      BY <1>0 DEF Call
    <3> HIDE DEF k
    <3>. QED BY <3>1, <3>2, CallTo
  <2>. QED BY <2>1, <2>2, <2>3
<1>. QED BY <1>1, <1>2, <1>3, <1>4, <1>5

LEMMA RequestHold ==
  ASSUME TypeInv, CourseInv, HoldInv, RowStep, NEW c \in Caller,
         \/ \E r \in Requests : Acquire(c, r)
         \/ Release(c) \/ Read(c) \/ Reread(c) \/ ReadHold(c) \/ Insert(c)
  PROVE  HoldInv'
<1>1. UNCHANGED <<holds, writers>>
  BY DEF Acquire, Release, Read, Reread, ReadHold, Insert
<1>2. Held' => Held
  <2>1. row' = row \/ row' = NewRow(call[c].req)
    BY DEF Acquire, Release, Read, Reread, ReadHold, Insert
  <2>2. NewRow(call[c].req).phase \in {"freezing", "preparing"}
    BY DEF NewRow
  <2>. QED BY <2>1, <2>2 DEF Held
<1>. QED BY <1>1, <1>2, RequestTo, StillHold DEF Staged, Preparing

\* Where the steps of a release lead.
LEMMA ReleaseTo ==
  ASSUME TypeInv, NEW c \in Caller, ReleaseServer(c)
  PROVE  /\ call[c].at \in {"toReleasing"} \cup Releases
         /\ \A d \in Caller \ {c} : call'[d] = call[d]
         /\ call'[c].at \in {"release", "conflict", "idle", "reread", "insert"} \cup Releases
         /\ call'[c].at \in Releases =>
              /\ call'[c].op = call[c].op \/ (call[c].at = "toReleasing" /\ call'[c].op = row')
              /\ call'[c].at = "closeCounters" => call[c].at = "toReleasing"
              /\ call'[c].at = "delete" => call[c].at = "closeCounters"
              /\ call'[c].at \in {"thaw", "reopen"} => call[c].at \in {"delete", "thaw"}
<1>0. call[c] \in Call
  BY DEF TypeInv, CallsOK
<1>1. CASE ToReleasing(c)
  <2> DEFINE to == [call[c].op EXCEPT !.phase = "releasing"]
             k == [call[c] EXCEPT !.at = "closeCounters", !.op = to]
  <2>1. /\ call[c].at = "toReleasing"
        /\ \/ Goto(c, "closeCounters") \/ Answer(c) \/ Conflict(c)
           \/ call' = [call EXCEPT ![c].at = "closeCounters", ![c].op = to] /\ row' = to
    BY <1>1 DEF ToReleasing
  <2>2. CASE call' = [call EXCEPT ![c].at = "closeCounters", ![c].op = to] /\ row' = to
    <3>1. call' = [call EXCEPT ![c] = k]
      BY <2>2 DEF TypeInv, CallsOK
    <3>2. k.at = "closeCounters" /\ k.op = to
      BY <1>0 DEF Call
    <3> HIDE DEF k
    <3>. QED BY <2>1, <2>2, <3>1, <3>2, CallTo DEF Releases
  <2>. QED BY <2>1, <2>2, GotoTo, AnswerTo DEF Releases
<1>2. CASE CloseCounters(c)
  BY <1>2, GotoTo DEF CloseCounters, Releases
<1>3. CASE DeleteRow(c)
  BY <1>3, GotoTo DEF DeleteRow, Releases
<1>4. CASE Thaw(c)
  BY <1>4, GotoTo DEF Thaw, Releases
<1>5. CASE Reopen(c)
  <2>1. CASE Answer(c)
    BY <1>5, <2>1, AnswerTo DEF Reopen, Releases
  <2>2. CASE /\ call' = [call EXCEPT ![c].at = call[c].after, ![c].op = NoRow]
             /\ call[c].after # "release"
    <3> DEFINE k == [call[c] EXCEPT !.at = call[c].after, !.op = NoRow]
    <3>1. call' = [call EXCEPT ![c] = k]
      BY <2>2 DEF TypeInv, CallsOK
    <3>2. k.at = call[c].after
      BY <1>0 DEF Call
    <3>3. call[c].after \in {"reread", "insert"}
      <4>1. call[c].after \in {"release", "again", "reread", "insert"}
        BY <1>0 DEF Call
      <4>2. call[c].after = "again" => call[c].at \in InHold
        BY DEF TypeInv, CallsOK, Shape
      <4>. QED BY <1>5, <2>2, <4>1, <4>2 DEF Reopen, InHold
    <3> HIDE DEF k
    <3>. QED BY <1>5, <3>1, <3>2, <3>3, CallTo DEF Reopen, Releases
  <2>. QED BY <1>5, <2>1, <2>2 DEF Reopen
<1>. QED BY <1>1, <1>2, <1>3, <1>4, <1>5 DEF ReleaseServer

\* Nothing of an operation that a request may undo or thaw still holds.
LEMMA UndoingQuiet ==
  ASSUME TypeInv, CourseInv, NEW c \in Caller, call[c].at \in Undoing \cup Releases
  PROVE  ~RowHolds(call[c].op.id)
<1>1. /\ call[c].op \in Row /\ call[c].op.id \in OpId /\ OpShape(call[c]) /\ Behind(call[c])
      /\ row # NoRow => Leads(call[c].op, row)
  BY ShapeOf DEF Undoing, Releases, Fetched, Working, Steps
<1> SUFFICES ASSUME row.id = call[c].op.id PROVE row.phase = "releasing"
  BY DEF RowHolds, Holding
<1>2. row # NoRow
  BY <1>1 DEF NoRow, OpId
<1>. QED BY <1>1, <1>2 DEF OpShape, Behind, Leads

\* A step of c that takes no piece of a hold from an operation that holds.
LEMMA OwnHold ==
  ASSUME TypeInv, CourseInv, HoldInv, RowStep, UNCHANGED <<row, writers>>, NEW c \in Caller,
         \A d \in Caller \ {c} : call'[d] = call[d],
         call'[c].at \in Fetched => Stopped(call[c])',
         \A i \in freezeDb' : i \in freezeDb \/ i = call[c].op.id,
         call[c].op.id \in OpId /\ call[c].op.id < nextId,
         \A i \in OpId : RowHolds(i) =>
            /\ i \in freezeDb => i \in freezeDb'
            /\ i \in closedBy => i \in closedBy'
            /\ i \in freezeMem => i \in freezeMem'
  PROVE  HoldInv'
<1>1. UNCHANGED <<rowWriter, recorder>>
  BY DEF writers
<1>2. \A i \in freezeDb' \cup recorder'.seen : i < nextId'
  <2>1. \A i \in freezeDb' \cup recorder'.seen : i \in OpId /\ i < nextId
    BY <1>1 DEF TypeInv, HoldTypeOK, HoldInv
  <2>. QED BY <2>1, NextIdNat DEF OpId, RowStep
<1>3. KeepsHolds
  BY <1>1, <1>2 DEF KeepsHolds, HoldInv, RowHolds
<1>4. \A d \in Caller : call'[d].at \in Fetched => KeepsPlace(d) \/ Stopped(call[d])'
  BY DEF KeepsPlace
<1>5. Held' => Held
  BY DEF Held
<1>. QED BY <1>3, <1>4, <1>5, HoldKept

LEMMA HoldHold ==
  ASSUME TypeInv, CourseInv, HoldInv, RowStep, NEW c \in Caller, HoldFor(c)
  PROVE  HoldInv'
<1>0. call[c].at \in Fetched
  BY DEF HoldFor, CloseProcess, FreezeMemory, FreezeDurably, VerifyHold, UndoFreeze, UndoHold,
         Publish, Recheck, Fetched, Working, Steps
<1>1. /\ call[c].op \in Row /\ call[c].op.id \in OpId /\ call[c] \in Call
      /\ OpShape(call[c]) /\ call[c].op.id < nextId /\ Stopped(call[c])
  BY <1>0, ShapeOf DEF HoldInv
<1>2. CASE CloseProcess(c)
  <2> DEFINE k == [call[c] EXCEPT !.at = "freeze", !.drain = Portable /\ rowWriter = "writing"]
  <2>1. /\ UNCHANGED <<row, freezeDb, freezeMem, writers, rowWriter>>
        /\ closedBy' = IF Portable THEN closedBy \cup {call[c].op.id} ELSE closedBy
        /\ call' = [call EXCEPT ![c].at = "freeze", ![c].drain = Portable /\ rowWriter = "writing"]
    BY <1>2 DEF CloseProcess, writers
  <2>2. call' = [call EXCEPT ![c] = k]
    BY <2>1 DEF TypeInv, CallsOK
  <2>3. k.at = "freeze" /\ k.op = call[c].op /\ k.drain = (Portable /\ rowWriter = "writing")
    BY <1>1 DEF Call
  <2>4. call'[c] = k /\ \A d \in Caller \ {c} : call'[d] = call[d]
    <3> HIDE DEF k
    <3>. QED BY <2>2, CallTo
  <2>5. Stopped(call[c])'
    <3> HIDE DEF k
    <3>1. k.drain \/ ~(Portable /\ rowWriter = "writing")
      BY <2>3, Zenon
    <3>2. call'[c].drain \/ RowsQuiet'
      BY <2>1, <2>4, <3>1 DEF RowsQuiet, TypeInv, HoldTypeOK
    <3>3. call'[c].at = "freeze" /\ call'[c].op = call[c].op
      BY <2>3, <2>4
    <3>. QED BY <2>1, <3>2, <3>3 DEF Stopped, Preparing
  <2>. QED BY <1>1, <2>1, <2>4, <2>5, OwnHold
<1>3. CASE FreezeMemory(c)
  <2>1. /\ UNCHANGED <<row, freezeDb, closedBy, writers, rowWriter>>
        /\ freezeMem' = freezeMem \cup {call[c].op.id} /\ ~call[c].drain /\ call[c].at = "freeze"
        /\ Goto(c, "freezeDurably")
    BY <1>3 DEF FreezeMemory, writers
  <2>2. /\ call'[c].at = "freezeDurably" /\ call'[c].op = call[c].op
        /\ \A d \in Caller \ {c} : call'[d] = call[d]
    BY <2>1, GotoTo
  <2>3. Stopped(call[c])'
    BY <1>1, <2>1, <2>2 DEF Stopped, RowsQuiet, Preparing, RowHolds
  <2>. QED BY <1>1, <2>1, <2>2, <2>3, OwnHold
<1>4. CASE FreezeDurably(c)
  <2> DEFINE k == [call[c] EXCEPT !.at = "verifyHold", !.drain = recorder.step = "writing"]
  <2>1. /\ UNCHANGED <<row, freezeMem, closedBy, writers, rowWriter, recorder>>
        /\ freezeDb' = freezeDb \cup {call[c].op.id} /\ call[c].at = "freezeDurably"
        /\ call' = [call EXCEPT ![c].at = "verifyHold", ![c].drain = recorder.step = "writing"]
    BY <1>4 DEF FreezeDurably, writers
  <2>2. call' = [call EXCEPT ![c] = k]
    BY <2>1 DEF TypeInv, CallsOK
  <2>3. k.at = "verifyHold" /\ k.op = call[c].op /\ k.drain = (recorder.step = "writing")
    BY <1>1 DEF Call
  <2>4. call'[c] = k /\ \A d \in Caller \ {c} : call'[d] = call[d]
    <3> HIDE DEF k
    <3>. QED BY <2>2, CallTo
  <2>5. Stopped(call[c])'
    <3> HIDE DEF k
    <3>1. k.drain \/ recorder.step # "writing"
      BY <2>3, Zenon
    <3>2. call'[c].drain \/ recorder'.step # "writing"
      BY <2>1, <2>4, <3>1
    <3>3. call'[c].at = "verifyHold" /\ call'[c].op = call[c].op
      BY <2>3, <2>4
    <3>4. RowHolds(call[c].op.id) => Covers(call[c].op.id)' /\ RowsQuiet'
      BY <1>1, <2>1, <3>3 DEF Stopped, RowsQuiet, Covers
    <3>. QED BY <2>1, <3>2, <3>3, <3>4 DEF Stopped, Preparing, RowHolds
  <2>. QED BY <1>1, <2>1, <2>4, <2>5, OwnHold
<1>5. CASE VerifyHold(c)
  <2> DEFINE ours == row.id = call[c].op.id
             step == IF ~(ours /\ row.phase \in Holding)
                     THEN IF ours THEN "unfreezeOurs" ELSE "unfreeze"
                     ELSE IF call[c].after = "again" THEN "close"
                     ELSE IF call[c].op.kind = "export" THEN "toFrozen" ELSE "beginImport"
             k == [call[c] EXCEPT !.at = step, !.after = "release"]
  <2>1. /\ UNCHANGED <<row, holds, writers>> /\ ~call[c].drain /\ call[c].at = "verifyHold"
        /\ call' = [call EXCEPT ![c].at = step, ![c].after = "release"]
    BY <1>5 DEF VerifyHold
  <2>2. call' = [call EXCEPT ![c] = k]
    BY <2>1 DEF TypeInv, CallsOK
  <2>3. k.at = step /\ k.op = call[c].op
    BY <1>1 DEF Call
  <2>4. call'[c] = k /\ \A d \in Caller \ {c} : call'[d] = call[d]
    <3> HIDE DEF k
    <3>. QED BY <2>2, CallTo
  <2>5. Stopped(call[c])'
    <3>1. UNCHANGED <<row, freezeDb, freezeMem, closedBy, rowWriter, recorder>>
      BY <2>1 DEF holds, writers
    <3>2. RowHolds(call[c].op.id) => Covers(call[c].op.id) /\ Quiet
      BY <1>1, <2>1 DEF Stopped, Quiet
    <3>3. call'[c].op = call[c].op /\ call'[c].at \notin {"freeze", "freezeDurably", "verifyHold"}
      BY <2>3, <2>4
    <3> HIDE DEF k, step
    <3>. QED BY <3>1, <3>2, <3>3 DEF Stopped, RowHolds, Covers, Quiet, RowsQuiet
  <2>6. UNCHANGED <<freezeDb, freezeMem, closedBy>>
    BY <2>1 DEF holds
  <2>. QED BY <1>1, <2>1, <2>4, <2>5, <2>6, OwnHold
<1>6. CASE UndoFreeze(c) \/ UndoHold(c)
  <2>1. call[c].at \in Undoing /\ UNCHANGED <<row, writers>>
    BY <1>6 DEF UndoFreeze, UndoHold, Undoing
  <2>2. ~RowHolds(call[c].op.id)
    BY <2>1, UndoingQuiet
  <2>3. /\ freezeDb' = freezeDb \/ freezeDb' = freezeDb \ {call[c].op.id}
        /\ freezeMem' = freezeMem \/ freezeMem' = freezeMem \ {call[c].op.id}
        /\ closedBy' = closedBy \/ closedBy' = closedBy \ {call[c].op.id}
    BY <1>6 DEF UndoFreeze, UndoHold
  <2>4. call'[c].at \notin Staged /\ \A d \in Caller \ {c} : call'[d] = call[d]
    <3>1. Conflict(c) \/ Goto(c, "unhold") \/ Goto(c, "unholdOurs")
      BY <1>6 DEF UndoFreeze, UndoHold
    <3>. QED BY <3>1, GotoTo, AnswerTo DEF Staged, Preparing
  <2>5. Stopped(call[c])'
    BY <2>4 DEF Stopped, Staged
  <2>. QED BY <1>1, <2>1, <2>2, <2>3, <2>4, <2>5, OwnHold
<1>7. CASE Publish(c) \/ Recheck(c)
  <2>1. UNCHANGED <<holds, writers>>
    BY <1>7 DEF Publish, Recheck
  <2>2. call'[c].at \notin Staged /\ \A d \in Caller \ {c} : call'[d] = call[d]
    <3>1. Answer(c) \/ Conflict(c) \/ Goto(c, "recheck")
      BY <1>7 DEF Publish, Recheck
    <3>. QED BY <3>1, GotoTo, AnswerTo DEF Staged, Preparing
  <2>3. Held' => Held \/ (Covers(row'.id) /\ Quiet)
    <3>1. CASE row' = row
      BY <3>1 DEF Held
    <3>2. CASE row' # row
      <4>1. /\ call[c].at \in {"toFrozen", "toReady"} /\ row = call[c].op
            /\ \E p \in Phase : row' = [call[c].op EXCEPT !.phase = p]
        BY <1>7, <3>2 DEF Publish, Recheck, Swaps, Phase
      <4>2. row'.id = row.id
        BY <1>1, <4>1, RowKeeps
      <4>3. RowHolds(call[c].op.id)
        BY <1>1, <4>1 DEF OpShape, Preparing, RowHolds, Holding, Phase
      <4>. QED BY <1>1, <4>1, <4>2, <4>3 DEF Stopped, Preparing
    <3>. QED BY <3>1, <3>2
  <2>4. KeepsHolds
    BY <2>1, StillKeeps
  <2>5. \A d \in Caller : KeepsPlace(d) \/ Stopped(call[d])'
    BY <2>2 DEF KeepsPlace, Stopped, Staged
  <2>. QED BY <2>3, <2>4, <2>5, HoldKept
<1>. QED BY <1>2, <1>3, <1>4, <1>5, <1>6, <1>7 DEF HoldFor

LEMMA ReleaseHold ==
  ASSUME TypeInv, CourseInv, HoldInv, RowStep, NEW c \in Caller, ReleaseServer(c)
  PROVE  HoldInv'
<1>0. call[c].at \in Fetched
  BY DEF ReleaseServer, ToReleasing, CloseCounters, DeleteRow, Thaw, Reopen, Fetched, Working, Steps
<1>1. /\ call[c].op \in Row /\ call[c].op.id \in OpId /\ call[c] \in Call
      /\ call[c].op.id < nextId
  BY <1>0, ShapeOf
<1>2. call'[c].at \notin Staged /\ \A d \in Caller \ {c} : call'[d] = call[d]
  BY ReleaseTo DEF Staged, Preparing, Releases
<1>3. CASE ToReleasing(c) \/ CloseCounters(c) \/ DeleteRow(c)
  <2>1. UNCHANGED <<holds, writers>>
    BY <1>3 DEF ToReleasing, CloseCounters, DeleteRow
  <2>2. Held' => Held
    <3>1. row' = row \/ row' = NoRow \/ row' = [call[c].op EXCEPT !.phase = "releasing"]
      BY <1>3 DEF ToReleasing, CloseCounters, DeleteRow
    <3>2. [call[c].op EXCEPT !.phase = "releasing"].phase = "releasing"
      BY <1>1 DEF Row
    <3>. QED BY <3>1, <3>2 DEF Held
  <2>. QED BY <1>2, <2>1, <2>2, StillHold
<1>4. CASE Thaw(c) \/ Reopen(c)
  <2>1. call[c].at \in Releases /\ UNCHANGED <<row, writers>>
    BY <1>4 DEF Thaw, Reopen, Releases
  <2>2. ~RowHolds(call[c].op.id)
    BY <2>1, UndoingQuiet
  <2>3. /\ freezeDb' = freezeDb \/ freezeDb' = freezeDb \ {call[c].op.id}
        /\ freezeMem' = freezeMem \/ freezeMem' = freezeMem \ {call[c].op.id}
        /\ closedBy' = closedBy \/ closedBy' = closedBy \ {call[c].op.id}
    BY <1>4 DEF Thaw, Reopen
  <2>4. Stopped(call[c])'
    BY <1>2 DEF Stopped, Staged
  <2>. QED BY <1>1, <1>2, <2>1, <2>2, <2>3, <2>4, OwnHold
<1>. QED BY <1>3, <1>4 DEF ReleaseServer

\* Where the steps of prepare and of an append lead.
LEMMA RestoreTo ==
  ASSUME TypeInv, NEW c \in Caller, Restore(c)
  PROVE  /\ call[c].at \in {"beginImport", "checkEmpty"} \cup Appends
         /\ \A d \in Caller \ {c} : call'[d] = call[d]
         /\ call'[c].at \in Fetched => call'[c].op = call[c].op
         /\ BeginImport(c) => call'[c].at = "checkEmpty"
         /\ CheckEmpty(c) => \/ call'[c].at = "toReleasing"
                             \/ call'[c].at = "toReady" /\ ~Occupied
         /\ ChooseChunk(c) => call'[c].at = "append"
         /\ CheckAppend(c) => \/ call'[c].at \notin Fetched
                              \/ /\ call'[c].plan = call[c].plan
                                 /\ \/ call'[c].at = "commit" /\ call[c].plan.left = {}
                                    \/ call'[c].at = "write" /\ call[c].plan.left # {}
         /\ WriteOutside(c) => call'[c].at \notin Fetched \/ call'[c].at = "append"
         /\ CommitAppend(c) => call'[c].at \notin Fetched
<1>0. call[c] \in Call
  BY DEF TypeInv, CallsOK
<1>1. CASE BeginImport(c)
  BY <1>1, GotoTo DEF BeginImport, CheckEmpty, ChooseChunk, CheckAppend, WriteOutside, CommitAppend
<1>2. CASE CheckEmpty(c)
  <2>1. Goto(c, "toReleasing") \/ (Goto(c, "toReady") /\ ~Occupied)
    BY <1>2 DEF CheckEmpty
  <2>2. call[c].at = "checkEmpty"
    BY <1>2 DEF CheckEmpty
  <2>. QED BY <1>2, <2>1, <2>2, GotoTo DEF BeginImport, ChooseChunk, CheckAppend, WriteOutside, CommitAppend
<1>3. CASE ChooseChunk(c)
  <2>1. PICK p : call' = [call EXCEPT ![c].at = "append", ![c].plan = p]
    BY <1>3 DEF ChooseChunk
  <2> DEFINE k == [call[c] EXCEPT !.at = "append", !.plan = p]
  <2>2. call' = [call EXCEPT ![c] = k]
    BY <2>1 DEF TypeInv, CallsOK
  <2>3. k.at = "append" /\ k.op = call[c].op
    BY <1>0 DEF Call
  <2>4. call'[c].at = "append" /\ call'[c].op = call[c].op /\ \A d \in Caller \ {c} : call'[d] = call[d]
    <3> HIDE DEF k
    <3>. QED BY <2>2, <2>3, CallTo
  <2>5. call[c].at = "choose"
    BY <1>3 DEF ChooseChunk
  <2>. QED BY <2>4, <2>5 DEF Appends, BeginImport, CheckEmpty, CheckAppend, WriteOutside, CommitAppend
<1>4. CASE CheckAppend(c)
  <2>1. \/ Answer(c) \/ (Goto(c, "commit") /\ call[c].plan.left = {})
        \/ (Goto(c, "write") /\ call[c].plan.left # {})
    BY <1>4 DEF CheckAppend
  <2>2. call[c].at = "append"
    BY <1>4 DEF CheckAppend
  <2>3. /\ \A d \in Caller \ {c} : call'[d] = call[d]
        /\ call'[c].at \in Fetched =>
             /\ call'[c].op = call[c].op /\ call'[c].plan = call[c].plan
             /\ \/ call'[c].at = "commit" /\ call[c].plan.left = {}
                \/ call'[c].at = "write" /\ call[c].plan.left # {}
    BY <2>1, AnswerTo, GotoTo
  <2>. QED BY <2>2, <2>3 DEF Appends, BeginImport, CheckEmpty, ChooseChunk, WriteOutside, CommitAppend
<1>5. CASE WriteOutside(c)
  <2> DEFINE l == call[c].plan.left \ {NextOutside(call[c].plan.left)}
             k == [call[c] EXCEPT !.at = "append", !.plan.left = l]
  <2>1. Conflict(c) \/ call' = [call EXCEPT ![c].at = "append", ![c].plan.left = l]
    BY <1>5 DEF WriteOutside
  <2>2. call[c].at = "write"
    BY <1>5 DEF WriteOutside
  <2>3. /\ \A d \in Caller \ {c} : call'[d] = call[d]
        /\ call'[c].at \in Fetched => call'[c].at = "append" /\ call'[c].op = call[c].op
    <3>1. CASE call' = [call EXCEPT ![c].at = "append", ![c].plan.left = l]
      <4>1. call' = [call EXCEPT ![c] = k]
        BY <3>1 DEF TypeInv, CallsOK
      <4>2. k.at = "append" /\ k.op = call[c].op
        BY <1>0 DEF Call
      <4> HIDE DEF k
      <4>. QED BY <4>1, <4>2, CallTo
    <3>. QED BY <2>1, <3>1, AnswerTo
  <2>. QED BY <2>2, <2>3 DEF Appends, BeginImport, CheckEmpty, ChooseChunk, CheckAppend, CommitAppend
<1>6. CASE CommitAppend(c)
  BY <1>6, AnswerTo DEF Appends, BeginImport, CheckEmpty, ChooseChunk, CheckAppend, WriteOutside, CommitAppend
<1>. QED BY <1>1, <1>2, <1>3, <1>4, <1>5, <1>6 DEF Restore

LEMMA RestoreHold ==
  ASSUME TypeInv, CourseInv, HoldInv, RowStep, NEW c \in Caller, Restore(c)
  PROVE  HoldInv'
<1>0. call[c].at \in Fetched
  BY RestoreTo DEF Appends, Fetched, Working, Steps
<1>1. /\ call[c].op \in Row /\ call[c].op.id \in OpId /\ OpShape(call[c])
      /\ call[c].op.id < nextId /\ Stopped(call[c])
  BY <1>0, ShapeOf DEF HoldInv
<1>2. UNCHANGED <<freezeDb, freezeMem, closedBy, holds, writers, rowWriter, recorder>>
  BY DEF Restore, BeginImport, CheckEmpty, ChooseChunk, CheckAppend, WriteOutside, CommitAppend,
         holds, writers
<1>3. CASE BeginImport(c) \/ CheckEmpty(c)
  <2>1. row' = row /\ call[c].at \in Preparing
    BY <1>3 DEF BeginImport, CheckEmpty, Preparing
  <2>2. call'[c].at \in {"checkEmpty", "toReleasing", "toReady"} /\ call'[c].op = call[c].op
    BY <1>3, RestoreTo DEF Fetched, Working, Steps
  <2>3. Stopped(call[c])'
    BY <1>1, <1>2, <2>1, <2>2 DEF Stopped, RowHolds, Covers, Quiet, RowsQuiet
  <2>. QED BY <1>1, <1>2, <2>1, <2>3, RestoreTo, OwnHold
<1>4. CASE ChooseChunk(c) \/ CheckAppend(c) \/ WriteOutside(c) \/ CommitAppend(c)
  <2>1. call'[c].at \notin Staged
    BY <1>4, RestoreTo DEF Staged, Preparing, Fetched, Working, Steps
  <2>2. Held' => Held
    <3>1. row' = row \/ (row = call[c].op /\ call[c].at = "commit")
      BY <1>4 DEF ChooseChunk, CheckAppend, WriteOutside, CommitAppend, Fenced
    <3>2. call[c].at = "commit" => call[c].op.phase = "ready" /\ call[c].op # NoRow
      BY <1>1, NoRowNotRow DEF OpShape, Appends
    <3>. QED BY <3>1, <3>2 DEF Held
  <2>. QED BY <1>2, <2>1, <2>2, RestoreTo, StillHold
<1>. QED BY <1>3, <1>4 DEF Restore

LEMMA DiscardHold ==
  ASSUME TypeInv, CourseInv, HoldInv, RowStep, NEW c \in Caller, DiscardRestore(c)
  PROVE  HoldInv'
<1>0. call[c].at \in Fetched
  BY DiscardAt DEF DiscardRestore, Claim, Revoke, SaveProgress, Fetched, Working, Steps
<1>1. /\ call[c].op \in Row /\ Lawful(call[c].op) /\ OpShape(call[c]) /\ call[c].op # NoRow
  BY <1>0, ShapeOf, NoRowNotRow
<1>2. UNCHANGED <<holds, writers>>
  <2>1. DiscardOne(c) => UNCHANGED <<holds, writers>>
    BY Zenon DEF DiscardOne
  <2>2. Wipe(c) => UNCHANGED <<holds, writers>>
    BY Zenon DEF Wipe
  <2>. QED BY <2>1, <2>2 DEF DiscardRestore, Claim, Revoke, VerifyBackfill, SaveProgress
<1>3. CASE Claim(c) \/ Revoke(c) \/ SaveProgress(c)
  <2>1. \/ Answer(c) \/ Conflict(c) \/ Goto(c, "revokeClaimed") \/ Goto(c, "discard")
    BY <1>3 DEF Claim, Revoke, SaveProgress
  <2>2. call'[c].at \notin Staged /\ \A d \in Caller \ {c} : call'[d] = call[d]
    BY <2>1, GotoTo, AnswerTo DEF Staged, Preparing
  <2>3. row' = row \/ (row = call[c].op /\ call[c].op.phase \in {"ready", "discarding"})
    BY <1>1, <1>3 DEF Claim, Revoke, SaveProgress, Swaps, OpShape, Discards
  <2>4. Held' => Held
    BY <1>1, <2>3 DEF Held
  <2>. QED BY <1>2, <2>2, <2>4, StillHold
<1>4. CASE DiscardOne(c) \/ Wipe(c) \/ VerifyBackfill(c)
  <2>1. call[c].op.phase = "discarding" /\ call[c].op.discard.step >= 1 /\ row' = row
    BY <1>1, <1>4, DiscardAt DEF OpShape, Discards, Lawful
  <2>2. call'[c].at \notin Staged /\ \A d \in Caller \ {c} : call'[d] = call[d]
    BY <1>1, <1>4, <2>1, DiscardTo DEF Staged, Preparing, Fetched, Working, Steps
  <2>3. Held' => Held
    BY <2>1 DEF Held
  <2>. QED BY <1>2, <2>2, <2>3, StillHold
<1>. QED BY <1>3, <1>4 DEF DiscardRestore

\* A drain that ends leaves the step and the row of every request.
LEMMA DrainedTo ==
  ASSUME TypeInv, NEW s, Drained(s), NEW d \in Caller
  PROVE  /\ call'[d].at = call[d].at /\ call'[d].op = call[d].op /\ call'[d].plan = call[d].plan
         /\ call[d].at # s => call'[d].drain = call[d].drain
<1>1. call[d] \in Call
  BY DEF TypeInv, CallsOK
<1>2. call'[d] = [call[d] EXCEPT !.drain = @ /\ call[d].at # s]
  BY DEF Drained
<1>3. call'[d].drain = (call[d].drain /\ call[d].at # s)
  BY <1>1, <1>2 DEF Call
<1>4. call[d].at # s => call'[d].drain = call[d].drain
  BY <1>1, <1>3 DEF Call
<1>. QED BY <1>1, <1>2, <1>4 DEF Call

LEMMA OutsideHold ==
  ASSUME TypeInv, CourseInv, HoldInv, RowStep, Age \/ Write \/ RecordOrFlush \/ Faulty
  PROVE  HoldInv'
<1>0. /\ UNCHANGED <<row, nextId>> /\ Held' = Held
      /\ \A i \in freezeDb \cup recorder.seen : i \in OpId /\ i < nextId
      /\ recorder \in [step : {"idle", "observe", "gate", "thaw", "recheck", "writing"}, seen : SUBSET OpId]
  BY DEF Age, Write, AdmitRow, CommitRow, RecordOrFlush, StartRecord, ObserveFreezes, CheckGate,
         ThawStale, CommitRecord, Faulty, CallFails, IsolateCrash, CountersRestart, ProcessRestart,
         Held, TypeInv, HoldTypeOK, HoldInv
<1>. SUFFICES KeepsHolds /\ \A d \in Caller : call'[d].at \in Fetched => KeepsPlace(d)
  BY <1>0, HoldKept
<1>1. CASE Age \/ Write
  <2>1. /\ UNCHANGED <<freezeDb, freezeMem, closedBy, recorder>>
        /\ rowWriter' = rowWriter \/ rowWriter' = "idle" \/ closedBy = {}
    BY <1>1 DEF Age, Write, AdmitRow, CommitRow, holds, writers
  <2>2. KeepsHolds
    BY <1>0, <2>1 DEF KeepsHolds, HoldInv, RowHolds
  <2>3. ASSUME NEW d \in Caller PROVE KeepsPlace(d)
    <3>1. CASE UNCHANGED call
      BY <3>1 DEF KeepsPlace
    <3>2. CASE CommitRow
      BY <3>2, DrainedTo DEF CommitRow, KeepsPlace
    <3>. QED BY <1>1, <3>1, <3>2 DEF Age, Write, AdmitRow
  <2>. QED BY <2>2, <2>3
<1>2. CASE RecordOrFlush
  <2>1. closedBy' = closedBy /\ rowWriter' = rowWriter
    BY <1>2 DEF RecordOrFlush, StartRecord, ObserveFreezes, CheckGate, ThawStale, CommitRecord,
                holds, writers
  <2>2. ASSUME NEW d \in Caller PROVE KeepsPlace(d)
    <3>1. CASE UNCHANGED call
      BY <3>1 DEF KeepsPlace
    <3>2. CASE CommitRecord
      <4>1. recorder'.step # "writing"
        BY <3>2 DEF CommitRecord, Recorder
      <4>. QED BY <3>2, <4>1, DrainedTo DEF CommitRecord, KeepsPlace
    <3>. QED BY <1>2, <3>1, <3>2 DEF RecordOrFlush, StartRecord, ObserveFreezes, CheckGate, ThawStale
  <2>3. KeepsHolds
    <3>1. CASE ThawStale
      <4>1. PICK id \in recorder.seen :
              /\ freezeDb' = freezeDb \ {id} /\ freezeMem' = freezeMem \ {id}
              /\ IF recorder.seen = {id} THEN Recorder("recheck", {})
                 ELSE Recorder("thaw", recorder.seen \ {id})
        BY <3>1 DEF ThawStale
      <4>2. ~RowHolds(id)
        BY <3>1 DEF ThawStale, HoldInv
      <4>3. recorder'.seen \subseteq recorder.seen /\ recorder'.step \in {"recheck", "thaw"}
        BY <4>1 DEF Recorder
      <4>4. recorder.step = "thaw" /\ \A i \in recorder.seen : ~RowHolds(i)
        BY <3>1 DEF ThawStale, HoldInv
      <4>. QED BY <1>0, <2>1, <4>1, <4>2, <4>3, <4>4 DEF KeepsHolds, RowHolds
    <3>2. CASE StartRecord \/ ObserveFreezes \/ CheckGate \/ CommitRecord
      <4>1. UNCHANGED <<freezeDb, freezeMem>>
        BY <3>2 DEF StartRecord, ObserveFreezes, CheckGate, CommitRecord, holds
      <4>2. /\ recorder'.seen \subseteq freezeDb \cup recorder.seen
            /\ recorder'.step = "writing" => freezeMem = {}
            /\ recorder'.step = "thaw" => row = NoRow /\ recorder'.seen = recorder.seen
        <5>1. CASE StartRecord
          BY <5>1 DEF StartRecord, Recorder
        <5>2. CASE ObserveFreezes
          BY <5>2 DEF ObserveFreezes, Recorder
        <5>3. CASE CheckGate
          BY <5>3 DEF CheckGate, Recorder, GateOpen
        <5>4. CASE CommitRecord
          BY <5>4 DEF CommitRecord, Recorder
        <5>. QED BY <3>2, <5>1, <5>2, <5>3, <5>4
      <4>3. \A i \in OpId : row = NoRow => ~RowHolds(i)'
        BY <1>0 DEF RowHolds, NoRow, OpId
      <4>. QED BY <1>0, <2>1, <4>1, <4>2, <4>3 DEF KeepsHolds
    <3>. QED BY <1>2, <3>1, <3>2 DEF RecordOrFlush
  <2>. QED BY <2>2, <2>3
<1>3. ASSUME NEW c \in Caller, CallFails(c) \/ IsolateCrash(c)
      PROVE  KeepsHolds /\ \A d \in Caller : call'[d].at \in Fetched => KeepsPlace(d)
  <2>1. /\ Answer(c) \/ call' = [call EXCEPT ![c] = Idle]
        /\ UNCHANGED <<freezeDb, rowWriter, recorder>>
        /\ closedBy' = closedBy \/ (call[c].at = "thaw" /\ closedBy' = closedBy \ {call[c].op.id})
        /\ \/ freezeMem' = freezeMem
           \/ call[c].at \in {"unhold", "unholdOurs"} /\ freezeMem' = freezeMem \ {call[c].op.id}
    BY <1>3 DEF CallFails, IsolateCrash, holds, writers
  <2>2. call[c].at \in {"thaw", "unhold", "unholdOurs"} => ~RowHolds(call[c].op.id)
    BY UndoingQuiet DEF Undoing, Releases
  <2>3. KeepsHolds
    BY <1>0, <2>1, <2>2 DEF KeepsHolds, HoldInv, RowHolds
  <2>4. \A d \in Caller : call'[d].at \in Fetched => KeepsPlace(d)
    BY <2>1, AnswerTo DEF KeepsPlace
  <2>. QED BY <2>3, <2>4
<1>4. CASE CountersRestart
  <2>1. /\ freezeMem' = freezeDb /\ UNCHANGED <<freezeDb, closedBy, rowWriter>>
        /\ recorder' = [step |-> "idle", seen |-> {}]
        /\ call' = [c \in Caller |-> IF call[c].at \in InCounters
                                     THEN [Idle EXCEPT !.at = "release"] ELSE call[c]]
    BY <1>4 DEF CountersRestart
  <2>2. \A d \in Caller : \/ call'[d] = call[d] /\ call[d].at \notin InCounters
                          \/ call'[d].at = "release"
    <3>1. [Idle EXCEPT !.at = "release"].at = "release"
      BY DEF Idle
    <3>. QED BY <2>1, <3>1, Zenon
  <2>3. KeepsHolds
    BY <1>0, <2>1, <2>2 DEF KeepsHolds, InCounters, MidCall
  <2>. QED BY <2>2, <2>3 DEF KeepsPlace, Fetched, Working
<1>5. CASE ProcessRestart
  <2>1. /\ freezeMem' = freezeDb /\ UNCHANGED freezeDb /\ rowWriter' = "idle"
        /\ closedBy' = IF row = NoRow THEN {} ELSE {row.id}
        /\ recorder' = [step |-> "idle", seen |-> {}]
        /\ call' = [c \in Caller |-> Idle]
    BY <1>5 DEF ProcessRestart
  <2>2. \A d \in Caller : call'[d].at = "idle"
    BY <2>1 DEF Idle
  <2>3. \A i \in OpId : RowHolds(i) => i \in closedBy'
    BY <2>1 DEF RowHolds, NoRow, OpId
  <2>4. KeepsHolds
    BY <1>0, <2>1, <2>2, <2>3 DEF KeepsHolds
  <2>. QED BY <2>2, <2>4 DEF Fetched, Working
<1>. QED BY <1>1, <1>2, <1>3, <1>4, <1>5 DEF Faulty

LEMMA HoldInvariant == Spec => []HoldInv
<1>1. Init => HoldInv
  BY DEF Init, HoldInv, Held, Idle, Fetched, Working
<1>2. TypeInv /\ TypeInv' /\ CourseInv /\ HoldInv /\ [Next]_vars => HoldInv'
  <2> SUFFICES ASSUME TypeInv, TypeInv', CourseInv, HoldInv, [Next]_vars PROVE HoldInv'
    OBVIOUS
  <2>0. RowStep
    BY NextCourse
  <2>1. CASE UNCHANGED vars
    <3>1. KeepsHolds /\ (Held' => Held)
      BY <2>0, <2>1, StillKeeps DEF vars, Held
    <3>2. \A d \in Caller : KeepsPlace(d)
      BY <2>1 DEF vars, KeepsPlace
    <3>. QED BY <2>0, <3>1, <3>2, HoldKept
  <2>2. ASSUME NEW c \in Caller, (\E r \in Requests : Acquire(c, r)) \/ Proceed(c) PROVE HoldInv'
    BY <2>0, <2>2, RequestHold, HoldHold, ReleaseHold, RestoreHold, DiscardHold DEF Proceed
  <2>. QED BY <2>0, <2>1, <2>2, OutsideHold DEF Next
<1>. QED BY <1>1, <1>2, TypeInvariant, CourseInvariant, PTL DEF Spec

\* Whatever requests stall, race or fail, and whatever restarts: an operation
\* that published frozen or ready stays held in every place a writer asks.
THEOREM HoldsAlwaysCover == Spec => []HoldsCoverOperation
<1>1. HoldInv => HoldsCoverOperation
  BY DEF HoldInv, HoldsCoverOperation, Covers
<1>. QED BY <1>1, HoldInvariant, PTL

\* No write admitted before the holds is still running when the operation
\* publishes frozen or ready, or later.
THEOREM AdmittedWritesAreDrained == Spec => []AdmittedWritesDrained
<1>1. HoldInv => AdmittedWritesDrained
  BY DEF HoldInv, AdmittedWritesDrained, Quiet, RowsQuiet
<1>. QED BY <1>1, HoldInvariant, PTL
=============================================================================
