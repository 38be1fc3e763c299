---------------------------- MODULE TileProofs ----------------------------
(***************************************************************************)
(* The tiles of the server: that what is reserved or referred to keeps its *)
(* bytes (TileBlobs), for any number of requests, runtimes, collections,   *)
(* generations and failures, and what the tile generation cache            *)
(* acknowledges (TileGenerationCache); and the types of all components     *)
(* that MCTelemetryState puts next to each other.                          *)
(***************************************************************************)
EXTENDS MCTelemetryState, StatusProofs, FiniteSetTheorems

-----------------------------------------------------------------------------
(* The bytes of a tile.                                                    *)

JobsOK ==
    /\ job \in [Process -> Job]
    /\ \A p \in Process : job[p].at \in Keyed => job[p].key \in Key
RowsOK ==
    /\ row \in [Key -> RowState]
    /\ stored \in SUBSET Key /\ stray \in SUBSET Key /\ doubtful \in SUBSET Key
    /\ referenced \in BOOLEAN
    /\ held \in [Reporter -> Key \cup {NoKey}]
    /\ known \in [Runtime -> SUBSET Key]
    /\ calls \in 0 .. MaxCalls /\ faults \in 0 .. MaxFaults

LEMMA BlobsTypeParts == BlobsTypeOK <=> JobsOK /\ RowsOK
  BY DEF BlobsTypeOK, JobsOK, RowsOK

LEMMA Keys ==
    /\ LegacyKey \in Key /\ NoKey \notin Key /\ Key \subseteq Nat
    /\ Idle \in Job /\ Idle.at = "idle" /\ Idle.key = NoKey /\ Idle.todo = {} /\ Idle.kind = "none"
    /\ Reporter \subseteq Process /\ Sweeper \subseteq Process
    /\ \A r \in Reporter : RuntimeOf[r] \in Runtime
  BY TileBlobsAssumption DEF Key, NoKey, LegacyKey, Idle, Job, At, Kind, Process

\* One process moves on.
Moves(p) ==
    /\ job' \in [Process -> Job]
    /\ \A q \in Process \ {p} : job'[q] = job[q]

LEMMA PutJob ==
    ASSUME JobsOK, NEW p \in Process, NEW j \in Job, job' = [job EXCEPT ![p] = j]
    PROVE  Moves(p) /\ job'[p] = j
  BY DEF JobsOK, Moves

LEMMA MovedOK ==
    ASSUME JobsOK, NEW p \in Process, Moves(p), job'[p].at \in Keyed => job'[p].key \in Key
    PROVE  JobsOK'
  BY DEF JobsOK, Moves

LEMMA GotoJob ==
    ASSUME JobsOK, NEW p \in Process, NEW stage \in At, Goto(p, stage)
    PROVE  /\ Moves(p)
           /\ job'[p].at = stage /\ job'[p].key = job[p].key /\ job'[p].todo = job[p].todo
  BY DEF JobsOK, Moves, Goto, Job

LEMMA TakeKey ==
    ASSUME JobsOK, NEW p \in Process, NEW stage \in At, NEW k \in Key \cup {NoKey},
           job' = [job EXCEPT ![p].at = stage, ![p].key = k]
    PROVE  Moves(p) /\ job'[p].at = stage /\ job'[p].key = k /\ job'[p].todo = job[p].todo
<1>1. PICK j : j = [job[p] EXCEPT !.at = stage, !.key = k]
  OBVIOUS
<1>2. j \in Job /\ j.at = stage /\ j.key = k /\ j.todo = job[p].todo
  BY <1>1 DEF JobsOK, Job
<1>3. job' = [job EXCEPT ![p] = j]
  BY <1>1
<1>. QED BY <1>2, <1>3, PutJob

LEMMA DoneJob ==
    ASSUME JobsOK, NEW p \in Process, Done(p)
    PROVE  Moves(p) /\ job'[p] = Idle
  BY Keys, PutJob DEF Done

LEMMA JobAt ==
    ASSUME JobsOK, NEW p \in Process
    PROVE  /\ job[p] \in Job /\ job[p].at \in At /\ job[p].key \in Key \cup {NoKey}
           /\ job[p].todo \subseteq Key
           /\ job[p].at \in Keyed => job[p].key \in Key
  BY DEF JobsOK, Job

\* Those who wait for a PUT go on with it.
LEMMA SettleJob ==
    ASSUME JobsOK, NEW r \in Process, NEW stage \in {"record", "release"},
           job[r].at \in Keyed, Settle(r, stage)
    PROVE  /\ job' \in [Process -> Job] /\ JobsOK'
           /\ \A q \in Process :
                \/ job'[q] = job[q] /\ q # r
                \/ /\ q \in {r} \cup Joined(r, job[r].key)
                   /\ job'[q].at = stage /\ job'[q].key = job[r].key
<1>2. ASSUME NEW q \in Process
      PROVE  /\ job'[q] \in Job
             /\ \/ job'[q] = job[q] /\ q # r
                \/ /\ q \in {r} \cup Joined(r, job[r].key)
                   /\ job'[q].at = stage /\ job'[q].key = job[r].key
  <2>1. CASE q \in {r} \cup Joined(r, job[r].key)
    <3>1. job[q].key = job[r].key
      BY <2>1 DEF Joined
    <3>2. job'[q] = [job[q] EXCEPT !.at = stage]
      BY <2>1 DEF Settle
    <3>3. job[q] \in Job /\ stage \in At
      BY JobAt DEF Keyed, At
    <3>. QED BY <2>1, <3>1, <3>2, <3>3 DEF Job
  <2>2. CASE q \notin {r} \cup Joined(r, job[r].key)
    <3>1. job'[q] = job[q]
      BY <2>2 DEF Settle
    <3>. QED BY <2>2, <3>1, JobAt
  <2>. QED BY <2>1, <2>2
<1>3. job' \in [Process -> Job]
  BY <1>2 DEF Settle
<1>4. job[r].key \in Key
  BY JobAt
<1>. QED BY <1>2, <1>3, <1>4 DEF JobsOK

-----------------------------------------------------------------------------
(***************************************************************************)
(* The inductive invariant.  A reserved generation is never a candidate    *)
(* for deletion; an active one has its bytes; while something is referred  *)
(* to there is an active generation, or it is still the bytes from before  *)
(* generations.  A deletion under way cannot meet bytes that count: its    *)
(* row is being deleted, or they are gone already or doubtful.  What a     *)
(* request or a collection knows to be written is so, or about to go.      *)
(***************************************************************************)
Written(k) == k \in stored \cup doubtful \/ row[k] \in {"candidate", "deleting", "deleted"}
Gone(k) == k \notin stored \/ k \in doubtful

Holding == {"bytes", "store", "joined", "check", "put", "record", "release"}
HoldsKeyed ==
    \A r \in Reporter : held[r] # NoKey => job[r].at \in Holding /\ held[r] = job[r].key
ReservedRows == \A k \in Key : Reserved(k) => row[k] \in {"active", "uploading"}
ActiveBytes == \A k \in Key : row[k] = "active" => k \in stored \cup doubtful
FirstReference ==
    referenced /\ In("active") = {} =>
        LegacyKey \in stored /\ \A k \in Key : row[k] \in {"none", "uploading"}

DeletionOK(j) ==
    /\ j.at \in {"delete", "finish"} => row[j.key] \notin {"none", "uploading"}
    /\ j.at = "delete" => row[j.key] = "deleting" \/ Gone(j.key)
    /\ j.at = "finish" => Gone(j.key)
\* p is a sweeper or a reporter.
KnowsOK(p, j) ==
    /\ j.at = "record" => Written(j.key)
    /\ j.at = "note" /\ p \in Sweeper => \A k \in j.todo : Written(k)
    /\ j.at = "note" /\ p \in Reporter => Written(LegacyKey)
JobsKept == \A p \in Process : DeletionOK(job[p]) /\ KnowsOK(p, job[p])
KnownWritten == \A t \in Runtime : \A k \in known[t] : Written(k)

Keep ==
    /\ HoldsKeyed /\ ReservedRows /\ ActiveBytes /\ FirstReference /\ JobsKept /\ KnownWritten
    /\ row[LegacyKey] # "uploading"
IInv == JobsOK /\ RowsOK /\ Keep

LEMMA IInvBytesKept == IInv => BytesKept
<1>. SUFFICES ASSUME IInv PROVE BytesKept
  OBVIOUS
<1>1. ASSUME NEW r \in Reporter, job[r].at = "record", held[r] # NoKey
      PROVE  held[r] \in stored \cup doubtful
  <2>1. r \in Process /\ held[r] = job[r].key /\ job[r].key \in Key
    BY <1>1, Keys, JobAt DEF IInv, Keep, HoldsKeyed, Keyed
  <2>2. Written(held[r])
    BY <1>1, <2>1 DEF IInv, Keep, JobsKept, KnowsOK
  <2>3. row[held[r]] \in {"active", "uploading"}
    BY <1>1, <2>1 DEF IInv, Keep, ReservedRows, Reserved
  <2>. QED BY <2>2, <2>3 DEF Written
<1>2. ASSUME referenced PROVE Current \subseteq stored \cup doubtful
  <2>1. CASE In("active") # {}
    <3>1. Current \subseteq In("active")
      BY <2>1 DEF Current, First
    <3>. QED BY <3>1 DEF In, IInv, Keep, ActiveBytes
  <2>2. CASE In("active") = {}
    BY <1>2, <2>2 DEF Current, IInv, Keep, FirstReference
  <2>. QED BY <2>1, <2>2
<1>. QED BY <1>1, <1>2 DEF BytesKept, ReservedBytesSurvive, ReferencedBytesExist

LEMMA IInvInit == BlobsInit => IInv
<1>. SUFFICES ASSUME BlobsInit PROVE IInv
  OBVIOUS
<1>1. \A p \in Process : job[p] = Idle
  BY DEF BlobsInit
<1>2. JobsOK
  BY <1>1, Keys DEF BlobsInit, JobsOK, Keyed
<1>3. RowsOK
  <2>1. row \in [Key -> RowState]
    BY DEF BlobsInit, RowState
  <2>2. stored \in SUBSET Key /\ referenced \in BOOLEAN
    BY Keys DEF BlobsInit
  <2>. QED BY <2>1, <2>2, TileBlobsAssumption DEF BlobsInit, RowsOK
<1>4. \A k \in Key : ~Reserved(k)
  BY Keys DEF BlobsInit, Reserved
<1>5. HoldsKeyed /\ ReservedRows /\ ActiveBytes /\ KnownWritten
  BY <1>4 DEF BlobsInit, HoldsKeyed, ReservedRows, ActiveBytes, KnownWritten
<1>6. FirstReference
  BY DEF BlobsInit, FirstReference
<1>7. JobsKept
  BY <1>1, Keys DEF JobsKept, DeletionOK, KnowsOK
<1>. QED BY <1>2, <1>3, <1>5, <1>6, <1>7, Keys DEF IInv, Keep, BlobsInit

\* Steps that change no row, no bytes and no reference, and reserve nothing.
LEMMA QuietKeep ==
    ASSUME IInv, JobsOK', UNCHANGED <<row, stored, referenced, doubtful>>, HoldsKeyed',
           \A k \in Key : Reserved(k)' => Reserved(k),
           \A p \in Process : job'[p].at \in {"delete", "finish"} => job'[p] = job[p],
           \A p \in Process : job'[p] = job[p] \/ KnowsOK(p, job'[p]),
           \A t \in Runtime : \A k \in known'[t] : Written(k)
    PROVE  Keep'
<1>1. ReservedRows' /\ ActiveBytes' /\ FirstReference'
  BY DEF IInv, Keep, ReservedRows, ActiveBytes, FirstReference, In
<1>2. \A k : (Written(k)' <=> Written(k)) /\ (Gone(k)' <=> Gone(k))
  BY DEF Written, Gone
<1>3. KnownWritten'
  BY <1>2 DEF KnownWritten
<1>4. JobsKept'
  <2>1. ASSUME NEW p \in Process PROVE DeletionOK(job[p])'
    <3>1. CASE job'[p].at \in {"delete", "finish"}
      <4>1. job'[p] = job[p] /\ DeletionOK(job[p])
        BY <3>1 DEF IInv, Keep, JobsKept
      <4>. QED BY <1>2, <4>1 DEF DeletionOK
    <3>2. CASE job'[p].at \notin {"delete", "finish"}
      BY <3>2 DEF DeletionOK
    <3>. QED BY <3>1, <3>2
  <2>2. ASSUME NEW p \in Process PROVE KnowsOK(p, job[p])'
    <3>1. KnowsOK(p, job'[p])
      BY DEF IInv, Keep, JobsKept
    <3>. QED BY <1>2, <3>1 DEF KnowsOK
  <2>. QED BY <2>1, <2>2 DEF JobsKept
<1>. QED BY <1>1, <1>3, <1>4 DEF IInv, Keep

LEMMA StepAside ==
    ASSUME IInv, NEW p \in Process, Moves(p),
           UNCHANGED <<row, stored, referenced, doubtful, held, stray, known>>,
           calls' \in 0 .. MaxCalls, faults' \in 0 .. MaxFaults,
           job'[p].at \in Keyed => job'[p].key \in Key,
           job[p].at \in Holding => job'[p].at \in Holding /\ job'[p].key = job[p].key,
           job'[p].at \notin {"delete", "finish"}, KnowsOK(p, job'[p])
    PROVE  IInv'
<1>1. JobsOK' /\ RowsOK'
  BY MovedOK DEF IInv, RowsOK
<1>2. HoldsKeyed'
  <2>1. ASSUME NEW r \in Reporter, held[r] # NoKey
        PROVE  job'[r].at \in Holding /\ held[r] = job'[r].key
    <3>1. job[r].at \in Holding /\ held[r] = job[r].key /\ r \in Process
      BY <2>1, Keys DEF IInv, Keep, HoldsKeyed
    <3>. QED BY <3>1 DEF Moves
  <2>. QED BY <2>1 DEF HoldsKeyed
<1>3. \A k \in Key : Reserved(k)' => Reserved(k)
  BY DEF Reserved
<1>4. \A q \in Process : job'[q].at \in {"delete", "finish"} => job'[q] = job[q]
  BY DEF Moves
<1>5. \A q \in Process : job'[q] = job[q] \/ KnowsOK(q, job'[q])
  BY DEF Moves
<1>6. \A t \in Runtime : \A k \in known'[t] : Written(k)
  BY DEF IInv, Keep, KnownWritten
<1>7. Keep'
  BY <1>1, <1>2, <1>3, <1>4, <1>5, <1>6, QuietKeep
<1>. QED BY <1>1, <1>7 DEF IInv

\* The same, for a step that only goes on.
LEMMA GoesAside ==
    ASSUME IInv, NEW p \in Process, NEW stage \in At, Goto(p, stage),
           UNCHANGED <<row, stored, referenced, doubtful, held, stray, known, calls, faults>>,
           stage \in Keyed => job[p].key \in Key,
           job[p].at \in Holding => stage \in Holding,
           stage \notin {"delete", "finish", "note"}, stage = "record" => Written(job[p].key)
    PROVE  IInv'
<1>1. Moves(p) /\ job'[p].at = stage /\ job'[p].key = job[p].key
  BY GotoJob DEF IInv
<1>2. KnowsOK(p, job'[p])
  BY <1>1 DEF KnowsOK
<1>3. calls' \in 0 .. MaxCalls /\ faults' \in 0 .. MaxFaults
  BY DEF IInv, RowsOK
<1>. QED BY <1>1, <1>2, <1>3, StepAside

LEMMA DoneAside ==
    ASSUME IInv, NEW p \in Process, Done(p), job[p].at \notin Holding,
           UNCHANGED <<row, stored, referenced, doubtful, held, stray, known, calls, faults>>
    PROVE  IInv'
<1>1. Moves(p) /\ job'[p] = Idle
  BY DoneJob DEF IInv
<1>2. calls' \in 0 .. MaxCalls /\ faults' \in 0 .. MaxFaults
  BY DEF IInv, RowsOK
<1>. QED BY <1>1, <1>2, Keys, StepAside DEF KnowsOK, Keyed

LEMMA OfferKeeps == ASSUME IInv, NEW r \in Reporter, Offer(r) \/ Upload(r) PROVE IInv'
<1>0. r \in Process /\ calls' \in 0 .. MaxCalls /\ faults' \in 0 .. MaxFaults
  BY Keys, TileBlobsAssumption DEF IInv, RowsOK, Offer, Upload
<1>1. PICK j \in Job : /\ job' = [job EXCEPT ![r] = j] /\ j.at \in {"reserve", "legacy", "upload"}
  <2>1. /\ [Idle EXCEPT !.at = "reserve", !.kind = "offer"] \in Job
        /\ [Idle EXCEPT !.at = "legacy", !.kind = "legacy"] \in Job
        /\ [Idle EXCEPT !.at = "upload", !.kind = "upload"] \in Job
    BY Keys DEF Job, At, Kind, Idle
  <2>. QED BY <2>1 DEF Offer, Upload, Idle
<1>2. Moves(r) /\ job'[r] = j
  BY <1>0, <1>1, PutJob DEF IInv
<1>3. job[r].at = "idle"
  BY Keys DEF Offer, Upload
<1>4. UNCHANGED <<row, stored, referenced, doubtful, held, stray, known>>
  BY DEF Offer, Upload
<1>5. KnowsOK(r, job'[r])
  BY <1>1, <1>2 DEF KnowsOK
<1>. QED BY <1>0, <1>1, <1>2, <1>3, <1>4, <1>5, StepAside DEF Keyed, Holding

LEMMA LegacyBytesKeeps == ASSUME IInv, NEW r \in Reporter, LegacyBytes(r) PROVE IInv'
<1>0. r \in Process /\ calls' \in 0 .. MaxCalls /\ faults' \in 0 .. MaxFaults
  BY Keys DEF IInv, RowsOK, LegacyBytes
<1>1. job[r].at = "legacy" /\ UNCHANGED <<row, stored, referenced, doubtful, held, stray, known>>
  BY DEF LegacyBytes
<1>2. CASE LegacyKey \in stored
  <2>1. Moves(r) /\ job'[r].at = "note"
    BY <1>0, <1>2, GotoJob DEF IInv, LegacyBytes, At
  <2>2. r \notin Sweeper
    BY TileBlobsAssumption
  <2>3. KnowsOK(r, job'[r])
    BY <1>2, <2>1, <2>2 DEF KnowsOK, Written
  <2>. QED BY <1>0, <1>1, <2>1, <2>3, StepAside DEF Keyed, Holding
<1>3. CASE LegacyKey \notin stored
  BY <1>0, <1>1, <1>3, DoneAside DEF LegacyBytes, Holding
<1>. QED BY <1>2, <1>3

LEMMA ReservedBytesKeeps == ASSUME IInv, NEW r \in Reporter, ReservedBytes(r) PROVE IInv'
<1>0. r \in Process /\ job[r].at = "bytes" /\ job[r].key \in Key
  BY Keys, JobAt DEF IInv, ReservedBytes, Keyed
<1>1. PICK s : s = IF job[r].key \in stored THEN "record" ELSE "release"
  OBVIOUS
<1>2. Goto(r, s) /\ s \in At /\ s \in Holding /\ s \in Keyed
      /\ s \notin {"delete", "finish", "note"}
  BY <1>1 DEF ReservedBytes, At, Holding, Keyed
<1>3. s = "record" => Written(job[r].key)
  BY <1>1 DEF Written
<1>4. UNCHANGED <<row, stored, referenced, doubtful, held, stray, known, calls, faults>>
  BY DEF ReservedBytes
<1>. QED BY <1>0, <1>2, <1>3, <1>4, GoesAside

LEMMA RecoverKeeps == ASSUME IInv, NEW r \in Reporter, Recover(r) PROVE IInv'
<1>0. r \in Process /\ job[r].at = "recover" /\ r \notin Sweeper
      /\ UNCHANGED <<row, stored, referenced, doubtful, held, stray, known, calls, faults>>
  BY Keys, TileBlobsAssumption DEF Recover
<1>1. CASE Fenced
  <2>1. Moves(r) /\ job'[r].at = "claim"
    BY <1>0, <1>1 DEF Recover, IInv, JobsOK, Moves, Job, At, In
  <2>2. KnowsOK(r, job'[r])
    BY <2>1 DEF KnowsOK
  <2>. QED BY <1>0, <2>1, <2>2, StepAside DEF Keyed, Holding, IInv, RowsOK
<1>2. CASE ~Fenced
  BY <1>0, <1>2, DoneAside DEF Recover, Holding
<1>. QED BY <1>1, <1>2

LEMMA StoreKeeps == ASSUME IInv, NEW r \in Reporter, Store(r) PROVE IInv'
<1>0. r \in Process /\ job[r].at = "store" /\ job[r].key \in Key /\ RuntimeOf[r] \in Runtime
  BY Keys, JobAt DEF IInv, Store, Keyed
<1>1. PICK s : s = IF job[r].key \in known[RuntimeOf[r]] THEN "record"
                   ELSE IF Putting(r, job[r].key) # {} THEN "joined" ELSE "check"
  OBVIOUS
<1>2. Goto(r, s) /\ s \in At /\ s \in Holding /\ s \in Keyed
      /\ s \notin {"delete", "finish", "note"}
  BY <1>1 DEF Store, At, Holding, Keyed
<1>3. s = "record" => Written(job[r].key)
  BY <1>0, <1>1 DEF IInv, Keep, KnownWritten
<1>4. UNCHANGED <<row, stored, referenced, doubtful, held, stray, known, calls, faults>>
  BY DEF Store
<1>. QED BY <1>0, <1>2, <1>3, <1>4, GoesAside

LEMMA WorkDoneKeeps == ASSUME IInv, NEW p \in Process, WorkDone(p) PROVE IInv'
<1>1. job[p].at = "claim"
      /\ UNCHANGED <<row, stored, referenced, doubtful, held, stray, known, calls, faults>>
  BY DEF WorkDone
<1>2. CASE p \in Reporter
  <2>1. Goto(p, "again") /\ "again" \in At /\ "again" \notin Keyed
    BY <1>2 DEF WorkDone, At, Keyed
  <2>. QED BY <1>1, <2>1, GoesAside DEF Holding
<1>3. CASE p \notin Reporter
  BY <1>1, <1>3, DoneAside DEF WorkDone, Holding
<1>. QED BY <1>2, <1>3

LEMMA ListKeeps == ASSUME IInv, NEW g \in Sweeper, ListPage(g) \/ ListWork(g) PROVE IInv'
<1>0. /\ g \in Process /\ g \notin Reporter /\ job[g].at \in {"idle", "note"}
      /\ UNCHANGED <<row, stored, referenced, doubtful, held, stray, known, calls, faults>>
  BY Keys, TileBlobsAssumption DEF ListPage, ListWork
<1>1. CASE ListPage(g)
  <2>1. Moves(g) /\ job'[g].at = "note" /\ job'[g].todo = stored
    <3>. DEFINE j == [Idle EXCEPT !.at = "note", !.kind = "sweep", !.todo = stored]
    <3>1. j \in Job /\ j.at = "note" /\ j.todo = stored
      BY Keys DEF Job, At, Kind, IInv, RowsOK
    <3>2. job' = [job EXCEPT ![g] = j]
      BY <1>1 DEF ListPage
    <3>. HIDE DEF j
    <3>. QED BY <1>0, <3>1, <3>2, PutJob DEF IInv
  <2>2. KnowsOK(g, job'[g])
    BY <1>0, <2>1 DEF KnowsOK, Written
  <2>. QED BY <1>0, <2>1, <2>2, StepAside DEF Keyed, Holding, IInv, RowsOK
<1>2. CASE ListWork(g)
  <2>1. Moves(g) /\ job'[g].at = "claim"
    <3>1. PICK work \in SUBSET Key : work = DeletionWork
      BY DEF DeletionWork, In
    <3>2. job' = [job EXCEPT ![g].at = "claim", ![g].todo = work]
      BY <1>2, <3>1 DEF ListWork
    <3>3. PICK j : j = [job[g] EXCEPT !.at = "claim", !.todo = work]
      OBVIOUS
    <3>4. j \in Job /\ j.at = "claim"
      BY <1>0, <3>1, <3>3, JobAt DEF IInv, Job, At
    <3>5. job' = [job EXCEPT ![g] = j]
      BY <3>2, <3>3
    <3>. QED BY <1>0, <3>4, <3>5, PutJob DEF IInv
  <2>2. KnowsOK(g, job'[g])
    BY <2>1 DEF KnowsOK
  <2>. QED BY <1>0, <2>1, <2>2, StepAside DEF Keyed, Holding, IInv, RowsOK
<1>. QED BY <1>1, <1>2

-----------------------------------------------------------------------------
(* Reservations end, and PUTs are skipped.                                 *)

LEMMA ReleaseKeeps == ASSUME IInv, NEW r \in Reporter, Release(r) PROVE IInv'
<1>1. r \in Process /\ Moves(r) /\ job'[r] = Idle
  BY Keys, DoneJob DEF IInv, Release
<1>2. JobsOK' /\ RowsOK'
  BY <1>1, Keys, MovedOK DEF IInv, RowsOK, Release, Keyed
<1>3. held' = [held EXCEPT ![r] = NoKey] /\ stray' = stray /\ known' = known
      /\ UNCHANGED <<row, stored, referenced, doubtful>>
  BY DEF Release
<1>4. \A q \in Reporter : held'[q] = NoKey \/ (held'[q] = held[q] /\ q # r)
  BY <1>3 DEF IInv, RowsOK
<1>5. HoldsKeyed'
  BY <1>1, <1>4, Keys DEF IInv, Keep, HoldsKeyed, Moves
<1>6. \A k \in Key : Reserved(k)' => Reserved(k)
  BY <1>3, <1>4, Keys DEF Reserved
<1>7. \A q \in Process : job'[q].at \in {"delete", "finish"} => job'[q] = job[q]
  BY <1>1, Keys DEF Moves
<1>8. \A q \in Process : job'[q] = job[q] \/ KnowsOK(q, job'[q])
  BY <1>1, Keys DEF Moves, KnowsOK
<1>9. \A t \in Runtime : \A k \in known'[t] : Written(k)
  BY <1>3 DEF IInv, Keep, KnownWritten
<1>10. Keep'
  BY <1>2, <1>3, <1>5, <1>6, <1>7, <1>8, <1>9, QuietKeep
<1>. QED BY <1>2, <1>10 DEF IInv

LEMMA LapseKeeps == ASSUME IInv, Lapse PROVE IInv'
<1>1. UNCHANGED <<row, stored, referenced, doubtful, job, known, calls, faults>>
  BY DEF Lapse
<1>2. held' \in [Reporter -> Key \cup {NoKey}] /\ stray' \subseteq stray
      /\ \A q \in Reporter : held'[q] = NoKey \/ held'[q] = held[q]
  BY DEF Lapse, IInv, RowsOK
<1>3. JobsOK' /\ RowsOK'
  BY <1>1, <1>2 DEF IInv, JobsOK, RowsOK
<1>4. HoldsKeyed'
  BY <1>1, <1>2 DEF IInv, Keep, HoldsKeyed
<1>5. \A k \in Key : Reserved(k)' => Reserved(k)
  BY <1>2, Keys DEF Reserved
<1>6. \A t \in Runtime : \A k \in known'[t] : Written(k)
  BY <1>1 DEF IInv, Keep, KnownWritten
<1>7. Keep'
  BY <1>1, <1>3, <1>4, <1>5, <1>6, QuietKeep
<1>. QED BY <1>3, <1>7 DEF IInv

LEMMA CrashKeepsBytes == ASSUME IInv, NEW t \in Runtime, Crash(t) PROVE IInv'
<1>. DEFINE gone == {r \in Reporter : RuntimeOf[r] = t}
<1>1. /\ UNCHANGED <<row, stored, referenced, doubtful, calls>>
      /\ stray' = stray \cup ({held[r] : r \in gone} \ {NoKey})
      /\ held' = [r \in Reporter |-> IF r \in gone THEN NoKey ELSE held[r]]
      /\ job' = [p \in Process |-> IF p \in gone THEN Idle ELSE job[p]]
      /\ known' = [known EXCEPT ![t] = {}]
      /\ faults' \in 0 .. MaxFaults
  BY TileBlobsAssumption DEF Crash, IInv, RowsOK
<1>2. \A p \in Process : job'[p] = Idle \/ job'[p] = job[p]
  BY <1>1
<1>3. JobsOK'
  <2>1. job' \in [Process -> Job]
    BY <1>1, Keys DEF IInv, JobsOK
  <2>. QED BY <1>2, <2>1, Keys DEF IInv, JobsOK, Keyed
<1>4. \A r \in gone : held[r] \in Key \cup {NoKey}
  BY DEF IInv, RowsOK
<1>5. RowsOK'
  <2>1. stray' \in SUBSET Key
    BY <1>1, <1>4 DEF IInv, RowsOK
  <2>2. held' \in [Reporter -> Key \cup {NoKey}] /\ known' \in [Runtime -> SUBSET Key]
    BY <1>1 DEF IInv, RowsOK
  <2>. QED BY <1>1, <2>1, <2>2 DEF IInv, RowsOK
<1>6. HoldsKeyed'
  <2>1. ASSUME NEW r \in Reporter, held'[r] # NoKey
        PROVE  job'[r].at \in Holding /\ held'[r] = job'[r].key
    <3>1. r \notin gone /\ held'[r] = held[r]
      BY <1>1, <2>1
    <3>2. job'[r] = job[r]
      BY <1>1, <3>1, Keys
    <3>. QED BY <2>1, <3>1, <3>2 DEF IInv, Keep, HoldsKeyed
  <2>. QED BY <2>1 DEF HoldsKeyed
<1>7. ASSUME NEW k \in Key, Reserved(k)' PROVE Reserved(k)
  <2>1. CASE k \in stray'
    BY <1>1, <2>1 DEF Reserved
  <2>2. CASE \E r \in Reporter : held'[r] = k
    BY <1>1, <2>2, Keys DEF Reserved
  <2>. QED BY <1>7, <2>1, <2>2 DEF Reserved
<1>8. \A q \in Process : job'[q].at \in {"delete", "finish"} => job'[q] = job[q]
  BY <1>2, Keys
<1>9. \A q \in Process : job'[q] = job[q] \/ KnowsOK(q, job'[q])
  BY <1>2, Keys DEF KnowsOK
<1>10. \A u \in Runtime : \A k \in known'[u] : Written(k)
  BY <1>1 DEF IInv, RowsOK, Keep, KnownWritten
<1>11. Keep'
  BY <1>1, <1>3, <1>6, <1>7, <1>8, <1>9, <1>10, QuietKeep
<1>. QED BY <1>3, <1>5, <1>11 DEF IInv

LEMMA ForgetKeeps == ASSUME IInv, Forget PROVE IInv'
<1>1. UNCHANGED <<row, stored, doubtful, job, held, stray, known, calls, faults>> /\ ~referenced'
  BY DEF Forget
<1>2. JobsOK' /\ RowsOK'
  BY <1>1 DEF IInv, JobsOK, RowsOK, Forget
<1>3. HoldsKeyed' /\ ReservedRows' /\ ActiveBytes' /\ FirstReference'
  BY <1>1 DEF IInv, Keep, HoldsKeyed, ReservedRows, Reserved, ActiveBytes, FirstReference
<1>4. JobsKept' /\ KnownWritten'
  BY <1>1 DEF IInv, Keep, JobsKept, DeletionOK, KnowsOK, KnownWritten, Written, Gone
<1>. QED BY <1>1, <1>2, <1>3, <1>4 DEF IInv, Keep

\* What a settled PUT, or a skipped or failed one, does to the requests.
LEMMA SettleKeeps ==
    ASSUME IInv, NEW r \in Process, NEW stage \in {"record", "release"},
           job[r].at \in Keyed, Settle(r, stage), held' = held
    PROVE  /\ JobsOK' /\ HoldsKeyed'
           /\ \A q \in Process : job'[q].at \in {"delete", "finish"} => job'[q] = job[q]
           /\ \A q \in Process : job'[q] = job[q] \/ (job'[q].at = stage /\ job'[q].key = job[r].key)
<1>1. stage \in Holding
  BY DEF Holding
<1>2. /\ JobsOK'
      /\ \A q \in Process :
           \/ job'[q] = job[q] /\ q # r
           \/ /\ q \in {r} \cup Joined(r, job[r].key)
              /\ job'[q].at = stage /\ job'[q].key = job[r].key
  BY <1>1, SettleJob DEF IInv
<1>3. ASSUME NEW q \in Reporter, held'[q] # NoKey
      PROVE  job'[q].at \in Holding /\ held'[q] = job'[q].key
  <2>1. job[q].at \in Holding /\ held[q] = job[q].key /\ q \in Process
    BY <1>3, Keys DEF IInv, Keep, HoldsKeyed
  <2>2. CASE job'[q] = job[q]
    BY <2>1, <2>2
  <2>3. CASE /\ q \in {r} \cup Joined(r, job[r].key)
             /\ job'[q].at = stage /\ job'[q].key = job[r].key
    <3>1. job[q].key = job[r].key
      BY <2>3 DEF Joined
    <3>. QED BY <1>1, <2>1, <2>3, <3>1
  <2>. QED BY <1>2, <2>1, <2>2, <2>3
<1>. QED BY <1>2, <1>3 DEF HoldsKeyed

LEMMA CheckStoredKeeps == ASSUME IInv, NEW r \in Reporter, CheckStored(r) PROVE IInv'
<1>0. r \in Process /\ job[r].at = "check" /\ job[r].key \in Key /\ job[r].at \in Keyed
      /\ UNCHANGED <<row, stored, referenced, held, stray, calls, faults, doubtful>>
  BY Keys, JobAt DEF IInv, CheckStored, Keyed
<1>1. CASE job[r].key \in First(In("active"))
  <2>1. Settle(r, "record") /\ Remember(r)
    BY <1>1 DEF CheckStored
  <2>2. Written(job[r].key)
    BY <1>0, <1>1 DEF First, In, IInv, Keep, ActiveBytes, Written
  <2>3. /\ JobsOK' /\ HoldsKeyed'
        /\ \A q \in Process : job'[q].at \in {"delete", "finish"} => job'[q] = job[q]
        /\ \A q \in Process : job'[q] = job[q] \/ (job'[q].at = "record" /\ job'[q].key = job[r].key)
    BY <1>0, <2>1, SettleKeeps
  <2>4. \A q \in Process : job'[q] = job[q] \/ KnowsOK(q, job'[q])
    BY <2>2, <2>3 DEF KnowsOK
  <2>5. known' \in [Runtime -> SUBSET Key] /\ \A t \in Runtime : \A k \in known'[t] : Written(k)
    BY <1>0, <2>1, <2>2, Keys DEF Remember, IInv, RowsOK, Keep, KnownWritten
  <2>6. \A k \in Key : Reserved(k)' => Reserved(k)
    BY <1>0 DEF Reserved
  <2>7. Keep'
    BY <1>0, <2>3, <2>4, <2>5, <2>6, QuietKeep
  <2>8. RowsOK'
    BY <1>0, <2>5 DEF IInv, RowsOK
  <2>. QED BY <2>3, <2>7, <2>8 DEF IInv
<1>2. CASE job[r].key \notin First(In("active"))
  <2>1. Goto(r, "put") /\ known' = known /\ "put" \in At /\ "put" \in Holding
    BY <1>2 DEF CheckStored, At, Holding
  <2>. QED BY <1>0, <2>1, GoesAside
<1>. QED BY <1>1, <1>2

-----------------------------------------------------------------------------
(* Steps that change the row of one generation.                            *)

\* What such a step must not do to those who know or delete the generation.
RowStep(k, s) ==
    /\ row' = [row EXCEPT ![k] = s]
    /\ stored' = stored /\ doubtful \subseteq doubtful' /\ doubtful' \subseteq Key
    /\ row[k] # "deleting" \/ s = "deleting" \/ (s = "deleted" /\ Gone(k))
    /\ s \in {"none", "uploading"} => row[k] = "none" /\ k # LegacyKey
    /\ row[k] = "none" \/ s \in {"candidate", "deleting", "deleted"} \/ k \in stored \cup doubtful'
    /\ s = "active" => k \in stored \cup doubtful'

LEMMA RowStepKeeps ==
    ASSUME IInv, NEW k \in Key, NEW s \in RowState, RowStep(k, s)
    PROVE  /\ ActiveBytes' /\ row'[LegacyKey] # "uploading"
           /\ \A x \in Key : Written(x) => Written(x)'
           /\ \A j \in Job : j.key \in Key /\ DeletionOK(j) => DeletionOK(j)'
           /\ row' \in [Key -> RowState] /\ row'[k] = s
           /\ \A x \in Key \ {k} : row'[x] = row[x]
<1>1. row' \in [Key -> RowState] /\ row'[k] = s /\ \A x \in Key \ {k} : row'[x] = row[x]
  BY DEF RowStep, IInv, RowsOK
<1>2. stored' = stored /\ doubtful \subseteq doubtful'
  BY DEF RowStep
<1>3. ActiveBytes'
  BY <1>1, <1>2 DEF RowStep, IInv, Keep, ActiveBytes
<1>4. row'[LegacyKey] # "uploading"
  BY <1>1, Keys DEF RowStep, IInv, Keep
<1>5. ASSUME NEW x \in Key, Written(x) PROVE Written(x)'
  <2>1. CASE x = k
    BY <1>1, <1>2, <1>5, <2>1 DEF RowStep, Written
  <2>2. CASE x # k
    BY <1>1, <1>2, <1>5, <2>2 DEF Written
  <2>. QED BY <2>1, <2>2
<1>6. ASSUME NEW j \in Job, j.key \in Key, DeletionOK(j) PROVE DeletionOK(j)'
  <2>1. Gone(j.key) => Gone(j.key)'
    BY <1>2 DEF Gone
  <2>2. CASE j.key = k
    BY <1>1, <1>6, <2>1, <2>2 DEF RowStep, DeletionOK
  <2>3. CASE j.key # k
    BY <1>1, <1>6, <2>1, <2>3 DEF DeletionOK
  <2>. QED BY <2>2, <2>3
<1>. QED BY <1>1, <1>3, <1>4, <1>5, <1>6

LEMMA RowKeep ==
    ASSUME IInv, NEW k \in Key, NEW s \in RowState, RowStep(k, s),
           JobsOK', HoldsKeyed', FirstReference',
           \A x \in Key \ {k} : Reserved(x)' => Reserved(x),
           s \in {"active", "uploading"} \/ ~Reserved(k)',
           \A p \in Process : job'[p] = job[p] \/ DeletionOK(job[p])',
           \A p \in Process : job'[p] = job[p] \/ KnowsOK(p, job'[p])
                              \/ job'[p].at \notin {"note", "record"}
                              \/ (job'[p].at = "record" /\ Written(job[p].key)'),
           known' = known
    PROVE  Keep'
<1>1. /\ ActiveBytes' /\ row'[LegacyKey] # "uploading"
      /\ \A x \in Key : Written(x) => Written(x)'
      /\ \A j \in Job : j.key \in Key /\ DeletionOK(j) => DeletionOK(j)'
      /\ row'[k] = s /\ \A x \in Key \ {k} : row'[x] = row[x]
  BY RowStepKeeps
<1>2. ReservedRows'
  BY <1>1 DEF IInv, Keep, ReservedRows
<1>3. KnownWritten'
  BY <1>1 DEF IInv, RowsOK, Keep, KnownWritten
<1>4. ASSUME NEW p \in Process PROVE DeletionOK(job[p])'
  <2>1. CASE job'[p] = job[p] /\ job[p].at \in {"delete", "finish"}
    <3>1. job[p] \in Job /\ job[p].key \in Key /\ DeletionOK(job[p])
      BY <2>1, JobAt DEF IInv, Keep, JobsKept, Keyed
    <3>2. PICK j \in Job : j = job[p]
      BY <3>1
    <3>3. DeletionOK(j)'
      BY <1>1, <3>1, <3>2
    <3>. QED BY <2>1, <3>2, <3>3 DEF DeletionOK
  <2>2. CASE job'[p] = job[p] /\ job[p].at \notin {"delete", "finish"}
    BY <2>2 DEF DeletionOK
  <2>. QED BY <2>1, <2>2
<1>5. ASSUME NEW p \in Process PROVE KnowsOK(p, job[p])'
  <2>1. job'[p] \in Job /\ (job'[p].at = "record" => job'[p].key \in Key)
        /\ job'[p].todo \subseteq Key
    BY DEF JobsOK, Job, Keyed
  <2>2. CASE KnowsOK(p, job'[p])
    BY <1>1, <2>1, <2>2, Keys DEF KnowsOK
  <2>3. CASE job'[p] = job[p]
    BY <1>1, <2>1, <2>2, <2>3 DEF IInv, Keep, JobsKept
  <2>4. CASE job'[p].at \notin {"note", "record"}
    BY <2>4 DEF KnowsOK
  <2>5. CASE job'[p].at = "record" /\ Written(job[p].key)'
    BY <2>5 DEF KnowsOK
  <2>. QED BY <2>2, <2>3, <2>4, <2>5
<1>6. JobsKept'
  BY <1>4, <1>5 DEF JobsKept
<1>. QED BY <1>1, <1>2, <1>3, <1>6 DEF Keep

\* While a generation is active, the first reference is over.
LEMMA ActiveRefers == ASSUME NEW k \in Key, row'[k] = "active" PROVE FirstReference'
  BY DEF FirstReference, In

\* An object that was found is active only where its bytes are.
LEMMA NotedStep ==
    ASSUME IInv, NEW k \in Key, Written(k), row' = [row EXCEPT ![k] = Noted(k)],
           UNCHANGED <<stored, doubtful, held, stray, referenced>>
    PROVE  /\ Noted(k) \in RowState /\ RowStep(k, Noted(k)) /\ FirstReference'
           /\ Noted(k) \in {"active", "uploading"} \/ ~Reserved(k)'
<1>0. row \in [Key -> RowState] /\ doubtful \subseteq Key /\ Reserved(k)' = Reserved(k)
  BY DEF IInv, RowsOK, Reserved
<1>1. CASE row[k] = "deleting"
  <2>1. Noted(k) = "deleting" /\ ~Reserved(k)
    BY <1>1 DEF Noted, IInv, Keep, ReservedRows
  <2>2. row' = row
    BY <1>0, <1>1, <2>1
  <2>3. FirstReference'
    BY <2>2 DEF FirstReference, In, IInv, Keep
  <2>. QED BY <1>0, <1>1, <2>1, <2>3 DEF RowStep, RowState
<1>2. CASE row[k] # "deleting" /\ Noted(k) = "active"
  <2>1. \/ Reserved(k)
        \/ referenced /\ (row[k] = "active" \/ In("active") \ {k} = {})
    BY <1>2 DEF Noted
  <2>2. k \in stored \cup doubtful
    <3>1. CASE row[k] \in {"active", "uploading", "none"}
      BY <3>1 DEF Written
    <3>2. CASE row[k] \notin {"active", "uploading", "none"}
      <4>1. referenced /\ In("active") = {}
        BY <2>1, <3>2 DEF IInv, Keep, ReservedRows, In
      <4>. QED BY <3>2, <4>1 DEF IInv, Keep, FirstReference
    <3>. QED BY <3>1, <3>2
  <2>3. FirstReference'
    BY <1>0, <1>2, ActiveRefers
  <2>. QED BY <1>0, <1>2, <2>2, <2>3 DEF RowStep, RowState
<1>3. CASE row[k] # "deleting" /\ Noted(k) # "active"
  <2>1. /\ Noted(k) = "candidate" /\ ~Reserved(k)
        /\ referenced => row[k] # "active" /\ In("active") \ {k} # {}
    BY <1>3 DEF Noted
  <2>2. FirstReference'
    <3>1. CASE referenced
      <4>1. PICK x \in Key : x # k /\ row[x] = "active"
        BY <2>1, <3>1 DEF In
      <4>2. row'[x] = "active"
        BY <4>1, <1>0
      <4>. QED BY <4>2, ActiveRefers
    <3>2. CASE ~referenced
      BY <3>2 DEF FirstReference
    <3>. QED BY <3>1, <3>2
  <2>. QED BY <1>0, <1>3, <2>1, <2>2 DEF RowStep, RowState
<1>. QED BY <1>1, <1>2, <1>3

\* One process notes an object, and has neither a deletion nor a new claim on it.
LEMMA NotingKeeps ==
    ASSUME IInv, NEW p \in Process, NEW k \in Key, Written(k), Moves(p),
           row' = [row EXCEPT ![k] = Noted(k)],
           UNCHANGED <<stored, doubtful, held, stray, referenced, known, calls, faults>>,
           job[p].at = "note", job'[p].at \in {"note", "reserve"}, KnowsOK(p, job'[p])
    PROVE  IInv'
<1>1. /\ Noted(k) \in RowState /\ RowStep(k, Noted(k)) /\ FirstReference'
      /\ Noted(k) \in {"active", "uploading"} \/ ~Reserved(k)'
  BY NotedStep
<1>2. JobsOK'
  BY MovedOK DEF IInv, Keyed
<1>3. RowsOK'
  BY <1>1 DEF IInv, RowsOK
<1>4. HoldsKeyed'
  <2>1. ASSUME NEW r \in Reporter, held[r] # NoKey
        PROVE  job'[r].at \in Holding /\ held[r] = job'[r].key
    <3>1. job[r].at \in Holding /\ held[r] = job[r].key /\ r \in Process /\ r # p
      BY <2>1, Keys DEF IInv, Keep, HoldsKeyed, Holding
    <3>. QED BY <3>1 DEF Moves
  <2>. QED BY <2>1 DEF HoldsKeyed
<1>5. \A x \in Key \ {k} : Reserved(x)' => Reserved(x)
  BY DEF Reserved
<1>6. \A q \in Process : job'[q] = job[q] \/ (DeletionOK(job[q])' /\ KnowsOK(q, job'[q]))
  BY DEF Moves, DeletionOK
<1>7. Keep'
  BY <1>1, <1>2, <1>4, <1>5, <1>6, RowKeep
<1>. QED BY <1>2, <1>3, <1>7 DEF IInv

LEMMA NoteKeeps == ASSUME IInv, NEW g \in Sweeper, Note(g) PROVE IInv'
<1>1. g \in Process /\ g \notin Reporter /\ job[g].at = "note" /\ job[g].todo \subseteq Key
  BY Keys, TileBlobsAssumption, JobAt DEF Note, IInv
<1>2. PICK k \in job[g].todo : /\ row' = [row EXCEPT ![k] = Noted(k)]
                               /\ job' = [job EXCEPT ![g].todo = @ \ {k}]
  BY DEF Note
<1>3. k \in Key /\ \A x \in job[g].todo : Written(x)
  BY <1>1, <1>2 DEF IInv, Keep, JobsKept, KnowsOK
<1>4. Moves(g) /\ job'[g].at = "note" /\ job'[g].todo = job[g].todo \ {k}
  BY <1>1, <1>2 DEF IInv, JobsOK, Moves, Job
<1>5. KnowsOK(g, job'[g])
  BY <1>1, <1>3, <1>4 DEF KnowsOK
<1>6. UNCHANGED <<stored, doubtful, held, stray, referenced, known, calls, faults>>
  BY DEF Note
<1>. QED BY <1>1, <1>2, <1>3, <1>4, <1>5, <1>6, NotingKeeps

LEMMA LegacyNoteKeeps == ASSUME IInv, NEW r \in Reporter, LegacyNote(r) PROVE IInv'
<1>1. r \in Process /\ job[r].at = "note" /\ row' = [row EXCEPT ![LegacyKey] = Noted(LegacyKey)]
  BY Keys DEF LegacyNote
<1>2. Moves(r) /\ job'[r].at = "reserve"
  BY <1>1, GotoJob DEF IInv, LegacyNote, At
<1>3. LegacyKey \in Key /\ Written(LegacyKey) /\ KnowsOK(r, job'[r])
  BY <1>1, <1>2, Keys DEF IInv, Keep, JobsKept, KnowsOK
<1>4. UNCHANGED <<stored, doubtful, held, stray, referenced, known, calls, faults>>
  BY DEF LegacyNote
<1>. QED BY <1>1, <1>2, <1>3, <1>4, NotingKeeps

\* A reservation of generation k by a request that goes on with it.
LEMMA HoldingNow ==
    ASSUME IInv, NEW r \in Reporter, NEW k \in Key, held' = [held EXCEPT ![r] = k],
           stray' = stray, Moves(r), job'[r].at \in Holding, job'[r].key = k
    PROVE  /\ HoldsKeyed' /\ held' \in [Reporter -> Key \cup {NoKey}]
           /\ \A x \in Key \ {k} : Reserved(x)' => Reserved(x)
<1>0. held \in [Reporter -> Key \cup {NoKey}]
  BY DEF IInv, RowsOK
<1>1. ASSUME NEW q \in Reporter, held'[q] # NoKey
      PROVE  job'[q].at \in Holding /\ held'[q] = job'[q].key
  <2>1. CASE q = r
    BY <1>0, <2>1
  <2>2. CASE q # r
    BY <1>0, <1>1, <2>2, Keys DEF IInv, Keep, HoldsKeyed, Moves
  <2>. QED BY <2>1, <2>2
<1>2. \A x \in Key \ {k} : Reserved(x)' => Reserved(x)
  BY <1>0 DEF Reserved
<1>. QED BY <1>0, <1>1, <1>2 DEF HoldsKeyed

LEMMA ReserveKeeps == ASSUME IInv, NEW r \in Reporter, Reserve(r) PROVE IInv'
<1>0. r \in Process /\ job[r].at = "reserve" /\ r \notin Sweeper
      /\ UNCHANGED <<stored, referenced, stray, known, calls, faults>>
  BY Keys, TileBlobsAssumption DEF Reserve
<1>1. CASE GiveUp(r) /\ UNCHANGED <<row, held, doubtful>>
  BY <1>0, <1>1, DoneAside DEF GiveUp, Holding
<1>2. ASSUME NEW k \in Reservable,
             held' = [held EXCEPT ![r] = k], row' = [row EXCEPT ![k] = "active"],
             doubtful' = IF k \in stored THEN doubtful ELSE doubtful \cup {k},
             job' = [job EXCEPT ![r].at = IF job[r].kind = "legacy" THEN "record" ELSE "bytes",
                                ![r].key = k]
      PROVE  IInv'
  <2>1. k \in Key /\ row[k] # "deleting"
    BY <1>2 DEF Reservable, First, In, Fenced
  <2>2. PICK s \in {"record", "bytes"} : job' = [job EXCEPT ![r].at = s, ![r].key = k]
    BY <1>2
  <2>3. Moves(r) /\ job'[r].at = s /\ job'[r].key = k
    BY <1>0, <2>1, <2>2, TakeKey DEF IInv, At
  <2>4. JobsOK'
    BY <1>0, <2>1, <2>3, MovedOK DEF IInv
  <2>5. /\ HoldsKeyed' /\ held' \in [Reporter -> Key \cup {NoKey}]
        /\ \A x \in Key \ {k} : Reserved(x)' => Reserved(x)
    BY <1>0, <1>2, <2>1, <2>3, HoldingNow DEF Holding
  <2>6. "active" \in RowState /\ RowStep(k, "active")
    BY <1>0, <1>2, <2>1 DEF RowStep, RowState, IInv, RowsOK
  <2>7. row' \in [Key -> RowState] /\ row'[k] = "active"
    BY <2>1, <2>6, RowStepKeeps
  <2>8. FirstReference'
    BY <2>1, <2>7, ActiveRefers
  <2>9. Written(k)'
    BY <2>1, <2>6 DEF RowStep, Written
  <2>10. \A q \in Process : \/ job'[q] = job[q]
                            \/ /\ DeletionOK(job[q])'
                               /\ job'[q].at \notin {"note", "record"}
                                  \/ (job'[q].at = "record" /\ Written(job[q].key)')
    <3>1. DeletionOK(job[r])'
      BY <2>2, <2>3 DEF DeletionOK
    <3>2. job'[r].at \notin {"note", "record"} \/ (job'[r].at = "record" /\ Written(job[r].key)')
      BY <2>3, <2>9
    <3>. QED BY <2>3, <3>1, <3>2 DEF Moves
  <2>11. Keep'
    BY <1>0, <2>1, <2>4, <2>5, <2>6, <2>8, <2>10, RowKeep
  <2>12. RowsOK'
    BY <1>0, <2>5, <2>6, <2>7 DEF IInv, RowsOK, RowStep
  <2>. QED BY <2>4, <2>11, <2>12 DEF IInv
<1>. QED BY <1>1, <1>2 DEF Reserve

LEMMA ReserveUploadKeeps == ASSUME IInv, NEW r \in Reporter, ReserveUpload(r) PROVE IInv'
<1>0. r \in Process /\ job[r].at \in {"upload", "again"}
      /\ UNCHANGED <<stored, referenced, stray, known, calls, faults, doubtful>>
  BY Keys DEF ReserveUpload
<1>1. CASE Fenced /\ UNCHANGED <<row, held>>
           /\ IF job[r].at = "upload" THEN Goto(r, "recover") ELSE Done(r)
  <2>1. CASE job[r].at = "upload"
    BY <1>0, <1>1, <2>1, GoesAside DEF At, Keyed, Holding
  <2>2. CASE job[r].at # "upload"
    BY <1>0, <1>1, <2>2, DoneAside DEF Holding
  <2>. QED BY <2>1, <2>2
<1>2. ASSUME NEW k \in IF Joinable # {} THEN Joinable ELSE Fresh, ~Fenced,
             row' = [row EXCEPT ![k] = IF Joinable # {} THEN @ ELSE "uploading"],
             held' = [held EXCEPT ![r] = k],
             job' = [job EXCEPT ![r].at = "store", ![r].key = k]
      PROVE  IInv'
  <2>1. PICK s : s = IF Joinable # {} THEN row[k] ELSE "uploading"
    OBVIOUS
  <2>2. /\ k \in Key /\ s \in {"active", "uploading"} /\ row[k] # "deleting"
        /\ s # row[k] => row[k] = "none" /\ k # LegacyKey /\ s = "uploading"
    BY <1>2, <2>1 DEF Joinable, Fresh, First, In
  <2>3. row' = [row EXCEPT ![k] = s] /\ s \in RowState
    BY <1>2, <2>1, <2>2 DEF RowState
  <2>4. Moves(r) /\ job'[r].at = "store" /\ job'[r].key = k
    BY <1>0, <1>2, <2>2, TakeKey DEF IInv, At
  <2>5. JobsOK'
    BY <1>0, <2>2, <2>4, MovedOK DEF IInv
  <2>6. /\ HoldsKeyed' /\ held' \in [Reporter -> Key \cup {NoKey}]
        /\ \A x \in Key \ {k} : Reserved(x)' => Reserved(x)
    BY <1>0, <1>2, <2>2, <2>4, HoldingNow DEF Holding
  <2>7. row \in [Key -> RowState]
    BY DEF IInv, RowsOK
  <2>8. \A q \in Process : job'[q] = job[q] \/ (DeletionOK(job[q])' /\ KnowsOK(q, job'[q]))
    BY <2>4 DEF Moves, DeletionOK, KnowsOK
  <2>9. CASE s = row[k]
    <3>1. row' = row
      BY <2>3, <2>7, <2>9
    <3>2. Keep'
      <4>1. ReservedRows' /\ ActiveBytes' /\ FirstReference'
        BY <1>0, <2>2, <2>6, <2>9, <3>1
           DEF IInv, Keep, ReservedRows, ActiveBytes, FirstReference, In
      <4>2. \A x : (Written(x)' <=> Written(x)) /\ (Gone(x)' <=> Gone(x))
        BY <1>0, <3>1 DEF Written, Gone
      <4>3. KnownWritten'
        BY <1>0, <4>2 DEF IInv, Keep, KnownWritten
      <4>4. ASSUME NEW q \in Process PROVE DeletionOK(job[q])' /\ KnowsOK(q, job[q])'
        <5>1. CASE q = r
          BY <2>4, <5>1 DEF DeletionOK, KnowsOK
        <5>2. CASE q # r
          BY <2>4, <3>1, <4>2, <5>2 DEF Moves, DeletionOK, KnowsOK, IInv, Keep, JobsKept
        <5>. QED BY <5>1, <5>2
      <4>. QED BY <2>6, <3>1, <4>1, <4>3, <4>4 DEF IInv, Keep, JobsKept
    <3>3. RowsOK'
      BY <1>0, <2>6, <3>1 DEF IInv, RowsOK
    <3>. QED BY <2>5, <3>2, <3>3 DEF IInv
  <2>10. CASE s # row[k]
    <3>1. RowStep(k, s)
      BY <1>0, <2>2, <2>3, <2>10 DEF RowStep, IInv, RowsOK
    <3>2. row' \in [Key -> RowState] /\ row'[k] = s /\ \A x \in Key \ {k} : row'[x] = row[x]
      BY <2>2, <2>3, <3>1, RowStepKeeps
    <3>3. In("active")' = In("active")
      BY <2>2, <2>10, <3>2 DEF In
    <3>4. FirstReference'
      BY <1>0, <2>2, <2>10, <3>2, <3>3 DEF IInv, Keep, FirstReference
    <3>5. Keep'
      BY <1>0, <2>2, <2>3, <2>5, <2>6, <2>8, <3>1, <3>4, RowKeep
    <3>6. RowsOK'
      BY <1>0, <2>6, <3>2 DEF IInv, RowsOK
    <3>. QED BY <2>5, <3>5, <3>6 DEF IInv
  <2>. QED BY <2>9, <2>10
<1>. QED BY <1>1, <1>2 DEF ReserveUpload

\* The request's reservation is gone, whatever it was.
LEMMA HoldingNoMore ==
    ASSUME IInv, NEW r \in Reporter, held' = [held EXCEPT ![r] = NoKey], stray' = stray, Moves(r)
    PROVE  /\ HoldsKeyed' /\ held' \in [Reporter -> Key \cup {NoKey}]
           /\ \A x \in Key : Reserved(x)' => Reserved(x)
<1>0. \A q \in Reporter : held'[q] = NoKey \/ (held'[q] = held[q] /\ q # r)
  BY DEF IInv, RowsOK
<1>1. HoldsKeyed'
  BY <1>0, Keys DEF IInv, Keep, HoldsKeyed, Moves
<1>2. \A x \in Key : Reserved(x)' => Reserved(x)
  BY <1>0, Keys DEF Reserved
<1>. QED BY <1>0, <1>1, <1>2 DEF IInv, RowsOK

LEMMA CommitKeepsBytes == ASSUME IInv, NEW r \in Reporter, CommitReservation(r) PROVE IInv'
<1>. DEFINE k == held[r]
<1>0. /\ r \in Process /\ job[r].at = "record" /\ k \in Key \cup {NoKey}
      /\ held' = [held EXCEPT ![r] = NoKey]
      /\ UNCHANGED <<stored, stray, known, calls, faults, doubtful>>
  BY Keys DEF CommitReservation, IInv, RowsOK
<1>1. /\ Moves(r) /\ JobsOK' /\ job'[r].at \in {"idle", "release"}
  <2>1. CASE CountsRow(r)
    BY <1>0, <2>1, Keys, DoneJob, MovedOK DEF CommitReservation, IInv, Keyed
  <2>2. CASE ~CountsRow(r)
    BY <1>0, <2>2, GotoJob, MovedOK, JobAt DEF CommitReservation, IInv, Keyed, At
  <2>. QED BY <2>1, <2>2
<1>2. /\ HoldsKeyed' /\ held' \in [Reporter -> Key \cup {NoKey}]
      /\ \A x \in Key : Reserved(x)' => Reserved(x)
  BY <1>0, <1>1, HoldingNoMore
<1>3. \A q \in Process : job'[q] = job[q] \/ (DeletionOK(job[q])' /\ KnowsOK(q, job'[q]))
  BY <1>1 DEF Moves, DeletionOK, KnowsOK
<1>4. referenced' \in BOOLEAN /\ (referenced' => referenced \/ Applies(r))
  BY DEF CommitReservation, IInv, RowsOK
<1>5. CASE Activates(r)
  <2>1. k \in Key /\ ~Fenced /\ row' = [row EXCEPT ![k] = "active"]
    BY <1>0, <1>5 DEF Activates, CommitReservation
  <2>2. k \in stored \cup doubtful /\ row[k] # "deleting"
    BY <1>0, <1>5, <2>1, IInvBytesKept DEF Activates, BytesKept, ReservedBytesSurvive, Fenced, In
  <2>3. "active" \in RowState /\ RowStep(k, "active")
    BY <1>0, <2>1, <2>2 DEF RowStep, RowState, IInv, RowsOK
  <2>. HIDE DEF k
  <2>4. row' \in [Key -> RowState] /\ row'[k] = "active"
    BY <2>1, <2>3, RowStepKeeps
  <2>5. FirstReference'
    BY <2>1, <2>4, ActiveRefers
  <2>6. Keep'
    BY <1>0, <1>1, <1>2, <1>3, <2>1, <2>3, <2>5, RowKeep
  <2>7. RowsOK'
    BY <1>0, <1>2, <1>4, <2>4 DEF IInv, RowsOK
  <2>. QED BY <1>1, <2>6, <2>7 DEF IInv
<1>6. CASE ~Activates(r)
  <2>1. row' = row
    BY <1>6 DEF CommitReservation
  <2>2. referenced' => referenced \/ In("active") # {}
    BY <1>0, <1>4, <1>6 DEF Applies, In
  <2>3. FirstReference'
    BY <1>0, <2>1, <2>2 DEF FirstReference, In, IInv, Keep
  <2>4. ReservedRows' /\ ActiveBytes'
    BY <1>0, <1>2, <2>1 DEF IInv, Keep, ReservedRows, ActiveBytes
  <2>5. \A x : (Written(x)' <=> Written(x)) /\ (Gone(x)' <=> Gone(x))
    BY <1>0, <2>1 DEF Written, Gone
  <2>6. KnownWritten'
    BY <1>0, <2>5 DEF IInv, Keep, KnownWritten
  <2>7. ASSUME NEW q \in Process PROVE DeletionOK(job[q])' /\ KnowsOK(q, job[q])'
    <3>1. CASE q = r
      BY <1>1, <3>1 DEF DeletionOK, KnowsOK
    <3>2. CASE q # r
      BY <1>1, <2>1, <2>5, <3>2 DEF Moves, DeletionOK, KnowsOK, IInv, Keep, JobsKept
    <3>. QED BY <3>1, <3>2
  <2>8. Keep'
    BY <1>2, <2>1, <2>3, <2>4, <2>6, <2>7 DEF IInv, Keep, JobsKept
  <2>9. RowsOK'
    BY <1>0, <1>2, <1>4, <2>1 DEF IInv, RowsOK
  <2>. QED BY <1>1, <2>8, <2>9 DEF IInv
<1>. QED BY <1>5, <1>6

-----------------------------------------------------------------------------
(* Deletions.                                                              *)

\* Who is at a deletion step holds nothing.
LEMMA OthersHold ==
    ASSUME IInv, NEW p \in Process, job[p].at \notin Holding, Moves(p), UNCHANGED <<held, stray>>
    PROVE  HoldsKeyed' /\ \A x \in Key : Reserved(x)' <=> Reserved(x)
<1>1. ASSUME NEW r \in Reporter, held[r] # NoKey
      PROVE  job'[r].at \in Holding /\ held[r] = job'[r].key
  <2>1. job[r].at \in Holding /\ held[r] = job[r].key /\ r \in Process /\ r # p
    BY <1>1, Keys DEF IInv, Keep, HoldsKeyed
  <2>. QED BY <2>1 DEF Moves
<1>. QED BY <1>1 DEF HoldsKeyed, Reserved

\* A claim never finds a row to give back: what is reserved or needed is active.
LEMMA ClaimsAreFree ==
    ASSUME IInv, NEW k \in Key, row[k] \in {"candidate", "deleting"}
    PROVE  ~Blocked(k)
<1>1. ~Reserved(k)
  BY DEF IInv, Keep, ReservedRows
<1>2. referenced => In("active") # {}
  BY DEF IInv, Keep, FirstReference
<1>3. In("active") \ {k} = In("active")
  BY DEF In
<1>. QED BY <1>1, <1>2, <1>3 DEF Blocked

LEMMA ClaimKeeps == ASSUME IInv, NEW p \in Process, Claim(p) PROVE IInv'
<1>0. job[p].at = "claim" /\ job[p].todo \subseteq Key
      /\ UNCHANGED <<stored, referenced, held, stray, known, calls, faults, doubtful>>
  BY JobAt DEF Claim, IInv
<1>1. PICK k \in job[p].todo :
        IF row[k] \in {"candidate", "deleting"} /\ ~Blocked(k)
        THEN /\ row' = [row EXCEPT ![k] = "deleting"]
             /\ job' = [job EXCEPT ![p].at = "delete", ![p].key = k]
        ELSE /\ row' = [row EXCEPT ![k] = IF @ \in {"candidate", "deleting"} THEN "active" ELSE @]
             /\ job' = [job EXCEPT ![p].todo = @ \ {k}]
  BY DEF Claim
<1>2. k \in Key /\ row \in [Key -> RowState]
  BY <1>0, <1>1 DEF IInv, RowsOK
<1>3. CASE row[k] \in {"candidate", "deleting"}
  <2>1. ~Blocked(k) /\ ~Reserved(k)
    BY <1>2, <1>3, ClaimsAreFree DEF Blocked
  <2>2. /\ row' = [row EXCEPT ![k] = "deleting"]
        /\ job' = [job EXCEPT ![p].at = "delete", ![p].key = k]
    BY <1>1, <1>3, <2>1
  <2>3. Moves(p) /\ job'[p].at = "delete" /\ job'[p].key = k
    BY <1>2, <2>2, TakeKey DEF IInv, At
  <2>4. JobsOK' /\ HoldsKeyed' /\ \A x \in Key : Reserved(x)' <=> Reserved(x)
    BY <1>0, <1>2, <2>3, MovedOK, OthersHold DEF IInv, Holding
  <2>5. "deleting" \in RowState /\ RowStep(k, "deleting")
    BY <1>0, <1>2, <2>2 DEF RowStep, RowState, IInv, RowsOK
  <2>6. row' \in [Key -> RowState] /\ row'[k] = "deleting" /\ \A x \in Key \ {k} : row'[x] = row[x]
    BY <1>2, <2>5, RowStepKeeps
  <2>7. FirstReference'
    <3>1. referenced => In("active")' # {}
      BY <1>3, <2>6, <1>2 DEF IInv, Keep, FirstReference, In
    <3>. QED BY <1>0, <3>1 DEF FirstReference
  <2>8. DeletionOK(job[p])' /\ job'[p].at \notin {"note", "record"}
    BY <2>3, <2>6 DEF DeletionOK
  <2>9. Keep'
    BY <1>0, <1>2, <2>1, <2>3, <2>4, <2>5, <2>7, <2>8, RowKeep DEF Moves
  <2>10. RowsOK'
    BY <1>0, <2>6 DEF IInv, RowsOK
  <2>. QED BY <2>4, <2>9, <2>10 DEF IInv
<1>4. CASE row[k] \notin {"candidate", "deleting"}
  <2>1. row' = row /\ job' = [job EXCEPT ![p].todo = @ \ {k}]
    BY <1>1, <1>2, <1>4
  <2>2. Moves(p) /\ job'[p].at = "claim"
    <3>1. PICK j : j = [job[p] EXCEPT !.todo = @ \ {k}]
      OBVIOUS
    <3>2. j \in Job /\ j.at = "claim"
      BY <1>0, <3>1, JobAt DEF IInv, Job
    <3>3. job' = [job EXCEPT ![p] = j]
      BY <2>1, <3>1
    <3>. QED BY <3>2, <3>3, PutJob DEF IInv
  <2>3. KnowsOK(p, job'[p])
    BY <2>2 DEF KnowsOK
  <2>. QED BY <1>0, <2>1, <2>2, <2>3, StepAside DEF Keyed, Holding, IInv, RowsOK
<1>. QED BY <1>3, <1>4

LEMMA ReclaimedJob ==
    ASSUME JobsOK, NEW p \in Process, Reclaimed(p)
    PROVE  Moves(p) /\ job'[p].at = "claim"
<1>1. PICK j : j = [job[p] EXCEPT !.at = "claim", !.key = NoKey, !.todo = @ \ {job[p].key}]
  OBVIOUS
<1>2. j \in Job /\ j.at = "claim"
  BY <1>1, JobAt DEF Job, At
<1>3. job' = [job EXCEPT ![p] = j]
  BY <1>1 DEF Reclaimed
<1>. QED BY <1>2, <1>3, PutJob

LEMMA FinishKeepsBytes == ASSUME IInv, NEW p \in Process, FinishDeletion(p) PROVE IInv'
<1>. DEFINE k == job[p].key
<1>0. /\ job[p].at = "finish" /\ k \in Key /\ Reclaimed(p)
      /\ row' = [row EXCEPT ![k] = IF @ = "deleting" THEN "deleted" ELSE @]
      /\ UNCHANGED <<stored, referenced, held, stray, known, calls, faults, doubtful>>
  BY JobAt DEF FinishDeletion, IInv, Keyed
<1>1. Moves(p) /\ job'[p].at = "claim" /\ row \in [Key -> RowState]
  BY <1>0, ReclaimedJob DEF IInv, RowsOK
<1>2. Gone(k)
  BY <1>0 DEF IInv, Keep, JobsKept, DeletionOK
<1>. HIDE DEF k
<1>3. CASE row[k] = "deleting"
  <2>1. row' = [row EXCEPT ![k] = "deleted"] /\ ~Reserved(k)
    BY <1>0, <1>3 DEF IInv, Keep, ReservedRows
  <2>2. JobsOK' /\ HoldsKeyed' /\ \A x \in Key : Reserved(x)' <=> Reserved(x)
    BY <1>0, <1>1, MovedOK, OthersHold DEF IInv, Holding, Keyed
  <2>3. "deleted" \in RowState /\ RowStep(k, "deleted")
    BY <1>0, <1>1, <1>2, <1>3, <2>1 DEF RowStep, RowState, IInv, RowsOK
  <2>4. row' \in [Key -> RowState] /\ row'[k] = "deleted" /\ \A x \in Key \ {k} : row'[x] = row[x]
    BY <1>0, <2>3, RowStepKeeps
  <2>5. FirstReference'
    <3>1. referenced => In("active")' # {}
      BY <1>0, <1>3, <2>4 DEF IInv, Keep, FirstReference, In
    <3>. QED BY <1>0, <3>1 DEF FirstReference
  <2>6. \A q \in Process : job'[q] = job[q]
                           \/ (DeletionOK(job[q])' /\ job'[q].at \notin {"note", "record"})
    BY <1>1 DEF Moves, DeletionOK
  <2>7. Keep'
    BY <1>0, <2>1, <2>2, <2>3, <2>5, <2>6, RowKeep
  <2>8. RowsOK'
    BY <1>0, <2>4 DEF IInv, RowsOK
  <2>. QED BY <2>2, <2>7, <2>8 DEF IInv
<1>4. CASE row[k] # "deleting"
  <2>1. row' = row
    BY <1>0, <1>1, <1>4
  <2>2. KnowsOK(p, job'[p])
    BY <1>1 DEF KnowsOK
  <2>. QED BY <1>0, <1>1, <2>1, <2>2, StepAside DEF Keyed, Holding, IInv, RowsOK
<1>. QED BY <1>3, <1>4

\* The bytes that a deletion meets count no more.
LEMMA DeleteKeeps == ASSUME IInv, NEW p \in Process, DeleteBytes(p) PROVE IInv'
<1>. DEFINE k == job[p].key
<1>0. /\ job[p].at = "delete" /\ k \in Key /\ stored' = stored \ {k}
      /\ UNCHANGED <<row, referenced, held, stray, known, calls, faults, doubtful>>
  BY JobAt DEF DeleteBytes, IInv, Keyed
<1>1. Moves(p) /\ job'[p].at = "finish" /\ job'[p].key = k
  BY <1>0, GotoJob DEF DeleteBytes, IInv, At
<1>2. /\ row[k] \notin {"none", "uploading"}
      /\ row[k] = "deleting" \/ Gone(k)
  BY <1>0 DEF IInv, Keep, JobsKept, DeletionOK
<1>3. JobsOK' /\ HoldsKeyed' /\ \A x \in Key : Reserved(x)' <=> Reserved(x)
  BY <1>0, <1>1, MovedOK, OthersHold DEF IInv, Holding
<1>. HIDE DEF k
<1>4. RowsOK'
  BY <1>0 DEF IInv, RowsOK
<1>5. k \in stored \cup doubtful => row[k] = "deleting" \/ k \in doubtful
  BY <1>2 DEF Gone
<1>6. ActiveBytes' /\ ReservedRows'
  BY <1>0, <1>3, <1>5 DEF IInv, Keep, ActiveBytes, ReservedRows
<1>7. FirstReference'
  <2>1. ASSUME referenced, In("active") = {}
        PROVE  LegacyKey \in stored' /\ \A x \in Key : row[x] \in {"none", "uploading"}
    BY <1>0, <1>2, <2>1 DEF IInv, Keep, FirstReference
  <2>. QED BY <1>0, <2>1 DEF FirstReference, In
<1>8. \A x : (Written(x) => Written(x)') /\ (Gone(x) => Gone(x)')
  BY <1>0, <1>5 DEF Written, Gone
<1>9. KnownWritten'
  BY <1>0, <1>8 DEF IInv, Keep, KnownWritten
<1>10. ASSUME NEW q \in Process PROVE DeletionOK(job[q])' /\ KnowsOK(q, job[q])'
  <2>1. CASE q = p
    BY <1>0, <1>1, <1>2, <2>1 DEF DeletionOK, KnowsOK, Gone
  <2>2. CASE q # p
    <3>1. job'[q] = job[q] /\ DeletionOK(job[q]) /\ KnowsOK(q, job[q])
      BY <1>1, <2>2 DEF Moves, IInv, Keep, JobsKept
    <3>. QED BY <1>0, <1>8, <3>1 DEF DeletionOK, KnowsOK
  <2>. QED BY <2>1, <2>2
<1>11. Keep'
  BY <1>0, <1>3, <1>6, <1>7, <1>9, <1>10 DEF IInv, Keep, JobsKept
<1>. QED BY <1>3, <1>4, <1>11 DEF IInv

-----------------------------------------------------------------------------
(* PUTs, and what fails.                                                   *)

\* Bytes that land are reserved, or doubtful; no deletion is fooled by them.
LEMMA LandKeeps ==
    ASSUME IInv, NEW k \in Key, Land(k), UNCHANGED <<row, referenced, held, stray, calls>>,
           faults' \in 0 .. MaxFaults, JobsOK', HoldsKeyed',
           known' \in [Runtime -> SUBSET Key],
           \A q \in Process : job'[q].at \in {"delete", "finish"} => job'[q] = job[q],
           \A q \in Process : \/ job'[q] = job[q] \/ job'[q].at \notin {"record", "note"}
                              \/ job'[q].at = "record" /\ job'[q].key = k,
           \A t \in Runtime : \A x \in known'[t] : Written(x) \/ x = k
    PROVE  IInv'
<1>1. /\ stored' = stored \cup {k}
      /\ doubtful' = IF Reserved(k) THEN doubtful ELSE doubtful \cup {k}
      /\ stored' \subseteq Key /\ doubtful' \subseteq Key /\ doubtful \subseteq doubtful'
  BY DEF Land, IInv, RowsOK
<1>2. RowsOK'
  BY <1>1 DEF IInv, RowsOK
<1>3. ReservedRows' /\ ActiveBytes' /\ FirstReference'
  BY <1>1 DEF IInv, Keep, ReservedRows, Reserved, ActiveBytes, FirstReference, In
<1>4. \A x : (Written(x) => Written(x)') /\ Written(k)'
  BY <1>1 DEF Written
<1>5. KnownWritten'
  BY <1>4 DEF KnownWritten
<1>6. ASSUME NEW x \in Key, row[x] \notin {"none", "uploading"}, Gone(x) PROVE Gone(x)'
  <2>1. CASE x # k
    BY <1>1, <1>6, <2>1 DEF Gone
  <2>2. CASE x = k
    BY <1>1, <1>6, <2>2 DEF Gone, IInv, Keep, ReservedRows, ActiveBytes
  <2>. QED BY <2>1, <2>2
<1>7. ASSUME NEW q \in Process PROVE DeletionOK(job[q])'
  <2>1. CASE job'[q].at \in {"delete", "finish"}
    <3>1. job'[q] = job[q] /\ DeletionOK(job[q]) /\ job[q].key \in Key
      BY <2>1, JobAt DEF IInv, Keep, JobsKept, Keyed
    <3>. QED BY <1>6, <2>1, <3>1 DEF DeletionOK
  <2>2. CASE job'[q].at \notin {"delete", "finish"}
    BY <2>2 DEF DeletionOK
  <2>. QED BY <2>1, <2>2
<1>8. ASSUME NEW q \in Process PROVE KnowsOK(q, job[q])'
  <2>1. CASE job'[q] = job[q]
    BY <1>4, <2>1 DEF KnowsOK, IInv, Keep, JobsKept
  <2>2. CASE job'[q].at \notin {"record", "note"}
    BY <2>2 DEF KnowsOK
  <2>3. CASE job'[q].at = "record" /\ job'[q].key = k
    BY <1>4, <2>3 DEF KnowsOK
  <2>. QED BY <2>1, <2>2, <2>3
<1>9. Keep'
  BY <1>3, <1>5, <1>7, <1>8 DEF IInv, Keep, JobsKept
<1>. QED BY <1>2, <1>9 DEF IInv

LEMMA PutKeeps == ASSUME IInv, NEW r \in Reporter, Put(r) PROVE IInv'
<1>1. /\ r \in Process /\ job[r].at = "put" /\ job[r].key \in Key /\ job[r].at \in Keyed
      /\ Land(job[r].key) /\ Settle(r, "record") /\ Remember(r)
      /\ UNCHANGED <<row, referenced, held, stray, calls>> /\ faults' \in 0 .. MaxFaults
  BY Keys, JobAt DEF Put, IInv, RowsOK, Keyed
<1>2. /\ JobsOK' /\ HoldsKeyed'
      /\ \A q \in Process : job'[q].at \in {"delete", "finish"} => job'[q] = job[q]
      /\ \A q \in Process : job'[q] = job[q] \/ (job'[q].at = "record" /\ job'[q].key = job[r].key)
  BY <1>1, SettleKeeps
<1>3. /\ known' \in [Runtime -> SUBSET Key]
      /\ \A t \in Runtime : \A x \in known'[t] : Written(x) \/ x = job[r].key
  BY <1>1, Keys DEF Remember, IInv, RowsOK, Keep, KnownWritten
<1>. QED BY <1>1, <1>2, <1>3, LandKeeps

LEMMA FailKeepsBytes == ASSUME IInv, NEW p \in Process, Fail(p) PROVE IInv'
<1>0. UNCHANGED <<row, referenced, held, stray, known, calls>> /\ faults' \in 0 .. MaxFaults
  BY TileBlobsAssumption DEF Fail, IInv, RowsOK
<1>1. \/ job[p].at = "put" /\ Land(job[p].key)
      \/ UNCHANGED <<stored, doubtful>>
  BY DEF Fail
<1>2. CASE job[p].at \in {"check", "put"} /\ Settle(p, "release")
  <2>0. job[p].key \in Key /\ job[p].at \in Keyed
    BY <1>2, JobAt DEF IInv, Keyed
  <2>1. /\ JobsOK' /\ HoldsKeyed'
        /\ \A q \in Process : job'[q].at \in {"delete", "finish"} => job'[q] = job[q]
        /\ \A q \in Process : job'[q] = job[q] \/ job'[q].at = "release"
    BY <1>0, <1>2, <2>0, SettleKeeps
  <2>2. \A t \in Runtime : \A x \in known'[t] : Written(x)
    BY <1>0 DEF IInv, Keep, KnownWritten
  <2>3. CASE Land(job[p].key)
    BY <1>0, <2>0, <2>1, <2>2, <2>3, LandKeeps DEF IInv, RowsOK
  <2>4. CASE UNCHANGED <<stored, doubtful>>
    <3>1. \A q \in Process : job'[q] = job[q] \/ KnowsOK(q, job'[q])
      BY <2>1 DEF KnowsOK
    <3>2. Keep'
      BY <1>0, <2>1, <2>2, <2>4, <3>1, QuietKeep DEF Reserved
    <3>. QED BY <1>0, <2>1, <2>4, <3>2 DEF IInv, RowsOK
  <2>. QED BY <1>1, <2>3, <2>4
<1>3. CASE job[p].at = "record" /\ Goto(p, "release")
  <2>1. UNCHANGED <<stored, doubtful>>
    BY <1>1, <1>3
  <2>2. Moves(p) /\ job'[p].at = "release" /\ job'[p].key = job[p].key /\ job[p].key \in Key
    BY <1>3, GotoJob, JobAt DEF IInv, At, Keyed
  <2>3. KnowsOK(p, job'[p])
    BY <2>2 DEF KnowsOK
  <2>. QED BY <1>0, <2>1, <2>2, <2>3, StepAside DEF IInv, RowsOK, Holding
<1>4. CASE job[p].at \in {"delete", "finish"}
           /\ IF p \in Sweeper THEN Reclaimed(p) ELSE Done(p)
  <2>1. UNCHANGED <<stored, doubtful>>
    BY <1>1, <1>4
  <2>2. Moves(p) /\ job'[p].at \in {"claim", "idle"}
    BY <1>4, ReclaimedJob, DoneJob, Keys DEF IInv
  <2>3. KnowsOK(p, job'[p])
    BY <2>2 DEF KnowsOK
  <2>. QED BY <1>0, <1>4, <2>1, <2>2, <2>3, StepAside DEF IInv, RowsOK, Holding, Keyed
<1>. QED BY <1>2, <1>3, <1>4 DEF Fail

-----------------------------------------------------------------------------
LEMMA IInvStep == IInv /\ [BlobsNext]_blobVars => IInv'
<1>. SUFFICES ASSUME IInv, [BlobsNext]_blobVars PROVE IInv'
  OBVIOUS
<1>1. CASE UNCHANGED blobVars
  <2>1. JobsOK' /\ RowsOK'
    BY <1>1 DEF blobVars, IInv, JobsOK, RowsOK
  <2>2. Keep'
    BY <1>1 DEF blobVars, IInv, Keep, HoldsKeyed, ReservedRows, Reserved, ActiveBytes,
       FirstReference, In, JobsKept, DeletionOK, KnowsOK, KnownWritten, Written, Gone
  <2>. QED BY <2>1, <2>2 DEF IInv
<1>2. ASSUME NEW r \in Reporter, Offer(r) \/ Upload(r) \/ ReporterStep(r) PROVE IInv'
  BY <1>2, OfferKeeps, LegacyBytesKeeps, LegacyNoteKeeps, ReserveKeeps, ReservedBytesKeeps,
     ReleaseKeeps, ReserveUploadKeeps, RecoverKeeps, StoreKeeps, CheckStoredKeeps, PutKeeps,
     CommitKeepsBytes DEF ReporterStep
<1>3. ASSUME NEW g \in Sweeper, SweeperStep(g) PROVE IInv'
  BY <1>3, ListKeeps, NoteKeeps DEF SweeperStep
<1>4. ASSUME NEW p \in Process, ReclaimStep(p) \/ Fail(p) PROVE IInv'
  BY <1>4, ClaimKeeps, DeleteKeeps, FinishKeepsBytes, WorkDoneKeeps, FailKeepsBytes DEF ReclaimStep
<1>5. CASE Forget \/ Lapse \/ \E t \in Runtime : Crash(t)
  BY <1>5, ForgetKeeps, LapseKeeps, CrashKeepsBytes
<1>. QED BY <1>1, <1>2, <1>3, <1>4, <1>5 DEF BlobsNext

\* Rows, reservations and jobs have their types, for any numbers of them.
THEOREM BlobsTypeCorrect == BlobsSpec => []BlobsTypeOK
<1>1. IInv => BlobsTypeOK
  BY BlobsTypeParts DEF IInv
<1>. QED BY <1>1, IInvInit, IInvStep, PTL DEF BlobsSpec

\* No collection, late deletion, skipped or late PUT takes the bytes that a live
\* reservation or a reference needs, unless they were in doubt before.
THEOREM BytesStay == BlobsSpec => []BytesKept
  BY IInvInit, IInvStep, IInvBytesKept, PTL DEF BlobsSpec

-----------------------------------------------------------------------------
(***************************************************************************)
(* What the tile generation cache acknowledges (TileGenerationCache).      *)
(*                                                                         *)
(* Newest: every commit that the candidate does not know of is by an       *)
(* attempt that is still open, or is one of the exceptions, so it becomes  *)
(* the entry only when nothing newer is left.                              *)
(*                                                                         *)
(* Current: no attempt whose token can still be compared equal was         *)
(* classified against other templates than those of now, because every     *)
(* announcement makes a token that nobody holds.                           *)
(***************************************************************************)

Contents == [entry |-> entry, pending |-> pending]

-----------------------------------------------------------------------------
(* The inductive invariant.                                                *)

\* One commit for each attempt that has an order.
Committed == {a \in Attempt : step[a].order # 0}
OrdersCounted ==
    /\ canvas = Cardinality(Committed)
    /\ \A a \in Attempt : /\ step[a].at \in {"ready", "targets", "commit"} => step[a].order = 0
                          /\ step[a].at = "apply" => step[a].order # 0
    /\ lapsed <= prepared
    /\ \A a \in Attempt : prepared < a => step[a] = Start

\* A copy was read after its revision was made.
Announcements == IF announced = "yes" THEN coverage ELSE coverage - 1
RevisionsBounded ==
    /\ announced # "yes" => 0 < coverage
    /\ copy.held => copy.cover <= coverage
    /\ sourceRead.busy => sourceRead.cover <= coverage
    /\ copy.held /\ sourceRead.busy => copy.cover <= sourceRead.cover
    /\ coverageRevision <= 1 + Announcements + (IF copy.held THEN copy.cover
                                                ELSE IF sourceRead.busy THEN sourceRead.cover
                                                ELSE coverage)
    /\ minted + (IF announced = "changed" THEN 1 ELSE 0) <= coverage + mishaps

ManifestFresh ==
    announced = "yes" /\ ~missed =>
        /\ copy.held => copy.cover = coverage
        /\ sourceRead.busy => sourceRead.cover = coverage

\* Every order up to top that is newer than g is known to be an exception, or
\* is that of an open attempt.
Accounted(g, those, steps, top, excepted) ==
    g # NoGeneration /\ g.sure =>
        \A o \in g.order + 1 .. top : o \in excepted \/ \E a \in those : steps[a].order = o

\* The cache c under the token t.
FencedContents(c, t, steps, top, excepted) ==
    /\ c.pending.active = {} => c.pending = NoPending
    /\ c.pending.active # {} => c.entry = NoGeneration
    /\ Accounted(c.entry, {}, steps, top, excepted)
    /\ Accounted(c.pending.candidate, c.pending.active, steps, top, excepted)
    /\ \A a \in c.pending.active :
          /\ steps[a].at = "done" \/ steps[a].token = t
          /\ steps[a].at = "finish" => steps[a].order = 0 \/ steps[a].order \in excepted

AttemptsOpen(those) == \A a \in those : lapsed < a /\ a <= prepared

\* Tokens are made in order.
Made(t, random, manifest) ==
    /\ t[1] = "random" => t[2] <= random
    /\ t[1] = "manifest" => t[2] <= manifest
TokensMade ==
    /\ synced <= coverageRevision
    /\ Made(token, minted, coverageRevision)
    /\ \A a \in Attempt : Made(step[a].token, minted, coverageRevision)
    /\ ~restarted /\ 0 < prepared => synced = coverageRevision

\* When what is acknowledged has to be current.
Due == ~missed /\ (announced = "yes" \/ (announced = "invalidated" /\ ~restarted))

CoversNow(c, now) ==
    \A g \in {c.entry, c.pending.candidate} : g # NoGeneration => g.cover = now

\* The tokens that may be compared with an attempt's before the next change.
Comparable == {token} \cup (IF announced = "yes" THEN {<<"manifest", coverageRevision>>} ELSE {})
AttemptsCover(steps, tokens, now) ==
    \A a \in Attempt : steps[a].at \in {"commit", "apply"} /\ steps[a].token \in tokens
                          => steps[a].cover = now

CoversDue == Due => CoversNow(Contents, coverage) /\ AttemptsCover(step, Comparable, coverage)
FencedNow == FencedContents(Contents, token, step, canvas, unfenced) /\ AttemptsOpen(pending.active)

CacheInvariant ==
    /\ CacheTypeOK /\ OrdersCounted /\ RevisionsBounded /\ ManifestFresh
    /\ FencedNow /\ TokensMade /\ CoversDue

-----------------------------------------------------------------------------
(* The operations on the cache's contents.                                 *)

AnyGeneration == Generation \cup {NoGeneration}
Cache == [entry : AnyGeneration, pending : [active : SUBSET Attempt, candidate : AnyGeneration]]

LEMMA ConstantTypes ==
  /\ MaxAttempts \in Nat /\ MaxChanges \in Nat /\ MaxMishaps \in Nat
  /\ Attempt \subseteq Nat \ {0} /\ Version \subseteq Nat /\ 0 \in Version
  BY TileGenerationCacheAssumption DEF Attempt, Version

LEMMA GenerationType ==
  ASSUME NEW g \in Generation
  PROVE  /\ g # NoGeneration /\ g.order \in Attempt /\ g.order \in Nat /\ 0 < g.order
         /\ g.cover \in Version /\ g.live \in BOOLEAN /\ g.sure \in BOOLEAN
<1>1. g.order \in Attempt /\ g.cover \in Version /\ g.live \in BOOLEAN /\ g.sure \in BOOLEAN
  <2>1. g.order \in Attempt /\ g.cover \in Version
    BY DEF Generation
  <2>2. g.live \in BOOLEAN
    BY DEF Generation
  <2>3. g.sure \in BOOLEAN
    BY DEF Generation
  <2>. QED BY <2>1, <2>2, <2>3
<1>2. g.order \in Nat /\ 0 < g.order
  <2>1. \A n \in Attempt : n \in Nat /\ 0 < n
    BY ConstantTypes
  <2>. QED BY <1>1, <2>1
<1>3. g # NoGeneration
  BY <1>2 DEF NoGeneration
<1>. QED BY <1>1, <1>2, <1>3

LEMMA AnyGenerationTyped ==
  /\ NoGeneration \in AnyGeneration /\ NoGeneration.order = 0
  /\ \A g \in AnyGeneration : g.order \in Nat /\ (g.order = 0 <=> g = NoGeneration)
<1>1. NoGeneration \in AnyGeneration /\ NoGeneration.order = 0
  BY DEF AnyGeneration, NoGeneration
<1>2. \A g \in AnyGeneration : g.order \in Nat /\ (g.order = 0 <=> g = NoGeneration)
  BY <1>1, GenerationType DEF AnyGeneration
<1>. QED BY <1>1, <1>2

LEMMA ContentsType ==
  ASSUME CacheTypeOK
  PROVE  /\ Contents \in Cache
         /\ Contents.entry = entry /\ Contents.pending = pending
  BY DEF CacheTypeOK, Contents, Cache, AnyGeneration

LEMMA NoPendingType ==
  /\ NoPending \in [active : SUBSET Attempt, candidate : AnyGeneration]
  /\ NoPending.active = {} /\ NoPending.candidate = NoGeneration
  BY AnyGenerationTyped DEF NoPending

\* Loading another token empties the cache.
LEMMA LoadedCases ==
  ASSUME CacheTypeOK, NEW at
  PROVE  /\ Loaded(at) \in Cache
         /\ \/ LoadedToken(at) = token /\ Loaded(at) = Contents
            \/ /\ LoadedToken(at) # token
               /\ Loaded(at).entry = NoGeneration /\ Loaded(at).pending = NoPending
  BY ContentsType, NoPendingType, AnyGenerationTyped DEF Loaded, Contents, Cache

\* The better of the candidate and the generation that an attempt committed.
Better(c, g) ==
    IF g # NoGeneration /\ c.pending.candidate.order < g.order THEN g ELSE c.pending.candidate

LEMMA BetterOrder ==
  ASSUME NEW c \in Cache, NEW g \in AnyGeneration
  PROVE  /\ Better(c, g) \in AnyGeneration /\ Better(c, g) \in {c.pending.candidate, g}
         /\ g.order <= Better(c, g).order /\ c.pending.candidate.order <= Better(c, g).order
<1>1. c.pending.candidate \in AnyGeneration
  BY DEF Cache
<1>2. c.pending.candidate.order \in Nat /\ g.order \in Nat /\ (g = NoGeneration => g.order = 0)
  BY <1>1, AnyGenerationTyped
<1>3. CASE g # NoGeneration /\ c.pending.candidate.order < g.order
  BY <1>2, <1>3 DEF Better
<1>4. CASE ~(g # NoGeneration /\ c.pending.candidate.order < g.order)
  <2>1. Better(c, g) = c.pending.candidate
    BY <1>4 DEF Better
  <2>2. g.order <= c.pending.candidate.order
    BY <1>2, <1>4
  <2>. QED BY <1>1, <1>2, <2>1, <2>2
<1>. QED BY <1>3, <1>4

\* The three outcomes of settle.
LEMMA SettledCases ==
  ASSUME NEW c \in Cache, NEW a \in Attempt, NEW g \in AnyGeneration
  PROVE  /\ Settled(c, a, g) \in Cache
         /\ \/ /\ a \notin c.pending.active
               /\ Settled(c, a, g) = [entry |-> c.entry,
                     pending |-> [active |-> c.pending.active, candidate |-> Better(c, g)]]
            \/ /\ a \in c.pending.active /\ c.pending.active \ {a} # {}
               /\ Settled(c, a, g) = [entry |-> c.entry,
                     pending |-> [active |-> c.pending.active \ {a}, candidate |-> Better(c, g)]]
            \/ /\ c.pending.active = {a}
               /\ Settled(c, a, g).pending = NoPending
               /\ Settled(c, a, g).entry \in {c.entry, Better(c, g)}
<1>. DEFINE next == [active |-> c.pending.active \ {a}, candidate |-> Better(c, g)]
<1>1. c.pending \in [active : SUBSET Attempt, candidate : AnyGeneration] /\ c.entry \in AnyGeneration
  BY DEF Cache
<1>2. Better(c, g) \in AnyGeneration
  BY BetterOrder
<1>3. /\ next \in [active : SUBSET Attempt, candidate : AnyGeneration]
      /\ next.active = c.pending.active \ {a} /\ next.candidate = Better(c, g)
  BY <1>1, <1>2
<1>4. Settled(c, a, g) = IF a \in c.pending.active THEN Released(c.entry, next)
                         ELSE [entry |-> c.entry, pending |-> next]
  BY Zenon DEF Settled, Better
<1>. HIDE DEF next
<1>5. CASE a \notin c.pending.active
  <2>1. c.pending.active \ {a} = c.pending.active
    BY <1>5
  <2>2. Settled(c, a, g) = [entry |-> c.entry, pending |-> next]
    BY <1>4, <1>5
  <2>3. Settled(c, a, g) = [entry |-> c.entry,
            pending |-> [active |-> c.pending.active, candidate |-> Better(c, g)]]
    BY <2>1, <2>2 DEF next
  <2>4. Settled(c, a, g) \in Cache
    BY <1>1, <1>3, <2>2 DEF Cache
  <2>. QED BY <1>5, <2>3, <2>4
<1>6. CASE a \in c.pending.active /\ next.active # {}
  <2>1. Settled(c, a, g) = [entry |-> c.entry, pending |-> next]
    BY <1>4, <1>6 DEF Released
  <2>2. Settled(c, a, g) \in Cache
    BY <1>1, <1>3, <2>1 DEF Cache
  <2>3. Settled(c, a, g) = [entry |-> c.entry,
            pending |-> [active |-> c.pending.active \ {a}, candidate |-> Better(c, g)]]
    BY <2>1 DEF next
  <2>. QED BY <1>3, <1>6, <2>2, <2>3
<1>7. CASE a \in c.pending.active /\ next.active = {}
  <2>1. Settled(c, a, g) = Released(c.entry, next)
    BY <1>4, <1>7
  <2>2. /\ Settled(c, a, g).pending = NoPending
        /\ Settled(c, a, g).entry \in {c.entry, Better(c, g)}
        /\ Settled(c, a, g) = [entry |-> Settled(c, a, g).entry, pending |-> NoPending]
    BY <1>3, <1>7, <2>1 DEF Released
  <2>3. Settled(c, a, g) \in Cache
    BY <1>1, <1>2, <2>2, NoPendingType DEF Cache
  <2>4. c.pending.active = {a}
    BY <1>3, <1>7
  <2>. QED BY <2>2, <2>3, <2>4
<1>. QED BY <1>5, <1>6, <1>7

\* An attempt settles: what it leaves behind is accounted for.
LEMMA SettledFenced ==
  ASSUME NEW c \in Cache, NEW t, NEW steps \in [Attempt -> Step], NEW top \in Nat, NEW excepted,
         FencedContents(c, t, steps, top, excepted), c.pending.active # {},
         NEW a \in Attempt, NEW g \in AnyGeneration,
         g # NoGeneration =>
            /\ g.order = steps[a].order
            /\ g.sure => \A o \in g.order + 1 .. top :
                            \E other \in c.pending.active : steps[other].order = o,
         g = NoGeneration /\ a \in c.pending.active
            => steps[a].order = 0 \/ steps[a].order \in excepted
  PROVE  /\ FencedContents(Settled(c, a, g), t, steps, top, excepted)
         /\ a \notin Settled(c, a, g).pending.active
         /\ Settled(c, a, g).pending.active \subseteq c.pending.active
<1>. DEFINE d == Settled(c, a, g)
            b == Better(c, g)
            rest == c.pending.active \ {a}
<1>1. b \in AnyGeneration /\ b \in {c.pending.candidate, g}
      /\ g.order <= b.order /\ c.pending.candidate.order <= b.order
  BY BetterOrder
<1>2. c.pending.active \in SUBSET Attempt /\ c.entry = NoGeneration
  BY DEF Cache, FencedContents
<1>3. g.order \in Nat /\ b.order \in Nat /\ (g = NoGeneration <=> g.order = 0)
  BY <1>1, AnyGenerationTyped
<1>4. Accounted(b, rest, steps, top, excepted)
  <2>. SUFFICES ASSUME b # NoGeneration, b.sure, NEW o \in b.order + 1 .. top
                PROVE  o \in excepted \/ \E x \in rest : steps[x].order = o
    BY DEF Accounted
  <2>1. o \in Nat /\ b.order < o /\ g.order < o
    BY <1>1, <1>3
  <2>2. CASE b = g
    <3>1. PICK x \in c.pending.active : steps[x].order = o
      BY <1>3, <2>1, <2>2
    <3>2. x # a
      BY <2>1, <2>2, <3>1
    <3>. QED BY <3>1, <3>2
  <2>3. CASE b = c.pending.candidate
    <3>1. o \in excepted \/ \E x \in c.pending.active : steps[x].order = o
      BY <2>1, <2>3 DEF FencedContents, Accounted
    <3>2. CASE o \in excepted
      BY <3>2
    <3>3. CASE \E x \in c.pending.active : steps[x].order = o
      <4>1. PICK x \in c.pending.active : steps[x].order = o
        BY <3>3
      <4>2. x = a => o \in excepted
        <5>1. ASSUME x = a PROVE o \in excepted
          <6>1. CASE g = NoGeneration
            <7>1. o # 0
              BY <1>1, <1>3, <2>1
            <7>. QED BY <4>1, <5>1, <6>1, <7>1
          <6>2. CASE g # NoGeneration
            BY <1>3, <2>1, <4>1, <5>1, <6>2
          <6>. QED BY <6>1, <6>2
        <5>. QED BY <5>1
      <4>. QED BY <4>1, <4>2
    <3>. QED BY <3>1, <3>2, <3>3
  <2>. QED BY <1>1, <2>2, <2>3
<1>5. \A x \in rest : /\ steps[x].at = "done" \/ steps[x].token = t
                      /\ steps[x].at = "finish" => steps[x].order = 0 \/ steps[x].order \in excepted
  BY DEF FencedContents
<1>6. Accounted(NoGeneration, {}, steps, top, excepted)
  BY DEF Accounted
<1>. HIDE DEF d, b
<1>7. CASE d.pending = [active |-> rest, candidate |-> b] /\ d.entry = c.entry /\ rest # {}
  <2>1. d.pending.active = rest /\ d.pending.candidate = b
    BY <1>7
  <2>2. FencedContents(d, t, steps, top, excepted)
    BY <1>2, <1>4, <1>5, <1>6, <1>7, <2>1 DEF FencedContents
  <2>. QED BY <2>1, <2>2 DEF d
<1>8. CASE d.pending = NoPending /\ rest = {} /\ d.entry \in {c.entry, b}
  <2>1. d.pending.active = {} /\ d.pending.candidate = NoGeneration
    BY <1>8, NoPendingType
  <2>2. Accounted(d.entry, {}, steps, top, excepted)
    BY <1>2, <1>4, <1>6, <1>8
  <2>3. FencedContents(d, t, steps, top, excepted)
    BY <1>6, <1>8, <2>1, <2>2 DEF FencedContents
  <2>. QED BY <2>1, <2>3 DEF d
<1>9. \/ a \notin c.pending.active /\ d = [entry |-> c.entry,
              pending |-> [active |-> c.pending.active, candidate |-> b]]
      \/ a \in c.pending.active /\ rest # {} /\ d = [entry |-> c.entry,
              pending |-> [active |-> rest, candidate |-> b]]
      \/ c.pending.active = {a} /\ d.pending = NoPending /\ d.entry \in {c.entry, b}
  BY SettledCases DEF d, b
<1>10. CASE a \notin c.pending.active
  <2>1. rest = c.pending.active /\ rest # {}
    BY <1>10
  <2>2. d = [entry |-> c.entry, pending |-> [active |-> c.pending.active, candidate |-> b]]
    BY <1>9, <1>10
  <2>. QED BY <1>7, <2>1, <2>2
<1>11. CASE a \in c.pending.active
  <2>1. CASE rest # {} /\ d = [entry |-> c.entry, pending |-> [active |-> rest, candidate |-> b]]
    <3>1. d.pending = [active |-> rest, candidate |-> b] /\ d.entry = c.entry
      BY <2>1
    <3>. HIDE DEF rest
    <3>. QED BY <1>7, <2>1, <3>1
  <2>2. CASE c.pending.active = {a} /\ d.pending = NoPending /\ d.entry \in {c.entry, b}
    <3>1. rest = {}
      BY <2>2
    <3>. HIDE DEF rest
    <3>. QED BY <1>8, <2>2, <3>1
  <2>. QED BY <1>9, <1>11, <2>1, <2>2
<1>. QED BY <1>10, <1>11

-----------------------------------------------------------------------------
(* One attempt's request moves.                                            *)

\* The rest of the fence stands when one request moves, with its order, or
\* with the next order, which is an exception or its own.
LEMMA FencedMoved ==
  ASSUME NEW c \in Cache, NEW t, NEW steps \in [Attempt -> Step], NEW top \in Nat, NEW excepted,
         FencedContents(c, t, steps, top, excepted),
         NEW a \in Attempt, NEW s \in Step,
         NEW top2 \in Nat, NEW excepted2, excepted \subseteq excepted2,
         \/ top2 = top /\ s.order = steps[a].order
         \/ /\ top2 = top + 1 /\ steps[a].order = 0 /\ s.order = top + 1
            /\ top + 1 \in excepted2 \/ a \in c.pending.active,
         a \in c.pending.active =>
            /\ s.at = "done" \/ s.token = t
            /\ s.at = "finish" => s.order = 0 \/ s.order \in excepted2
  PROVE  FencedContents(c, t, [steps EXCEPT ![a] = s], top2, excepted2)
<1>. DEFINE moved == [steps EXCEPT ![a] = s]
<1>1. /\ c.pending.active \in SUBSET Attempt /\ c.pending.candidate \in AnyGeneration /\ c.entry \in AnyGeneration
  BY DEF Cache
<1>2. moved[a] = s /\ \A x \in Attempt : x # a => moved[x] = steps[x]
  OBVIOUS
<1>. HIDE DEF moved
<1>3. ASSUME NEW g \in AnyGeneration, NEW those \in SUBSET Attempt,
             Accounted(g, those, steps, top, excepted),
             top2 = top + 1 /\ g # NoGeneration => top + 1 \in excepted2 \/ a \in those
      PROVE  Accounted(g, those, moved, top2, excepted2)
  <2>. SUFFICES ASSUME g # NoGeneration, g.sure, NEW o \in g.order + 1 .. top2
                PROVE  o \in excepted2 \/ \E x \in those : moved[x].order = o
    BY DEF Accounted
  <2>1. g.order \in Nat /\ o \in Nat /\ 0 < o
    BY AnyGenerationTyped
  <2>2. CASE o \in g.order + 1 .. top
    <3>1. o \in excepted \/ \E x \in those : steps[x].order = o
      BY <1>3, <2>2 DEF Accounted
    <3>2. \A x \in those : steps[x].order = o => moved[x].order = o
      BY <1>2, <2>1
    <3>. QED BY <3>1, <3>2
  <2>3. CASE ~(o \in g.order + 1 .. top)
    <3>1. top2 = top + 1 /\ o = top + 1 /\ s.order = top + 1
      BY <2>1, <2>3
    <3>. QED BY <1>2, <1>3, <3>1
  <2>. QED BY <2>2, <2>3
<1>4. Accounted(c.entry, {}, moved, top2, excepted2)
  <2>1. c.pending.active # {} => c.entry = NoGeneration
    BY DEF FencedContents
  <2>2. Accounted(c.entry, {}, steps, top, excepted)
    BY DEF FencedContents
  <2>3. CASE top2 # top + 1
    BY <1>1, <1>3, <2>2, <2>3
  <2>4. CASE top2 = top + 1 /\ c.entry # NoGeneration
    <3>1. top + 1 \in excepted2
      BY <2>1, <2>4
    <3>. QED BY <1>1, <1>3, <2>2, <3>1
  <2>5. CASE c.entry = NoGeneration
    BY <2>5 DEF Accounted
  <2>. QED BY <2>3, <2>4, <2>5
<1>5. Accounted(c.pending.candidate, c.pending.active, moved, top2, excepted2)
  <2>1. Accounted(c.pending.candidate, c.pending.active, steps, top, excepted)
    BY DEF FencedContents
  <2>2. top2 = top + 1 => top + 1 \in excepted2 \/ a \in c.pending.active
    OBVIOUS
  <2>. QED BY <1>1, <1>3, <2>1, <2>2
<1>6. \A x \in c.pending.active :
          /\ moved[x].at = "done" \/ moved[x].token = t
          /\ moved[x].at = "finish" => moved[x].order = 0 \/ moved[x].order \in excepted2
  <2>. SUFFICES ASSUME NEW x \in c.pending.active
                PROVE  /\ moved[x].at = "done" \/ moved[x].token = t
                       /\ moved[x].at = "finish"
                            => moved[x].order = 0 \/ moved[x].order \in excepted2
    OBVIOUS
  <2>1. CASE x = a
    BY <1>2, <2>1
  <2>2. CASE x # a
    <3>1. moved[x] = steps[x]
      BY <1>1, <1>2, <2>2
    <3>2. /\ steps[x].at = "done" \/ steps[x].token = t
          /\ steps[x].at = "finish" => steps[x].order = 0 \/ steps[x].order \in excepted
      BY DEF FencedContents
    <3>. QED BY <3>1, <3>2
  <2>. QED BY <2>1, <2>2
<1>7. /\ c.pending.active = {} => c.pending = NoPending
      /\ c.pending.active # {} => c.entry = NoGeneration
  BY DEF FencedContents
<1>8. FencedContents(c, t, moved, top2, excepted2)
  BY <1>4, <1>5, <1>6, <1>7 DEF FencedContents
<1>. QED BY <1>8 DEF moved

LEMMA CoverMoved ==
  ASSUME NEW steps \in [Attempt -> Step], NEW a \in Attempt, NEW s \in Step,
         NEW moved, moved = [steps EXCEPT ![a] = s],
         NEW tokens, NEW some, some \subseteq tokens, NEW now,
         AttemptsCover(steps, tokens, now),
         s.at \in {"commit", "apply"} /\ s.token \in some => s.cover = now
  PROVE  AttemptsCover(moved, some, now)
  BY DEF AttemptsCover

LEMMA Orders ==
  ASSUME CacheTypeOK
  PROVE  /\ canvas \in Nat /\ prepared \in Nat /\ lapsed \in Nat /\ coverage \in Nat
         /\ coverageRevision \in Nat /\ synced \in Nat /\ minted \in Nat /\ mishaps \in Nat
         /\ copy.cover \in Nat /\ sourceRead.cover \in Nat
         /\ copy.held \in BOOLEAN /\ sourceRead.busy \in BOOLEAN
         /\ \A a \in Attempt : step[a] \in Step /\ step[a].order \in Nat
<1>1. MaxAttempts \in Nat /\ MaxChanges \in Nat /\ MaxMishaps \in Nat
  BY ConstantTypes
<1>2. canvas \in Nat /\ prepared \in Nat /\ lapsed \in Nat
  BY <1>1 DEF CacheTypeOK
<1>3. coverage \in Nat /\ coverageRevision \in Nat /\ synced \in Nat /\ minted \in Nat
      /\ mishaps \in Nat
  BY <1>1, ConstantTypes DEF CacheTypeOK
<1>4. copy.cover \in Nat /\ copy.held \in BOOLEAN
  <2>1. copy \in [cover : Version, held : BOOLEAN]
    BY DEF CacheTypeOK
  <2>2. copy.cover \in Version
    BY <2>1
  <2>3. copy.held \in BOOLEAN
    BY <2>1
  <2>. QED BY <2>2, <2>3, ConstantTypes
<1>5. sourceRead.cover \in Nat /\ sourceRead.busy \in BOOLEAN
  <2>1. sourceRead \in [cover : Version, busy : BOOLEAN]
    BY DEF CacheTypeOK
  <2>2. sourceRead.cover \in Version
    BY <2>1
  <2>3. sourceRead.busy \in BOOLEAN
    BY <2>1
  <2>. QED BY <2>2, <2>3, ConstantTypes
<1>6. \A a \in Attempt : step[a] \in Step /\ step[a].order \in Nat
  BY <1>1 DEF CacheTypeOK, Step
<1>. QED BY <1>2, <1>3, <1>4, <1>5, <1>6

\* The requests' orders stay: so does their count.
LEMMA OrdersKept ==
  ASSUME CacheTypeOK, OrdersCounted, NEW a \in Attempt, NEW s \in Step,
         step' = [step EXCEPT ![a] = s], s.order = step[a].order, UNCHANGED canvas,
         s.at \in {"ready", "targets", "commit"} => s.order = 0,
         s.at = "apply" => s.order # 0,
         prepared' \in Nat, prepared <= prepared', a <= prepared', lapsed' <= prepared'
  PROVE  OrdersCounted' /\ step' \in [Attempt -> Step]
<1>1. /\ prepared \in Nat
      /\ step \in [Attempt -> Step]
  BY Orders DEF CacheTypeOK
<1>2. step' \in [Attempt -> Step] /\ step'[a] = s /\ \A x \in Attempt : x # a => step'[x] = step[x]
  BY <1>1
<1>3. Committed' = Committed
  BY <1>2 DEF Committed
<1>4. \A x \in Attempt : /\ step'[x].at \in {"ready", "targets", "commit"} => step'[x].order = 0
                         /\ step'[x].at = "apply" => step'[x].order # 0
  BY <1>2 DEF OrdersCounted
<1>5. \A x \in Attempt : prepared' < x => step'[x] = Start
  <2>. SUFFICES ASSUME NEW x \in Attempt, prepared' < x PROVE step'[x] = Start
    OBVIOUS
  <2>1. x \in Nat /\ a \in Nat
    BY ConstantTypes
  <2>2. x # a /\ prepared < x
    BY <1>1, <2>1
  <2>. QED BY <1>2, <2>2 DEF OrdersCounted
<1>. QED BY <1>2, <1>3, <1>4, <1>5 DEF OrdersCounted

\* A commit takes the next order, for a request that had none.
LEMMA OrdersGrow ==
  ASSUME CacheTypeOK, OrdersCounted, NEW a \in Attempt, NEW s \in Step,
         step' = [step EXCEPT ![a] = s], step[a].order = 0, s.order = canvas + 1,
         canvas' = canvas + 1, s.at \notin {"ready", "targets", "commit"},
         UNCHANGED <<prepared, lapsed>>, a <= prepared
  PROVE  OrdersCounted' /\ step' \in [Attempt -> Step]
<1>1. step \in [Attempt -> Step] /\ canvas \in Nat
  BY Orders DEF CacheTypeOK
<1>2. step' \in [Attempt -> Step] /\ step'[a] = s /\ \A x \in Attempt : x # a => step'[x] = step[x]
  BY <1>1
<1>3. Committed' = Committed \cup {a} /\ a \notin Committed
  BY <1>1, <1>2 DEF Committed
<1>4. Cardinality(Committed') = canvas + 1
  <2>1. IsFiniteSet(Attempt)
    BY ConstantTypes, FS_Interval DEF Attempt
  <2>2. IsFiniteSet(Committed)
    BY <2>1, FS_Subset DEF Committed
  <2>3. Cardinality(Committed \cup {a}) = Cardinality(Committed) + 1
    BY <1>3, <2>2, FS_AddElement
  <2>. QED BY <1>3, <2>3 DEF OrdersCounted
<1>5. \A x \in Attempt : /\ step'[x].at \in {"ready", "targets", "commit"} => step'[x].order = 0
                         /\ step'[x].at = "apply" => step'[x].order # 0
  BY <1>1, <1>2 DEF OrdersCounted
<1>6. \A x \in Attempt : prepared < x => step'[x] = Start
  <2>1. \A x \in Attempt : prepared < x => x # a
    BY ConstantTypes, Orders
  <2>. QED BY <1>2, <2>1 DEF OrdersCounted
<1>. QED BY <1>2, <1>4, <1>5, <1>6 DEF OrdersCounted

\* There are no more orders than attempts.
LEMMA OrdersBounded ==
  ASSUME CacheTypeOK, OrdersCounted, NEW a \in Attempt, step[a].order = 0
  PROVE  canvas + 1 \in 0 .. MaxAttempts
<1>1. IsFiniteSet(Attempt) /\ Cardinality(Attempt) = MaxAttempts
  <2>1. Attempt = 1 .. MaxAttempts /\ MaxAttempts \in Nat
    BY ConstantTypes DEF Attempt
  <2>2. IsFiniteSet(1 .. MaxAttempts)
        /\ Cardinality(1 .. MaxAttempts) = (IF 1 > MaxAttempts THEN 0 ELSE MaxAttempts - 1 + 1)
    BY <2>1, FS_Interval
  <2>3. (IF 1 > MaxAttempts THEN 0 ELSE MaxAttempts - 1 + 1) = MaxAttempts
    BY <2>1
  <2>. QED BY <2>1, <2>2, <2>3
<1>2. Committed \cup {a} \subseteq Attempt /\ a \notin Committed
  BY DEF Committed
<1>3. IsFiniteSet(Committed) /\ IsFiniteSet(Committed \cup {a})
  BY <1>1, <1>2, FS_Subset
<1>4. Cardinality(Committed \cup {a}) = canvas + 1
  BY <1>2, <1>3, FS_AddElement DEF OrdersCounted
<1>5. Cardinality(Committed \cup {a}) <= MaxAttempts
  BY <1>1, <1>2, FS_Subset
<1>. QED BY <1>4, <1>5, Orders, ConstantTypes

\* What is compared stays comparable while a revision is loaded.
LEMMA LoadMakes ==
  ASSUME CacheInvariant, Load(coverageRevision), UNCHANGED <<coverageRevision, announced>>
  PROVE  /\ token' = LoadedToken(coverageRevision) /\ token' \in Token
         /\ synced' = coverageRevision
         /\ Made(token', minted, coverageRevision)
         /\ token' # token => token' = <<"manifest", coverageRevision>>
         /\ token' # token /\ ~restarted => prepared = 0
<1>1. /\ synced <= coverageRevision /\ Made(token, minted, coverageRevision)
      /\ ~restarted /\ 0 < prepared => synced = coverageRevision
  BY DEF CacheInvariant, TokensMade
<1>2. /\ coverageRevision \in Nat /\ synced \in Nat /\ prepared \in Nat /\ token \in Token
      /\ coverageRevision \in 1 .. 2 * MaxChanges + 1
  BY Orders DEF CacheInvariant, CacheTypeOK
<1>3. CASE coverageRevision > synced
  <2>1. token' = <<"manifest", coverageRevision>> /\ synced' = coverageRevision
        /\ token' = LoadedToken(coverageRevision)
    BY <1>3 DEF Load, LoadedToken
  <2>2. token' \in Token
    BY <1>2, <2>1, ConstantTypes DEF Token
  <2>3. Made(token', minted, coverageRevision)
    BY <1>2, <2>1 DEF Made
  <2>4. ~restarted => prepared = 0
    BY <1>1, <1>2, <1>3
  <2>. QED BY <2>1, <2>2, <2>3, <2>4
<1>4. CASE ~(coverageRevision > synced)
  <2>1. token' = token /\ synced' = synced /\ token' = LoadedToken(coverageRevision)
    BY <1>4 DEF Load, LoadedToken
  <2>2. synced = coverageRevision
    BY <1>1, <1>2, <1>4
  <2>. QED BY <1>1, <1>2, <2>1, <2>2
<1>. QED BY <1>3, <1>4

LEMMA LoadedFenced ==
  ASSUME CacheInvariant, Load(coverageRevision), UNCHANGED <<coverageRevision, announced>>
  PROVE  LET c == Loaded(coverageRevision)
         IN  /\ c \in Cache
             /\ FencedContents(c, token', step, canvas, unfenced)
             /\ AttemptsOpen(c.pending.active)
             /\ Due => CoversNow(c, coverage)
<1>. DEFINE c == Loaded(coverageRevision)
<1>1. c \in Cache /\ token' = LoadedToken(coverageRevision)
  BY LoadedCases, LoadMakes DEF CacheInvariant
<1>2. CASE LoadedToken(coverageRevision) = token /\ c = Contents
  <2>1. c.entry = entry /\ c.pending = pending
    BY <1>2, ContentsType DEF CacheInvariant
  <2>. QED BY <1>1, <1>2, <2>1 DEF CacheInvariant, FencedNow, CoversDue
<1>3. CASE c.entry = NoGeneration /\ c.pending = NoPending
  <2>1. c.pending.active = {} /\ c.pending.candidate = NoGeneration
    BY <1>3, NoPendingType
  <2>2. FencedContents(c, token', step, canvas, unfenced)
    BY <1>3, <2>1 DEF FencedContents, Accounted
  <2>3. AttemptsOpen(c.pending.active) /\ CoversNow(c, coverage)
    BY <1>3, <2>1 DEF AttemptsOpen, CoversNow
  <2>. QED BY <1>1, <2>2, <2>3
<1>. QED BY <1>2, <1>3, LoadedCases DEF CacheInvariant

\* A call of the cache: it loads the revision, works on the contents, and one
\* request moves on.
LEMMA OperationMoves ==
  ASSUME CacheInvariant, Load(coverageRevision),
         UNCHANGED <<dbVars, manifestVars, minted, lapsed, restarted>>,
         NEW a \in Attempt, NEW s \in Step, step' = [step EXCEPT ![a] = s],
         s.order = step[a].order, s.at \in {"targets", "finish", "done"},
         s.at = "targets" => s.order = 0,
         Made(s.token, minted, coverageRevision),
         NEW d \in Cache, entry' = d.entry, pending' = d.pending,
         FencedContents(d, token', step', canvas, unfenced),
         Due => CoversNow(d, coverage),
         \A x \in d.pending.active : lapsed < x /\ x <= prepared',
         prepared' \in 0 .. MaxAttempts, prepared <= prepared', a <= prepared',
         mishaps' \in 0 .. MaxMishaps, mishaps <= mishaps'
  PROVE  CacheInvariant'
<1>1. CacheTypeOK /\ OrdersCounted
  BY DEF CacheInvariant
<1>2. /\ prepared' \in Nat /\ prepared \in Nat /\ lapsed \in Nat /\ lapsed <= prepared
  BY <1>1, Orders, ConstantTypes DEF OrdersCounted
<1>3. OrdersCounted' /\ step' \in [Attempt -> Step]
  <2>1. lapsed' <= prepared' /\ canvas' = canvas /\ (s.at \in {"ready", "targets", "commit"} => s.order = 0)
        /\ s.at # "apply"
    BY <1>2 DEF dbVars
  <2>. QED BY <1>1, <1>2, <2>1, OrdersKept
<1>4. CacheTypeOK'
  <2>1. token' \in Token /\ synced' \in 0 .. 2 * MaxChanges + 1
    <3>1. coverageRevision' = coverageRevision /\ announced' = announced
      BY DEF manifestVars, dbVars
    <3>2. synced' = coverageRevision /\ token' \in Token
      BY <3>1, LoadMakes
    <3>3. coverageRevision \in 1 .. 2 * MaxChanges + 1
      BY <1>1 DEF CacheTypeOK
    <3>. QED BY <3>2, <3>3, ConstantTypes
  <2>2. entry' \in AnyGeneration /\ pending' \in [active : SUBSET Attempt, candidate : AnyGeneration]
    BY DEF Cache
  <2>. QED BY <1>1, <1>3, <2>1, <2>2 DEF CacheTypeOK, AnyGeneration, dbVars, manifestVars
<1>5. UNCHANGED <<canvas, coverage, announced, unfenced, missed, coverageRevision, copy,
                  sourceRead, minted, lapsed, restarted>>
  BY DEF dbVars, manifestVars
<1>6. RevisionsBounded'
  <2>1. minted + (IF announced = "changed" THEN 1 ELSE 0) <= coverage + mishaps'
    <3>1. minted \in Nat /\ coverage \in Nat /\ mishaps \in Nat /\ mishaps' \in Nat
      BY <1>1, Orders
    <3>. QED BY <3>1 DEF CacheInvariant, RevisionsBounded
  <2>. QED BY <1>5, <2>1 DEF CacheInvariant, RevisionsBounded, Announcements
<1>7. ManifestFresh'
  BY <1>5 DEF CacheInvariant, ManifestFresh
<1>8. Contents' = d
  BY DEF Contents, Cache
<1>9. FencedNow'
  BY <1>5, <1>8 DEF FencedNow, AttemptsOpen
<1>10. TokensMade'
  <2>1. synced' = coverageRevision /\ Made(token', minted, coverageRevision)
    BY <1>5, LoadMakes
  <2>2. \A x \in Attempt : Made(step'[x].token, minted, coverageRevision)
    <3>1. step \in [Attempt -> Step]
      BY <1>1 DEF CacheTypeOK
    <3>. QED BY <3>1 DEF CacheInvariant, TokensMade
  <2>3. coverageRevision \in Nat
    BY <1>1, Orders
  <2>. QED BY <1>5, <2>1, <2>2, <2>3 DEF TokensMade
<1>11. CoversDue'
  <2>. SUFFICES ASSUME Due' PROVE CoversNow(d, coverage) /\ AttemptsCover(step', Comparable', coverage)
    BY <1>5, <1>8 DEF CoversDue
  <2>1. Due
    BY <1>5 DEF Due
  <2>2. AttemptsCover(step, Comparable, coverage)
    BY <2>1 DEF CacheInvariant, CoversDue
  <2>3. token' # token => token' = <<"manifest", coverageRevision>>
    BY <1>5, LoadMakes
  <2>4. step \in [Attempt -> Step]
    BY <1>1 DEF CacheTypeOK
  <2>5. CASE announced = "yes" \/ token' = token
    <3>1. Comparable' \subseteq Comparable
      BY <1>5, <2>3, <2>5 DEF Comparable
    <3>. QED BY <2>1, <2>2, <2>4, <3>1, CoverMoved
  <2>6. CASE announced # "yes" /\ token' # token
    <3>1. prepared = 0
      BY <1>5, <2>1, <2>6, LoadMakes DEF Due
    <3>2. \A x \in Attempt : step[x].at = "ready"
      BY <1>1, <3>1, ConstantTypes DEF OrdersCounted, Start
    <3>3. \A x \in Attempt : step'[x].at \notin {"commit", "apply"}
      BY <2>4, <3>2
    <3>. QED BY <2>1, <3>3 DEF AttemptsCover
  <2>. QED BY <2>5, <2>6
<1>. QED BY <1>3, <1>4, <1>6, <1>7, <1>9, <1>10, <1>11 DEF CacheInvariant

LEMMA SumGrows ==
  ASSUME NEW x \in Nat, NEW y \in Nat, NEW m \in Nat, NEW n \in Nat, NEW more \in Nat,
         x + n <= y + m, m <= more
  PROVE  x + n <= y + more
OBVIOUS

\* A request moves on without a call of the cache.
LEMMA RequestMoves ==
  ASSUME CacheInvariant,
         UNCHANGED <<coverage, announced, missed, manifestVars, token, synced, minted, entry,
                     pending, timeVars>>,
         NEW a \in Attempt, NEW s \in Step, step' = [step EXCEPT ![a] = s],
         step[a].at \notin {"ready", "done"}, s.at # "ready",
         \/ canvas' = canvas /\ s.order = step[a].order
         \/ /\ canvas' = canvas + 1 /\ step[a].order = 0 /\ s.order = canvas + 1
            /\ canvas + 1 \in unfenced' \/ a \in pending.active
            /\ s.at \notin {"targets", "commit"},
         s.at \in {"targets", "commit"} => s.order = 0,
         s.at = "apply" => s.order # 0,
         s.at = "finish" => s.order = 0 \/ s.order \in unfenced',
         s.at # "done" => s.token = step[a].token,
         Made(s.token, minted, coverageRevision),
         s.at \in {"commit", "apply"} /\ s.token \in Comparable /\ Due => s.cover = coverage,
         unfenced \subseteq unfenced', unfenced' \subseteq Attempt,
         mishaps' \in 0 .. MaxMishaps, mishaps <= mishaps'
  PROVE  CacheInvariant'
<1>1. CacheTypeOK /\ OrdersCounted /\ step \in [Attempt -> Step]
  BY DEF CacheInvariant, CacheTypeOK
<1>2. UNCHANGED <<coverage, announced, missed, coverageRevision, copy, sourceRead, token, synced,
                  minted, entry, pending, prepared, lapsed, restarted>>
  BY DEF manifestVars, timeVars
<1>3. canvas \in Nat /\ prepared \in Nat /\ lapsed \in Nat /\ step[a].order \in Nat
  BY <1>1, Orders
<1>4. a <= prepared /\ lapsed <= prepared
  <2>1. a \in Nat
    BY ConstantTypes
  <2>. QED BY <1>1, <1>3, <2>1 DEF OrdersCounted, Start
<1>5. OrdersCounted' /\ step' \in [Attempt -> Step]
  <2>1. CASE canvas' = canvas /\ s.order = step[a].order
    <3>1. s.at \in {"ready", "targets", "commit"} => s.order = 0
      OBVIOUS
    <3>2. prepared' \in Nat /\ prepared <= prepared' /\ a <= prepared' /\ lapsed' <= prepared'
      BY <1>2, <1>3, <1>4
    <3>. QED BY <1>1, <2>1, <3>1, <3>2, OrdersKept
  <2>2. CASE canvas' = canvas + 1 /\ step[a].order = 0 /\ s.order = canvas + 1
             /\ s.at \notin {"targets", "commit"}
    BY <1>1, <1>2, <1>4, <2>2, OrdersGrow
  <2>. QED BY <2>1, <2>2
<1>6. canvas' \in 0 .. MaxAttempts
  <2>1. canvas \in 0 .. MaxAttempts
    BY <1>1 DEF CacheTypeOK
  <2>2. step[a].order = 0 => canvas + 1 \in 0 .. MaxAttempts
    BY <1>1, OrdersBounded
  <2>. QED BY <2>1, <2>2
<1>7. CacheTypeOK'
  BY <1>1, <1>2, <1>5, <1>6 DEF CacheTypeOK
<1>8. RevisionsBounded'
  <2>1. minted + (IF announced = "changed" THEN 1 ELSE 0) <= coverage + mishaps'
    <3>1. minted \in Nat /\ coverage \in Nat /\ mishaps \in Nat /\ mishaps' \in Nat
      BY <1>1, Orders
    <3>. DEFINE n == IF announced = "changed" THEN 1 ELSE 0
    <3>2. n \in Nat
      OBVIOUS
    <3>3. minted + n <= coverage + mishaps
      BY DEF CacheInvariant, RevisionsBounded
    <3>. HIDE DEF n
    <3>4. minted + n <= coverage + mishaps'
      BY <3>1, <3>2, <3>3, SumGrows, Zenon
    <3>. QED BY <3>4 DEF n
  <2>. QED BY <1>2, <2>1 DEF CacheInvariant, RevisionsBounded, Announcements
<1>9. ManifestFresh'
  BY <1>2 DEF CacheInvariant, ManifestFresh
<1>10. FencedNow'
  <2>1. Contents \in Cache /\ Contents' = Contents /\ Contents.pending = pending
    BY <1>1, <1>2, ContentsType DEF Contents
  <2>2. FencedContents(Contents, token, step, canvas, unfenced) /\ AttemptsOpen(pending.active)
    BY DEF CacheInvariant, FencedNow
  <2>3. a \in pending.active => step[a].at = "done" \/ step[a].token = token
    BY <2>1, <2>2 DEF FencedContents
  <2>4. canvas' \in Nat
    BY <1>3
  <2>5. a \in Contents.pending.active =>
            /\ s.at = "done" \/ s.token = token
            /\ s.at = "finish" => s.order = 0 \/ s.order \in unfenced'
    BY <2>1, <2>3
  <2>6. \/ canvas' = canvas /\ s.order = step[a].order
        \/ /\ canvas' = canvas + 1 /\ step[a].order = 0 /\ s.order = canvas + 1
           /\ canvas + 1 \in unfenced' \/ a \in Contents.pending.active
    BY <2>1
  <2>7. FencedContents(Contents, token, step', canvas', unfenced')
    <3>1. Contents \in Cache /\ FencedContents(Contents, token, step, canvas, unfenced)
      BY <2>1, <2>2
    <3>2. canvas \in Nat /\ canvas' \in Nat /\ step \in [Attempt -> Step]
      BY <1>1, <1>3, <2>4
    <3>3. FencedContents(Contents, token, [step EXCEPT ![a] = s], canvas', unfenced')
      BY <3>1, <3>2, <2>5, <2>6, FencedMoved
    <3>. QED BY <3>3
  <2>. QED BY <1>2, <2>1, <2>2, <2>7 DEF FencedNow, AttemptsOpen
<1>11. TokensMade'
  <2>1. \A x \in Attempt : Made(step'[x].token, minted, coverageRevision)
    BY <1>1 DEF CacheInvariant, TokensMade
  <2>. QED BY <1>2, <2>1 DEF CacheInvariant, TokensMade
<1>12. CoversDue'
  <2>. SUFFICES ASSUME Due
                PROVE  CoversNow(Contents', coverage) /\ AttemptsCover(step', Comparable, coverage)
    BY <1>2 DEF CoversDue, Due, Comparable
  <2>1. CoversNow(Contents, coverage) /\ AttemptsCover(step, Comparable, coverage)
    BY DEF CacheInvariant, CoversDue
  <2>2. Contents' = Contents
    BY <1>2 DEF Contents
  <2>3. AttemptsCover(step', Comparable, coverage)
    BY <1>1, <2>1, CoverMoved
  <2>. QED BY <2>1, <2>2, <2>3
<1>. QED BY <1>5, <1>7, <1>8, <1>9, <1>10, <1>11, <1>12 DEF CacheInvariant

-----------------------------------------------------------------------------
(* The steps of a request.                                                 *)

\* Where the request of an attempt is, and what was committed.
LEMMA AtStep ==
  ASSUME CacheInvariant, NEW a \in Attempt
  PROVE  /\ step[a] \in Step /\ step[a].cover \in Version /\ step[a].token \in Token
         /\ step[a].order \in 0 .. MaxAttempts
         /\ Made(step[a].token, minted, coverageRevision)
         /\ step[a].at \in {"ready", "targets", "commit"} => step[a].order = 0
         /\ step[a].at = "apply" => step[a].order \in Attempt
         /\ step[a].at # "ready" => a <= prepared
         /\ a \in pending.active => lapsed < a
         /\ a \in pending.active => step[a].at = "done" \/ step[a].token = token
         /\ a \in pending.active /\ step[a].at = "finish"
              => step[a].order = 0 \/ step[a].order \in unfenced
<1>1. CacheTypeOK /\ OrdersCounted /\ FencedNow /\ TokensMade
  BY DEF CacheInvariant
<1>2. /\ step[a] \in Step /\ step[a].cover \in Version /\ step[a].token \in Token
      /\ step[a].order \in 0 .. MaxAttempts
  BY <1>1 DEF CacheTypeOK, Step
<1>3. /\ step[a].at \in {"ready", "targets", "commit"} => step[a].order = 0
      /\ step[a].at = "apply" => step[a].order \in Attempt
  <2>1. step[a].at = "apply" => step[a].order # 0
    BY <1>1 DEF OrdersCounted
  <2>2. step[a].order # 0 => step[a].order \in Attempt
    BY <1>2, ConstantTypes DEF Attempt
  <2>. QED BY <1>1, <2>1, <2>2 DEF OrdersCounted
<1>4. step[a].at # "ready" => a <= prepared
  <2>1. a \in Nat /\ prepared \in Nat
    BY <1>1, ConstantTypes, Orders
  <2>. QED BY <1>1, <2>1 DEF OrdersCounted, Start
<1>5. Contents.pending = pending
  BY <1>1, ContentsType
<1>6. /\ a \in pending.active => lapsed < a
      /\ a \in pending.active => step[a].at = "done" \/ step[a].token = token
      /\ a \in pending.active /\ step[a].at = "finish"
              => step[a].order = 0 \/ step[a].order \in unfenced
  BY <1>1, <1>5 DEF FencedNow, FencedContents, AttemptsOpen
<1>. QED BY <1>1, <1>2, <1>3, <1>4, <1>6 DEF TokensMade

LEMMA StartType ==
  ASSUME CacheTypeOK
  PROVE  /\ Start \in Step /\ Start.order = 0 /\ Start.at = "ready"
         /\ Made(Start.token, minted, coverageRevision)
<1>1. <<"random", 0>> \in Token
  BY ConstantTypes DEF Token
<1>2. Start \in Step
  BY <1>1, ConstantTypes DEF Start, Step
<1>3. Made(<<"random", 0>>, minted, coverageRevision)
  BY Orders DEF Made
<1>. QED BY <1>2, <1>3 DEF Start

LEMMA EndedType ==
  ASSUME CacheInvariant, NEW a \in Attempt
  PROVE  LET s == [Start EXCEPT !.at = "done", !.order = step[a].order]
         IN  /\ s \in Step /\ s.at = "done" /\ s.order = step[a].order
             /\ Made(s.token, minted, coverageRevision)
<1>1. Start \in Step /\ Made(Start.token, minted, coverageRevision)
  BY StartType DEF CacheInvariant
<1>2. step[a].order \in 0 .. MaxAttempts
  BY AtStep
<1>. QED BY <1>1, <1>2 DEF Step

LEMMA TargetsKeeps ==
  ASSUME CacheInvariant, NEW a \in Attempt, Targets(a)
  PROVE  CacheInvariant'
<1>. DEFINE s == [step[a] EXCEPT !.at = "commit", !.cover = coverage]
<1>1. CacheTypeOK /\ step \in [Attempt -> Step]
  BY DEF CacheInvariant, CacheTypeOK
<1>2. step' = [step EXCEPT ![a] = s] /\ step[a].at = "targets"
  BY DEF Targets
<1>3. /\ step[a] \in Step /\ step[a].order = 0 /\ Made(step[a].token, minted, coverageRevision)
  BY <1>2, AtStep
<1>4. coverage \in Version
  BY <1>1 DEF CacheTypeOK
<1>5. /\ s \in Step /\ s.at = "commit" /\ s.cover = coverage /\ s.order = 0
      /\ s.token = step[a].token
  BY <1>3, <1>4 DEF Step
<1>6. /\ mishaps' = mishaps /\ mishaps \in 0 .. MaxMishaps /\ unfenced' = unfenced
      /\ unfenced \subseteq Attempt /\ canvas' = canvas
  BY <1>1 DEF CacheTypeOK, Targets, dbVars, fenceVars
<1>7. UNCHANGED <<coverage, announced, missed, manifestVars, token, synced, minted, entry,
                  pending, timeVars>>
  BY DEF Targets, dbVars, fenceVars
<1>8. mishaps <= mishaps
  BY <1>1, Orders
<1>. HIDE DEF s
<1>. QED BY <1>2, <1>3, <1>5, <1>6, <1>7, <1>8, RequestMoves

LEMMA CrashKeepsCache ==
  ASSUME CacheInvariant, NEW a \in Attempt, WriterCrash(a)
  PROVE  CacheInvariant'
<1>. DEFINE s == [Start EXCEPT !.at = "done", !.order = step[a].order]
<1>1. CacheTypeOK /\ step \in [Attempt -> Step]
  BY DEF CacheInvariant, CacheTypeOK
<1>2. step' = [step EXCEPT ![a] = s] /\ step[a].at \notin {"ready", "done"}
  BY DEF WriterCrash, Ended
<1>3. /\ s \in Step /\ s.at = "done" /\ s.order = step[a].order
      /\ Made(s.token, minted, coverageRevision)
  BY EndedType
<1>4. mishaps' \in 0 .. MaxMishaps /\ mishaps <= mishaps'
  BY <1>1, ConstantTypes DEF CacheTypeOK, WriterCrash, Mishap
<1>5. unfenced' = unfenced /\ unfenced \subseteq Attempt /\ canvas' = canvas
  BY <1>1 DEF CacheTypeOK, WriterCrash, dbVars
<1>6. UNCHANGED <<coverage, announced, missed, manifestVars, token, synced, minted, entry,
                  pending, timeVars>>
  BY DEF WriterCrash, dbVars
<1>. HIDE DEF s
<1>. QED BY <1>2, <1>3, <1>4, <1>5, <1>6, RequestMoves

\* The order is the request's own while its attempt is open, and is one of the
\* exceptions when the cache does not know it or the answer was an error.
LEMMA CommitKeepsCache ==
  ASSUME CacheInvariant, NEW a \in Attempt, Commit(a)
  PROVE  CacheInvariant'
<1>1. CacheTypeOK /\ step \in [Attempt -> Step] /\ canvas \in Nat /\ unfenced \subseteq Attempt
      /\ mishaps \in 0 .. MaxMishaps
  BY Orders DEF CacheInvariant, CacheTypeOK
<1>2. step[a].at = "commit" /\ step[a] \in Step /\ step[a].order = 0
      /\ Made(step[a].token, minted, coverageRevision)
  BY AtStep DEF Commit
<1>3. UNCHANGED <<coverage, announced, missed, manifestVars, token, synced, minted, entry,
                  pending, timeVars>>
  BY DEF Commit
<1>4. canvas + 1 \in Attempt /\ canvas + 1 \in 0 .. MaxAttempts /\ canvas + 1 # 0
  BY <1>1, <1>2, OrdersBounded, ConstantTypes DEF CacheInvariant, Attempt
<1>5. step[a].token \in Comparable /\ Due => step[a].cover = coverage
  BY <1>2 DEF CacheInvariant, CoversDue, AttemptsCover
<1>6. CASE /\ canvas' = canvas + 1
           /\ step' = [step EXCEPT ![a].at = "apply", ![a].order = canvas']
           /\ unfenced' = IF a \in pending.active THEN unfenced ELSE unfenced \cup {canvas'}
           /\ UNCHANGED mishaps
  <2>. DEFINE s == [step[a] EXCEPT !.at = "apply", !.order = canvas + 1]
  <2>1. step' = [step EXCEPT ![a] = s]
    BY <1>6
  <2>2. /\ s \in Step /\ s.at = "apply" /\ s.order = canvas + 1 /\ s.token = step[a].token
        /\ s.cover = step[a].cover
    BY <1>2, <1>4 DEF Step
  <2>3. /\ unfenced \subseteq unfenced' /\ unfenced' \subseteq Attempt
        /\ canvas + 1 \in unfenced' \/ a \in pending.active
    BY <1>1, <1>4, <1>6
  <2>4. mishaps' \in 0 .. MaxMishaps /\ mishaps <= mishaps'
    BY <1>1, <1>6, ConstantTypes
  <2>. HIDE DEF s
  <2>. QED BY <1>2, <1>3, <1>4, <1>5, <1>6, <2>1, <2>2, <2>3, <2>4, RequestMoves
<1>7. CASE canvas' = canvas + 1 /\ Mishap /\ GiveUpCommit(a)
           /\ unfenced' = unfenced \cup {canvas'}
  <2>. DEFINE s == [step[a] EXCEPT !.at = "finish", !.order = canvas + 1]
  <2>1. step' = [step EXCEPT ![a] = s]
    BY <1>7 DEF GiveUpCommit
  <2>2. /\ s \in Step /\ s.at = "finish" /\ s.order = canvas + 1 /\ s.token = step[a].token
    BY <1>2, <1>4 DEF Step
  <2>3. /\ unfenced \subseteq unfenced' /\ unfenced' \subseteq Attempt /\ canvas + 1 \in unfenced'
    BY <1>1, <1>4, <1>7
  <2>4. mishaps' \in 0 .. MaxMishaps /\ mishaps <= mishaps'
    BY <1>1, <1>7, ConstantTypes DEF Mishap
  <2>. HIDE DEF s
  <2>. QED BY <1>2, <1>3, <1>4, <1>7, <2>1, <2>2, <2>3, <2>4, RequestMoves
<1>8. CASE step' = [step EXCEPT ![a].at = "finish"] /\ UNCHANGED <<canvas, unfenced, mishaps>>
  <2>. DEFINE s == [step[a] EXCEPT !.at = "finish"]
  <2>1. step' = [step EXCEPT ![a] = s]
    BY <1>8
  <2>2. /\ s \in Step /\ s.at = "finish" /\ s.order = 0 /\ s.token = step[a].token
    BY <1>2 DEF Step
  <2>3. mishaps' \in 0 .. MaxMishaps /\ mishaps <= mishaps'
    BY <1>1, <1>8, ConstantTypes
  <2>. HIDE DEF s
  <2>. QED BY <1>1, <1>2, <1>3, <1>8, <2>1, <2>2, <2>3, RequestMoves
<1>. QED BY <1>6, <1>7, <1>8 DEF Commit

\* The entry leaves, and waits as the candidate with the new attempt.
LEMMA PrepareKeeps ==
  ASSUME CacheInvariant, Prepare
  PROVE  CacheInvariant'
<1>. DEFINE a == prepared + 1
            s == [Start EXCEPT !.at = "targets", !.token = token']
            c == Loaded(coverageRevision)
            open == IF c.pending # NoPending THEN c.pending
                    ELSE [active |-> {},
                          candidate |-> IF c.entry # NoGeneration /\ c.entry.live
                                        THEN c.entry ELSE NoGeneration]
            d == [entry |-> NoGeneration,
                  pending |-> [active |-> open.active \cup {a}, candidate |-> open.candidate]]
<1>1. CacheTypeOK /\ OrdersCounted /\ step \in [Attempt -> Step]
  BY DEF CacheInvariant, CacheTypeOK
<1>2. /\ prepared \in Nat /\ prepared' = a /\ a \in Attempt /\ a \in 0 .. MaxAttempts
      /\ lapsed \in Nat /\ lapsed <= prepared
  BY <1>1, Orders, ConstantTypes DEF Prepare, Attempt, OrdersCounted
<1>3. Load(coverageRevision) /\ UNCHANGED <<coverageRevision, announced>>
  BY DEF Prepare, manifestVars, dbVars
<1>4. /\ c \in Cache /\ FencedContents(c, token', step, canvas, unfenced)
      /\ AttemptsOpen(c.pending.active) /\ (Due => CoversNow(c, coverage))
  BY <1>3, LoadedFenced
<1>5. token' \in Token /\ Made(token', minted, coverageRevision)
  BY <1>3, LoadMakes
<1>6. step[a] = Start /\ step[a].order = 0
  BY <1>1, <1>2, StartType DEF OrdersCounted
<1>7. /\ s \in Step /\ s.at = "targets" /\ s.order = 0 /\ s.token = token'
      /\ step' = [step EXCEPT ![a] = s]
  BY <1>1, <1>2, <1>5, StartType DEF Prepare, Step
<1>8. /\ c.entry \in AnyGeneration /\ c.pending.active \subseteq Attempt /\ c.pending.candidate \in AnyGeneration
      /\ open.active \subseteq Attempt /\ open.active = c.pending.active
      /\ open.candidate \in {NoGeneration, c.entry, c.pending.candidate}
      /\ open.candidate = c.entry => open.active = {} \/ c.entry = NoGeneration
  BY <1>4, NoPendingType DEF Cache, FencedContents
<1>9. open.candidate \in AnyGeneration
  BY <1>8, AnyGenerationTyped
<1>10. entry' = d.entry /\ pending' = d.pending
  <2>1. open \in [active : SUBSET Attempt, candidate : AnyGeneration]
    <3>1. c.pending \in [active : SUBSET Attempt, candidate : AnyGeneration]
      BY <1>4 DEF Cache
    <3>. QED BY <1>8, <1>9, <3>1
  <2>2. entry' = NoGeneration /\ pending' = [open EXCEPT !.active = open.active \cup {a}]
    BY <1>2 DEF Prepare, Become
  <2>. HIDE DEF open
  <2>3. pending' = [active |-> open.active \cup {a}, candidate |-> open.candidate]
    BY <2>1, <2>2
  <2>. QED BY <2>2, <2>3
<1>. HIDE DEF open, c, s
<1>11. /\ d \in Cache /\ d.entry = NoGeneration /\ d.pending.candidate = open.candidate
       /\ d.pending.active = open.active \cup {a}
  BY <1>2, <1>8, <1>9, AnyGenerationTyped DEF Cache
<1>. HIDE DEF d, a
<1>12. FencedContents(d, token', step', canvas, unfenced)
  <2>1. \A x \in Attempt : step'[x].order = step[x].order
    BY <1>1, <1>6, <1>7
  <2>2. Accounted(open.candidate, open.active, step, canvas, unfenced)
    BY <1>4, <1>8 DEF FencedContents, Accounted
  <2>3. Accounted(open.candidate, d.pending.active, step', canvas, unfenced)
    BY <1>2, <1>8, <1>11, <2>1, <2>2 DEF Accounted
  <2>4. \A x \in d.pending.active :
          /\ step'[x].at = "done" \/ step'[x].token = token'
          /\ step'[x].at = "finish" => step'[x].order = 0 \/ step'[x].order \in unfenced
    <3>1. \A x \in open.active :
          /\ step[x].at = "done" \/ step[x].token = token'
          /\ step[x].at = "finish" => step[x].order = 0 \/ step[x].order \in unfenced
      BY <1>4, <1>8 DEF FencedContents
    <3>2. step'[a] = s
      BY <1>1, <1>2, <1>7
    <3>3. \A x \in open.active : x # a => step'[x] = step[x]
      BY <1>1, <1>7, <1>8
    <3>. QED BY <1>7, <1>11, <3>1, <3>2, <3>3
  <2>. QED BY <1>11, <2>3, <2>4 DEF FencedContents, Accounted
<1>13. Due => CoversNow(d, coverage)
  BY <1>4, <1>8, <1>11 DEF CoversNow
<1>14. \A x \in d.pending.active : lapsed < x /\ x <= prepared'
  <2>1. lapsed < a /\ a <= prepared' /\ prepared <= prepared'
    BY <1>2 DEF a
  <2>2. \A x \in open.active : x \in Nat /\ lapsed < x /\ x <= prepared
    BY <1>4, <1>8, ConstantTypes DEF AttemptsOpen
  <2>. QED BY <1>2, <1>11, <2>1, <2>2
<1>15. UNCHANGED <<dbVars, manifestVars, minted, lapsed, restarted>>
  BY DEF Prepare
<1>16. mishaps' \in 0 .. MaxMishaps /\ mishaps <= mishaps' /\ prepared <= prepared'
       /\ a <= prepared' /\ prepared' \in 0 .. MaxAttempts
  BY <1>1, <1>2, ConstantTypes DEF CacheTypeOK, Prepare, a
<1>. QED BY <1>2, <1>3, <1>5, <1>6, <1>7, <1>10, <1>11, <1>12, <1>13, <1>14, <1>15, <1>16,
            OperationMoves

\* The request at the end of its call: an attempt that is still open belongs to
\* it, under the same token.
LEMMA CallEnds ==
  ASSUME CacheInvariant, NEW a \in Attempt, step[a].at \in {"apply", "finish"},
         Load(coverageRevision), UNCHANGED <<dbVars, manifestVars, minted, timeVars>>,
         NEW s \in Step, step' = [step EXCEPT ![a] = s], s.order = step[a].order,
         s.at \in {"finish", "done"}, Made(s.token, minted, coverageRevision),
         NEW d \in Cache, entry' = d.entry, pending' = d.pending,
         FencedContents(d, token', step, canvas, unfenced), a \notin d.pending.active,
         d.pending.active \subseteq Loaded(coverageRevision).pending.active,
         Due => CoversNow(d, coverage),
         mishaps' \in 0 .. MaxMishaps, mishaps <= mishaps'
  PROVE  CacheInvariant'
<1>1. CacheTypeOK /\ step \in [Attempt -> Step] /\ canvas \in Nat /\ prepared \in 0 .. MaxAttempts
  BY Orders DEF CacheInvariant, CacheTypeOK
<1>2. FencedContents(d, token', [step EXCEPT ![a] = s], canvas, unfenced)
  BY <1>1, FencedMoved
<1>3. UNCHANGED <<coverageRevision, announced, prepared, lapsed, restarted>>
  BY DEF manifestVars, dbVars, timeVars
<1>4. AttemptsOpen(Loaded(coverageRevision).pending.active)
  BY <1>3, LoadedFenced
<1>5. \A x \in d.pending.active : lapsed < x /\ x <= prepared'
  BY <1>3, <1>4 DEF AttemptsOpen
<1>6. a <= prepared' /\ prepared <= prepared' /\ prepared' \in 0 .. MaxAttempts
  BY <1>1, <1>3, AtStep, ConstantTypes
<1>. QED BY <1>2, <1>3, <1>5, <1>6, OperationMoves

LEMMA FinishKeepsCache ==
  ASSUME CacheInvariant, NEW a \in Attempt, Finish(a)
  PROVE  CacheInvariant'
<1>. DEFINE c == Loaded(coverageRevision)
            s == [Start EXCEPT !.at = "done", !.order = step[a].order]
            d == IF ~SameToken(step[a]) \/ c.pending = NoPending THEN c
                 ELSE Settled(c, a, NoGeneration)
<1>1. CacheTypeOK /\ step \in [Attempt -> Step] /\ canvas \in Nat
  BY Orders DEF CacheInvariant, CacheTypeOK
<1>2. Load(coverageRevision) /\ UNCHANGED <<coverageRevision, announced>>
  BY DEF Finish, manifestVars, dbVars
<1>3. /\ c \in Cache /\ FencedContents(c, token', step, canvas, unfenced)
      /\ AttemptsOpen(c.pending.active) /\ (Due => CoversNow(c, coverage))
  BY <1>2, LoadedFenced
<1>4. step[a].at = "finish" /\ step' = [step EXCEPT ![a] = s]
  BY DEF Finish, Ended
<1>5. /\ s \in Step /\ s.at = "done" /\ s.order = step[a].order
      /\ Made(s.token, minted, coverageRevision)
  BY EndedType
<1>6. entry' = d.entry /\ pending' = d.pending
  BY DEF Finish, Become
<1>. HIDE DEF c, s
<1>7. a \in c.pending.active => SameToken(step[a])
  BY <1>3, <1>4 DEF FencedContents, SameToken
<1>8. /\ d \in Cache /\ FencedContents(d, token', step, canvas, unfenced) /\ a \notin d.pending.active
      /\ d.pending.active \subseteq c.pending.active /\ (Due => CoversNow(d, coverage))
  <2>1. CASE ~SameToken(step[a]) \/ c.pending = NoPending
    BY <1>3, <1>7, <2>1, NoPendingType
  <2>2. CASE SameToken(step[a]) /\ c.pending # NoPending
    <3>. DEFINE r == Settled(c, a, NoGeneration)
    <3>1. d = r /\ c.pending.active # {}
      BY <1>3, <2>2 DEF FencedContents
    <3>2. a \in c.pending.active => step[a].order = 0 \/ step[a].order \in unfenced
      BY <1>3, <1>4 DEF FencedContents
    <3>3. FencedContents(r, token', step, canvas, unfenced) /\ a \notin r.pending.active
          /\ r.pending.active \subseteq c.pending.active
      BY <1>1, <1>3, <3>1, <3>2, AnyGenerationTyped, SettledFenced
    <3>4. r \in Cache /\ r.entry \in {c.entry, c.pending.candidate, NoGeneration}
          /\ r.pending.candidate \in {c.pending.candidate, NoGeneration}
      BY <1>3, AnyGenerationTyped, NoPendingType, SettledCases, BetterOrder
    <3>5. Due => CoversNow(r, coverage)
      BY <1>3, <3>4 DEF CoversNow
    <3>. QED BY <3>1, <3>3, <3>4, <3>5
  <2>. QED BY <2>1, <2>2
<1>9. UNCHANGED <<dbVars, manifestVars, minted, timeVars>> /\ mishaps' \in 0 .. MaxMishaps
      /\ mishaps <= mishaps'
  BY <1>1, Orders DEF Finish, fenceVars, CacheTypeOK
<1>. HIDE DEF d
<1>. QED BY <1>2, <1>4, <1>5, <1>6, <1>8, <1>9, CallEnds DEF c

\* The generation was classified against the templates of now when its token
\* is the one of now.
LEMMA ApplyKeeps ==
  ASSUME CacheInvariant, NEW a \in Attempt, Apply(a)
  PROVE  CacheInvariant'
<1>. DEFINE c == Loaded(coverageRevision)
            g == [order |-> step[a].order, cover |-> step[a].cover, live |-> TRUE,
                  sure |-> \A o \in step[a].order + 1 .. canvas :
                              \E other \in c.pending.active : step[other].order = o]
            h == IF a <= lapsed THEN NoGeneration ELSE g
            d == IF ~SameToken(step[a]) THEN c
                 ELSE IF c.pending # NoPending THEN Settled(c, a, h)
                 ELSE IF a <= lapsed \/ c.entry.order >= g.order THEN c
                 ELSE [c EXCEPT !.entry = g]
<1>1. CacheTypeOK /\ step \in [Attempt -> Step] /\ canvas \in Nat /\ mishaps \in 0 .. MaxMishaps
  BY Orders DEF CacheInvariant, CacheTypeOK
<1>2. Load(coverageRevision) /\ UNCHANGED <<coverageRevision, announced>>
  BY DEF Apply, manifestVars, dbVars
<1>3. /\ c \in Cache /\ FencedContents(c, token', step, canvas, unfenced)
      /\ AttemptsOpen(c.pending.active) /\ (Due => CoversNow(c, coverage))
  BY <1>2, LoadedFenced
<1>4. step[a].at = "apply" /\ step[a].order \in Attempt /\ step[a].cover \in Version
      /\ step[a] \in Step /\ a <= prepared /\ Made(step[a].token, minted, coverageRevision)
  BY AtStep DEF Apply
<1>5. entry' = d.entry /\ pending' = d.pending
  BY DEF Apply, Become
<1>6. /\ g \in Generation /\ g.order = step[a].order /\ g.cover = step[a].cover
      /\ g.sure => \A o \in g.order + 1 .. canvas :
                      \E other \in c.pending.active : step[other].order = o
  <2>. DEFINE excepted == \A o \in step[a].order + 1 .. canvas :
                          \E other \in c.pending.active : step[other].order = o
  <2>1. excepted \in BOOLEAN
    OBVIOUS
  <2>2. g = [order |-> step[a].order, cover |-> step[a].cover, live |-> TRUE, sure |-> excepted]
    OBVIOUS
  <2>3. g.order = step[a].order /\ (g.sure => excepted)
    BY <2>2
  <2>. HIDE DEF excepted
  <2>4. g \in Generation /\ g.cover = step[a].cover
    BY <1>4, <2>1, <2>2 DEF Generation
  <2>. QED BY <2>3, <2>4 DEF excepted
<1>. HIDE DEF c, g
<1>7. a \in c.pending.active => SameToken(step[a]) /\ ~(a <= lapsed)
  <2>1. a \in c.pending.active => SameToken(step[a])
    BY <1>3, <1>4 DEF FencedContents, SameToken
  <2>2. a \in Nat /\ lapsed \in Nat
    BY <1>1, Orders, ConstantTypes
  <2>. QED BY <1>3, <2>1, <2>2 DEF AttemptsOpen
<1>8. Due /\ SameToken(step[a]) => g.cover = coverage
  <2>. SUFFICES ASSUME Due, SameToken(step[a]) PROVE step[a].token \in Comparable
    BY <1>4, <1>6 DEF CacheInvariant, CoversDue, AttemptsCover
  <2>1. step[a].token = token'
    BY DEF SameToken
  <2>2. prepared # 0
    BY <1>1, <1>4, Orders, ConstantTypes
  <2>3. /\ token' # token => token' = <<"manifest", coverageRevision>>
        /\ token' # token => restarted
    BY <1>2, <2>2, LoadMakes
  <2>. QED BY <2>1, <2>3 DEF Due, Comparable
<1>9. /\ d \in Cache /\ FencedContents(d, token', step, canvas, unfenced) /\ a \notin d.pending.active
      /\ d.pending.active \subseteq c.pending.active /\ (Due => CoversNow(d, coverage))
  <2>0. g # NoGeneration /\ g \in AnyGeneration
    BY <1>6, GenerationType DEF AnyGeneration
  <2>1. CASE ~SameToken(step[a])
    BY <1>3, <1>7, <2>1
  <2>2. CASE SameToken(step[a]) /\ c.pending # NoPending
    <3>. DEFINE r == Settled(c, a, h)
    <3>1. d = r /\ c.pending.active # {} /\ h \in AnyGeneration
      BY <1>3, <2>0, <2>2, AnyGenerationTyped DEF FencedContents
    <3>2. h # NoGeneration =>
            /\ h.order = step[a].order
            /\ h.sure => \A o \in h.order + 1 .. canvas :
                            \E other \in c.pending.active : step[other].order = o
      BY <1>6
    <3>3. h = NoGeneration /\ a \in c.pending.active
            => step[a].order = 0 \/ step[a].order \in unfenced
      BY <1>7, <2>0
    <3>. HIDE DEF h
    <3>4. FencedContents(r, token', step, canvas, unfenced) /\ a \notin r.pending.active
          /\ r.pending.active \subseteq c.pending.active
      BY <1>1, <1>3, <3>1, <3>2, <3>3, SettledFenced
    <3>5. r \in Cache /\ r.entry \in {c.entry, c.pending.candidate, h}
          /\ r.pending.candidate \in {c.pending.candidate, h, NoGeneration}
      BY <1>3, <3>1, NoPendingType, SettledCases, BetterOrder
    <3>6. Due => CoversNow(r, coverage)
      <4>1. Due /\ h # NoGeneration => h.cover = coverage
        BY <1>8, <2>2 DEF h
      <4>. QED BY <1>3, <3>5, <4>1 DEF CoversNow
    <3>. QED BY <3>1, <3>4, <3>5, <3>6
  <2>3. CASE SameToken(step[a]) /\ c.pending = NoPending
             /\ (a <= lapsed \/ c.entry.order >= g.order)
    <3>1. d = c
      BY <2>3
    <3>. QED BY <1>3, <2>3, <3>1, NoPendingType
  <2>4. CASE SameToken(step[a]) /\ c.pending = NoPending
             /\ ~(a <= lapsed \/ c.entry.order >= g.order)
    <3>1. d = [c EXCEPT !.entry = g]
      BY <2>4
    <3>2. d \in Cache /\ d.entry = g /\ d.pending = NoPending
      BY <1>3, <2>0, <2>4, <3>1 DEF Cache
    <3>. HIDE DEF d
    <3>3. c.pending.active = {} /\ d.pending.active = {} /\ d.pending.candidate = NoGeneration
      BY <2>4, <3>2, NoPendingType
    <3>4. Accounted(g, {}, step, canvas, unfenced)
      BY <1>6, <3>3 DEF Accounted
    <3>5. FencedContents(d, token', step, canvas, unfenced)
      BY <3>2, <3>3, <3>4 DEF FencedContents, Accounted
    <3>6. Due => CoversNow(d, coverage)
      BY <1>8, <2>4, <3>2, <3>3 DEF CoversNow
    <3>. QED BY <3>2, <3>3, <3>5, <3>6
  <2>. QED BY <2>1, <2>2, <2>3, <2>4
<1>. HIDE DEF d
<1>10. UNCHANGED <<dbVars, manifestVars, minted, timeVars>>
  BY DEF Apply
<1>11. CASE Ended(a) /\ UNCHANGED mishaps
  <2>. DEFINE s == [Start EXCEPT !.at = "done", !.order = step[a].order]
  <2>1. step' = [step EXCEPT ![a] = s]
    BY <1>11 DEF Ended
  <2>2. /\ s \in Step /\ s.at = "done" /\ s.order = step[a].order
        /\ Made(s.token, minted, coverageRevision)
    BY EndedType
  <2>3. mishaps' \in 0 .. MaxMishaps /\ mishaps <= mishaps'
    BY <1>1, <1>11, Orders
  <2>. HIDE DEF s
  <2>. QED BY <1>2, <1>4, <1>5, <1>9, <1>10, <2>1, <2>2, <2>3, CallEnds DEF c
<1>12. CASE Mishap /\ step' = [step EXCEPT ![a].at = "finish"]
  <2>. DEFINE s == [step[a] EXCEPT !.at = "finish"]
  <2>1. step' = [step EXCEPT ![a] = s]
    BY <1>12
  <2>2. /\ s \in Step /\ s.at = "finish" /\ s.order = step[a].order
        /\ Made(s.token, minted, coverageRevision)
    BY <1>4 DEF Step
  <2>3. mishaps' \in 0 .. MaxMishaps /\ mishaps <= mishaps'
    BY <1>1, <1>12, ConstantTypes DEF Mishap
  <2>. HIDE DEF s
  <2>. QED BY <1>2, <1>4, <1>5, <1>9, <1>10, <2>1, <2>2, <2>3, CallEnds DEF c
<1>. QED BY <1>11, <1>12 DEF Apply

-----------------------------------------------------------------------------
(* Announcements, restarts and the manifest read model.                    *)

\* An empty cache is fenced and current.
LEMMA Emptied ==
  ASSUME entry' = NoGeneration, pending' = NoPending
  PROVE  /\ FencedNow' /\ \A now : CoversNow(Contents', now)
         /\ entry' \in AnyGeneration /\ pending' \in [active : SUBSET Attempt, candidate : AnyGeneration]
<1>1. pending'.active = {} /\ pending'.candidate = NoGeneration
  BY NoPendingType
<1>2. Contents'.entry = NoGeneration /\ Contents'.pending = NoPending
  BY DEF Contents
<1>3. FencedContents(Contents', token', step', canvas', unfenced')
  BY <1>1, <1>2, NoPendingType DEF FencedContents, Accounted
<1>4. AttemptsOpen(pending.active)'
  BY <1>1 DEF AttemptsOpen
<1>5. \A now : CoversNow(Contents', now)
  BY <1>1, <1>2, NoPendingType DEF CoversNow
<1>. QED BY <1>3, <1>4, <1>5, AnyGenerationTyped, NoPendingType DEF FencedNow

FlagsTyped == restarted \in BOOLEAN /\ missed \in BOOLEAN
ManifestTyped ==
    copy \in [cover : Version, held : BOOLEAN] /\ sourceRead \in [cover : Version, busy : BOOLEAN]

\* A token is made that nobody holds, and the cache is emptied.
LEMMA TokenMade ==
  ASSUME CacheInvariant,
         UNCHANGED <<canvas, coverage, unfenced, coverageRevision, copy, prepared, lapsed, step>>,
         Invalidate, synced' \in {0, synced},
         ~restarted' => synced' = synced /\ ~restarted,
         FlagsTyped', announced' \in {"yes", "changed", "invalidated"},
         sourceRead' \in {sourceRead, NotReading},
         mishaps' \in 0 .. MaxMishaps, RevisionsBounded', ManifestFresh',
         Due' => announced' # "yes" \/ (Due /\ announced = "yes")
  PROVE  CacheInvariant'
<1>1. CacheTypeOK /\ OrdersCounted /\ TokensMade
  BY DEF CacheInvariant
<1>2. /\ entry' = NoGeneration /\ pending' = NoPending /\ minted' = minted + 1
      /\ token' = <<"random", minted + 1>>
  BY DEF Invalidate
<1>3. FencedNow' /\ CoversNow(Contents', coverage') /\ entry' \in AnyGeneration
      /\ pending' \in [active : SUBSET Attempt, candidate : AnyGeneration]
  BY <1>2, Emptied
<1>4. minted' \in 0 .. MaxChanges + MaxMishaps
  <2>. DEFINE made == minted'  lost == mishaps'
  <2>1. MaxChanges \in Nat /\ MaxMishaps \in Nat
    BY ConstantTypes
  <2>2. made \in Nat /\ coverage \in 0 .. MaxChanges /\ lost \in 0 .. MaxMishaps
    BY <1>1, <1>2, Orders DEF CacheTypeOK, Version
  <2>3. made + (IF announced' = "changed" THEN 1 ELSE 0) <= coverage + lost
    BY DEF RevisionsBounded
  <2>. HIDE DEF made, lost
  <2>4. made <= coverage + lost
    <3>1. CASE announced' = "changed"
      BY <2>1, <2>2, <2>3, <3>1
    <3>2. CASE announced' # "changed"
      BY <2>1, <2>2, <2>3, <3>2
    <3>. QED BY <3>1, <3>2
  <2>5. made \in 0 .. MaxChanges + MaxMishaps
    BY <2>1, <2>2, <2>4
  <2>. QED BY <2>5 DEF made
<1>5. CacheTypeOK'
  <2>1. token' \in Token
    BY <1>2, <1>4, ConstantTypes DEF Token
  <2>2. synced' \in 0 .. 2 * MaxChanges + 1
    BY <1>1, ConstantTypes DEF CacheTypeOK
  <2>3. sourceRead' \in [cover : Version, busy : BOOLEAN]
    <3>1. NotReading \in [cover : Version, busy : BOOLEAN]
      BY ConstantTypes DEF NotReading
    <3>2. sourceRead \in [cover : Version, busy : BOOLEAN]
      BY <1>1 DEF CacheTypeOK
    <3>. QED BY <3>1, <3>2
  <2>. QED BY <1>1, <1>3, <1>4, <2>1, <2>2, <2>3 DEF CacheTypeOK, AnyGeneration, FlagsTyped
<1>6. OrdersCounted'
  BY <1>1 DEF OrdersCounted, Committed
<1>7. TokensMade'
  <2>1. minted \in Nat /\ coverageRevision \in Nat /\ synced \in Nat
    BY <1>1, Orders
  <2>2. \A a \in Attempt : Made(step[a].token, minted, coverageRevision)
    BY <1>1 DEF TokensMade
  <2>3. \A a \in Attempt : Made(step[a].token, minted + 1, coverageRevision)
    <3>. SUFFICES ASSUME NEW a \in Attempt PROVE Made(step[a].token, minted + 1, coverageRevision)
      OBVIOUS
    <3>1. step[a].token[2] \in Nat
      <4>1. step[a].token \in Token
        BY AtStep
      <4>. QED BY <4>1, ConstantTypes DEF Token
    <3>. QED BY <2>1, <2>2, <3>1 DEF Made
  <2>4. Made(token', minted + 1, coverageRevision)
    BY <1>2, <2>1 DEF Made
  <2>5. synced' <= coverageRevision /\ (~restarted' /\ 0 < prepared => synced' = coverageRevision)
    BY <1>1, <2>1 DEF TokensMade
  <2>. QED BY <1>2, <2>3, <2>4, <2>5 DEF TokensMade
<1>8. CoversDue'
  <2>. SUFFICES ASSUME Due', NEW a \in Attempt, step[a].at \in {"commit", "apply"},
                       step[a].token \in Comparable'
                PROVE  step[a].cover = coverage
    BY <1>3 DEF CoversDue, AttemptsCover
  <2>1. step[a].token # token'
    BY <1>1, <1>2, Orders DEF TokensMade, Made
  <2>2. announced' = "yes" /\ step[a].token = <<"manifest", coverageRevision>>
    BY <2>1 DEF Comparable
  <2>3. Due /\ step[a].token \in Comparable
    BY <2>2 DEF Comparable
  <2>. QED BY <2>3 DEF CacheInvariant, CoversDue, AttemptsCover
<1>. QED BY <1>3, <1>5, <1>6, <1>7, <1>8 DEF CacheInvariant

LEMMA AnnounceKeeps ==
  ASSUME CacheInvariant, Announce
  PROVE  CacheInvariant'
<1>1. CacheTypeOK
  BY DEF CacheInvariant
<1>2. /\ UNCHANGED <<canvas, coverage, unfenced, missed, coverageRevision, copy, sourceRead, synced,
                     prepared, lapsed, restarted, mishaps, step>>
      /\ announced = "changed" /\ announced' = "invalidated" /\ Invalidate /\ minted' = minted + 1
  BY DEF Announce, manifestVars, fenceVars, timeVars, Invalidate
<1>3. RevisionsBounded'
  <2>1. minted' <= coverage + mishaps
    BY <1>1, <1>2, Orders DEF CacheInvariant, RevisionsBounded
  <2>. QED BY <1>2, <2>1 DEF CacheInvariant, RevisionsBounded, Announcements
<1>4. ManifestFresh'
  BY <1>2 DEF ManifestFresh
<1>5. mishaps' \in 0 .. MaxMishaps /\ FlagsTyped'
  BY <1>1, <1>2 DEF CacheTypeOK, FlagsTyped
<1>6. /\ synced' \in {0, synced} /\ sourceRead' \in {sourceRead, NotReading}
      /\ announced' \in {"yes", "changed", "invalidated"} /\ announced' # "yes"
      /\ ~restarted' => synced' = synced /\ ~restarted
  BY <1>2
<1>. QED BY <1>2, <1>3, <1>4, <1>5, <1>6, TokenMade

LEMMA RestartKeeps ==
  ASSUME CacheInvariant, Restart
  PROVE  CacheInvariant'
<1>1. CacheTypeOK
  BY DEF CacheInvariant
<1>2. /\ UNCHANGED <<canvas, coverage, unfenced, coverageRevision, copy, prepared, lapsed, step>>
      /\ Invalidate /\ minted' = minted + 1 /\ synced' = 0 /\ restarted' = TRUE
      /\ sourceRead' = NotReading /\ mishaps' = mishaps + 1
      /\ mishaps' \in 0 .. MaxMishaps
  BY <1>1, ConstantTypes DEF Restart, Mishap, Invalidate, CacheTypeOK
<1>3. \/ announced = "invalidated" /\ announced' = "yes" /\ missed'
      \/ announced # "invalidated" /\ UNCHANGED <<announced, missed>>
  BY DEF Restart
<1>4. /\ announced' \in {"yes", "changed", "invalidated"} /\ missed' \in BOOLEAN
  <2>1. announced' \in {"yes", "changed", "invalidated"}
    BY <1>1, <1>3 DEF CacheTypeOK
  <2>2. missed' \in BOOLEAN
    <3>1. CASE announced = "invalidated"
      BY <3>1 DEF Restart
    <3>2. CASE announced # "invalidated"
      BY <1>1, <3>2 DEF CacheTypeOK, Restart
    <3>. QED BY <3>1, <3>2
  <2>. QED BY <2>1, <2>2
<1>5. RevisionsBounded'
  <2>1. /\ coverage \in Nat /\ coverageRevision \in Nat /\ minted \in Nat /\ mishaps \in Nat
        /\ copy.cover \in Nat /\ sourceRead.cover \in Nat /\ sourceRead'.busy = FALSE
        /\ copy.held \in BOOLEAN
    BY <1>1, <1>2, Orders DEF NotReading
  <2>2. Announcements \in Int /\ Announcements' \in Int /\ Announcements <= Announcements'
    BY <1>2, <1>3, <2>1 DEF Announcements
  <2>3. coverageRevision <= 1 + Announcements + (IF copy.held THEN copy.cover ELSE coverage)
    <3>1. CASE copy.held
      BY <3>1 DEF CacheInvariant, RevisionsBounded
    <3>2. CASE ~copy.held /\ sourceRead.busy
      BY <2>1, <2>2, <3>2 DEF CacheInvariant, RevisionsBounded
    <3>3. CASE ~copy.held /\ ~sourceRead.busy
      BY <3>3 DEF CacheInvariant, RevisionsBounded
    <3>. QED BY <3>1, <3>2, <3>3
  <2>4. coverageRevision <= 1 + Announcements' + (IF copy.held THEN copy.cover ELSE coverage)
    BY <2>1, <2>2, <2>3
  <2>5. minted' + (IF announced' = "changed" THEN 1 ELSE 0) <= coverage + mishaps'
    BY <1>2, <1>3, <2>1 DEF CacheInvariant, RevisionsBounded
  <2>6. /\ announced' # "yes" => 0 < coverage
        /\ copy.held => copy.cover <= coverage
    BY <1>3 DEF CacheInvariant, RevisionsBounded
  <2>. QED BY <1>2, <2>1, <2>4, <2>5, <2>6 DEF RevisionsBounded
<1>6. ManifestFresh'
  BY <1>2, <1>3 DEF CacheInvariant, ManifestFresh, NotReading
<1>7. Due' => Due /\ announced = "yes"
  BY <1>2, <1>3 DEF Due
<1>8. FlagsTyped'
  BY <1>2, <1>4 DEF FlagsTyped
<1>. QED BY <1>2, <1>4, <1>5, <1>6, <1>7, <1>8, TokenMade

\* The next coverage revision names a token that nobody holds.
LEMMA RevisionNamed ==
  ASSUME CacheInvariant,
         UNCHANGED <<canvas, coverage, unfenced, missed, minted, prepared, lapsed, restarted,
                     mishaps, step>>,
         coverageRevision' = coverageRevision + 1,
         Load(coverageRevision'), Become(Loaded(coverageRevision')),
         announced' \in {"yes", "changed", "invalidated"},
         ManifestTyped', RevisionsBounded', ManifestFresh'
  PROVE  CacheInvariant'
<1>1. CacheTypeOK /\ OrdersCounted /\ TokensMade
  BY DEF CacheInvariant
<1>2. /\ coverageRevision \in Nat /\ synced \in Nat /\ minted \in Nat /\ coverage \in Nat
      /\ coverageRevision' > synced
  BY <1>1, Orders DEF TokensMade
<1>3. /\ token' = <<"manifest", coverageRevision'>> /\ synced' = coverageRevision'
      /\ LoadedToken(coverageRevision') = token'
  BY <1>2 DEF Load, LoadedToken
<1>4. token' # token
  BY <1>1, <1>2, <1>3 DEF TokensMade, Made
<1>5. entry' = NoGeneration /\ pending' = NoPending
  BY <1>1, <1>3, <1>4, LoadedCases DEF Become
<1>6. FencedNow' /\ CoversNow(Contents', coverage') /\ entry' \in AnyGeneration
      /\ pending' \in [active : SUBSET Attempt, candidate : AnyGeneration]
  BY <1>5, Emptied
<1>7. coverageRevision' \in 1 .. 2 * MaxChanges + 1
  <2>1. /\ copy'.cover \in 0 .. MaxChanges /\ sourceRead'.cover \in 0 .. MaxChanges
        /\ coverage \in 0 .. MaxChanges /\ MaxChanges \in Nat
    BY <1>1, ConstantTypes DEF CacheTypeOK, Version, ManifestTyped
  <2>2. Announcements' \in Int /\ Announcements' <= MaxChanges
    BY <2>1 DEF Announcements
  <2>. DEFINE made == coverageRevision'
              said == Announcements'
              seen == IF copy'.held THEN copy'.cover
                      ELSE IF sourceRead'.busy THEN sourceRead'.cover ELSE coverage
  <2>3. seen \in 0 .. MaxChanges
    <3>1. CASE copy'.held
      BY <2>1, <3>1
    <3>2. CASE ~copy'.held
      BY <2>1, <3>2
    <3>. QED BY <3>1, <3>2
  <2>4. coverageRevision' <= 1 + Announcements' + seen
    <3>1. coverage' = coverage
      OBVIOUS
    <3>. QED BY <3>1 DEF RevisionsBounded
  <2>5. made \in Nat /\ 0 < made /\ said \in Int /\ said <= MaxChanges
        /\ made <= 1 + said + seen
    BY <1>2, <2>2, <2>4
  <2>. HIDE DEF seen, made, said
  <2>6. made <= 1 + MaxChanges + MaxChanges
    BY <2>1, <2>3, <2>5
  <2>7. made \in 1 .. 2 * MaxChanges + 1
    BY <2>1, <2>5, <2>6
  <2>. QED BY <2>7 DEF made
<1>8. CacheTypeOK'
  <2>1. token' \in Token
    BY <1>3, <1>7, ConstantTypes DEF Token
  <2>2. synced' \in 0 .. 2 * MaxChanges + 1
    BY <1>3, <1>7, ConstantTypes
  <2>. QED BY <1>1, <1>6, <1>7, <2>1, <2>2 DEF CacheTypeOK, AnyGeneration, ManifestTyped
<1>9. OrdersCounted'
  BY <1>1 DEF OrdersCounted, Committed
<1>10. TokensMade'
  <2>1. \A a \in Attempt : Made(step[a].token, minted, coverageRevision')
    <3>. SUFFICES ASSUME NEW a \in Attempt PROVE Made(step[a].token, minted, coverageRevision')
      OBVIOUS
    <3>1. step[a].token[2] \in Nat
      <4>1. step[a].token \in Token
        BY AtStep
      <4>. QED BY <4>1, ConstantTypes DEF Token
    <3>. QED BY <1>1, <1>2, <3>1 DEF TokensMade, Made
  <2>2. Made(token', minted, coverageRevision')
    BY <1>2, <1>3 DEF Made
  <2>. QED BY <1>2, <1>3, <2>1, <2>2 DEF TokensMade
<1>11. CoversDue'
  <2>1. Comparable' = {<<"manifest", coverageRevision'>>}
    BY <1>3 DEF Comparable
  <2>2. \A a \in Attempt : step[a].token # <<"manifest", coverageRevision'>>
    BY <1>1, <1>2 DEF TokensMade, Made
  <2>. QED BY <1>6, <2>1, <2>2 DEF CoversDue, AttemptsCover
<1>. QED BY <1>6, <1>8, <1>9, <1>10, <1>11 DEF CacheInvariant

\* Only the templates, their announcement and the manifest's copy change.
LEMMA CacheStands ==
  ASSUME CacheInvariant,
         UNCHANGED <<canvas, coverageRevision, token, synced, minted, restarted, entry, pending,
                     prepared, lapsed, step, unfenced>>,
         coverage' \in Version, announced' \in {"yes", "changed", "invalidated"}, FlagsTyped',
         ManifestTyped', mishaps' \in 0 .. MaxMishaps,
         RevisionsBounded', ManifestFresh',
         Due' => Due /\ coverage' = coverage /\ announced' = announced
  PROVE  CacheInvariant'
<1>1. CacheTypeOK'
  BY DEF CacheInvariant, CacheTypeOK, FlagsTyped, ManifestTyped
<1>2. OrdersCounted'
  BY DEF CacheInvariant, OrdersCounted, Committed
<1>3. Contents' = Contents
  BY DEF Contents
<1>4. FencedNow'
  BY <1>3 DEF CacheInvariant, FencedNow, AttemptsOpen
<1>5. TokensMade'
  BY DEF CacheInvariant, TokensMade
<1>6. CoversDue'
  <2>. SUFFICES ASSUME Due'
                PROVE  CoversNow(Contents', coverage') /\ AttemptsCover(step', Comparable', coverage')
    BY DEF CoversDue
  <2>1. Comparable' = Comparable
    BY DEF Comparable
  <2>. QED BY <1>3, <2>1 DEF CacheInvariant, CoversDue
<1>. QED BY <1>1, <1>2, <1>4, <1>5, <1>6 DEF CacheInvariant

LEMMA ManifestTypes ==
  ASSUME CacheInvariant
  PROVE  ManifestTyped /\ FlagsTyped
  BY DEF CacheInvariant, CacheTypeOK, ManifestTyped, FlagsTyped

LEMMA ChangeKeeps ==
  ASSUME CacheInvariant, ChangeTemplates
  PROVE  CacheInvariant'
<1>1. CacheTypeOK
  BY DEF CacheInvariant
<1>2. /\ UNCHANGED <<canvas, coverageRevision, token, synced, minted, restarted, entry, pending,
                     prepared, lapsed, step, unfenced, missed, copy, sourceRead, mishaps>>
      /\ announced = "yes" /\ announced' = "changed" /\ coverage' = coverage + 1
      /\ coverage < MaxChanges
  BY DEF ChangeTemplates, manifestVars, fenceVars, timeVars
<1>3. /\ coverage \in Nat /\ coverageRevision \in Nat /\ minted \in Nat /\ mishaps \in Nat
      /\ copy.cover \in Nat /\ sourceRead.cover \in Nat
  BY <1>1, Orders
<1>4. coverage' \in Version
  BY <1>2, <1>3, ConstantTypes DEF Version
<1>5. RevisionsBounded'
  <2>1. Announcements = coverage /\ Announcements' = coverage
    BY <1>2, <1>3 DEF Announcements
  <2>. DEFINE seen == IF copy.held THEN copy.cover
                      ELSE IF sourceRead.busy THEN sourceRead.cover ELSE coverage
              seenNow == IF copy.held THEN copy.cover
                         ELSE IF sourceRead.busy THEN sourceRead.cover ELSE coverage + 1
  <2>2. seen \in Nat /\ seenNow \in Nat /\ seen <= seenNow
    <3>1. CASE copy.held \/ sourceRead.busy
      BY <1>3, <3>1
    <3>2. CASE ~copy.held /\ ~sourceRead.busy
      BY <1>3, <3>2
    <3>. QED BY <3>1, <3>2
  <2>3. coverageRevision <= 1 + coverage + seen
    BY <2>1 DEF CacheInvariant, RevisionsBounded
  <2>. HIDE DEF seen, seenNow
  <2>4. coverageRevision <= 1 + coverage + seenNow
    BY <1>3, <2>2, <2>3
  <2>5. /\ copy.held => copy.cover <= coverage + 1
        /\ sourceRead.busy => sourceRead.cover <= coverage + 1
        /\ copy.held /\ sourceRead.busy => copy.cover <= sourceRead.cover
        /\ minted + 1 <= coverage + 1 + mishaps
    <3>1. /\ copy.held => copy.cover <= coverage
          /\ sourceRead.busy => sourceRead.cover <= coverage
          /\ copy.held /\ sourceRead.busy => copy.cover <= sourceRead.cover
          /\ minted + 0 <= coverage + mishaps
      BY <1>2 DEF CacheInvariant, RevisionsBounded
    <3>2. copy.cover <= coverage => copy.cover <= coverage + 1
      BY <1>3
    <3>3. sourceRead.cover <= coverage => sourceRead.cover <= coverage + 1
      BY <1>3
    <3>4. minted + 1 <= coverage + 1 + mishaps
      BY <1>3, <3>1
    <3>. QED BY <3>1, <3>2, <3>3, <3>4
  <2>6. 0 < coverage + 1
    BY <1>3
  <2>. QED BY <1>2, <2>1, <2>4, <2>5, <2>6 DEF RevisionsBounded, seenNow
<1>6. ManifestFresh' /\ ~Due'
  BY <1>2 DEF ManifestFresh, Due
<1>7. FlagsTyped' /\ ManifestTyped'
  BY <1>2, ManifestTypes DEF FlagsTyped, ManifestTyped
<1>8. mishaps' \in 0 .. MaxMishaps
  BY <1>1, <1>2 DEF CacheTypeOK
<1>. QED BY <1>2, <1>4, <1>5, <1>6, <1>7, <1>8, CacheStands

LEMMA MissKeeps ==
  ASSUME CacheInvariant, MissAnnouncement
  PROVE  CacheInvariant'
<1>1. CacheTypeOK
  BY DEF CacheInvariant
<1>2. /\ UNCHANGED <<canvas, coverage, coverageRevision, token, synced, minted, restarted, entry,
                     pending, prepared, lapsed, step, unfenced, copy, sourceRead>>
      /\ announced = "changed" /\ announced' = "yes" /\ missed' = TRUE /\ mishaps' = mishaps + 1
      /\ mishaps' \in 0 .. MaxMishaps
  BY <1>1, ConstantTypes DEF MissAnnouncement, Mishap, manifestVars, timeVars, CacheTypeOK
<1>3. /\ coverage \in Nat /\ coverageRevision \in Nat /\ minted \in Nat /\ mishaps \in Nat
      /\ copy.cover \in Nat /\ sourceRead.cover \in Nat /\ coverage \in Version
  BY <1>1, Orders DEF CacheTypeOK
<1>4. RevisionsBounded'
  <2>. DEFINE seen == IF copy.held THEN copy.cover
                      ELSE IF sourceRead.busy THEN sourceRead.cover ELSE coverage
  <2>1. seen \in Nat
    <3>1. CASE copy.held
      BY <1>3, <3>1
    <3>2. CASE ~copy.held
      BY <1>3, <3>2
    <3>. QED BY <3>1, <3>2
  <2>2. coverageRevision <= 1 + (coverage - 1) + seen /\ minted + 1 <= coverage + mishaps
    BY <1>2 DEF CacheInvariant, RevisionsBounded, Announcements
  <2>. HIDE DEF seen
  <2>3. coverageRevision <= 1 + coverage + seen /\ minted + 0 <= coverage + (mishaps + 1)
    BY <1>3, <2>1, <2>2
  <2>4. /\ copy.held => copy.cover <= coverage
        /\ sourceRead.busy => sourceRead.cover <= coverage
        /\ copy.held /\ sourceRead.busy => copy.cover <= sourceRead.cover
    BY DEF CacheInvariant, RevisionsBounded
  <2>. QED BY <1>2, <2>3, <2>4 DEF RevisionsBounded, Announcements, seen
<1>5. ManifestFresh' /\ ~Due'
  BY <1>2 DEF ManifestFresh, Due
<1>6. FlagsTyped' /\ ManifestTyped'
  BY <1>2, ManifestTypes DEF FlagsTyped, ManifestTyped
<1>. QED BY <1>2, <1>3, <1>4, <1>5, <1>6, CacheStands

\* A read begins: until it is saved, an invalidation waits.
LEMMA ReadKeeps ==
  ASSUME CacheInvariant, ReadSource
  PROVE  CacheInvariant'
<1>1. CacheTypeOK
  BY DEF CacheInvariant
<1>2. /\ UNCHANGED <<canvas, coverage, announced, coverageRevision, token, synced, minted, restarted,
                     entry, pending, prepared, lapsed, step, unfenced, missed, copy, mishaps>>
      /\ sourceRead' = [cover |-> coverage, busy |-> TRUE] /\ ~sourceRead.busy
  BY DEF ReadSource, dbVars, fenceVars, timeVars, QueueFree
<1>3. coverage \in Version /\ announced \in {"yes", "changed", "invalidated"}
      /\ mishaps \in 0 .. MaxMishaps /\ coverage \in Nat
  BY <1>1, Orders DEF CacheTypeOK
<1>4. sourceRead'.cover = coverage /\ sourceRead'.busy
  BY <1>2
<1>5. RevisionsBounded'
  <2>1. coverage <= coverage
    BY <1>3
  <2>. QED BY <1>2, <1>4, <2>1 DEF CacheInvariant, RevisionsBounded, Announcements
<1>6. ManifestFresh'
  BY <1>2, <1>4 DEF CacheInvariant, ManifestFresh
<1>7. FlagsTyped' /\ ManifestTyped'
  BY <1>2, <1>3, ManifestTypes DEF FlagsTyped, ManifestTyped
<1>8. Due' => Due
  BY <1>2 DEF Due
<1>. QED BY <1>2, <1>3, <1>5, <1>6, <1>7, <1>8, CacheStands

\* The invalidation clears the copy and makes a revision.
LEMMA InvalidateKeeps ==
  ASSUME CacheInvariant, InvalidateManifest
  PROVE  CacheInvariant'
<1>1. CacheTypeOK
  BY DEF CacheInvariant
<1>2. /\ UNCHANGED <<canvas, coverage, unfenced, missed, minted, prepared, lapsed, restarted,
                     mishaps, step>>
      /\ sourceRead' = sourceRead /\ announced = "invalidated" /\ announced' = "yes"
      /\ coverageRevision' = coverageRevision + 1 /\ copy' = NoCopy /\ ~sourceRead.busy
      /\ Load(coverageRevision') /\ Become(Loaded(coverageRevision'))
  BY DEF InvalidateManifest, fenceVars, timeVars, QueueFree
<1>3. copy'.cover = 0 /\ copy'.held = FALSE
  BY <1>2 DEF NoCopy
<1>4. ManifestTyped'
  BY <1>1, <1>2, ConstantTypes DEF ManifestTyped, NoCopy, CacheTypeOK
<1>5. RevisionsBounded'
  <2>1. /\ coverage \in Nat /\ coverageRevision \in Nat /\ minted \in Nat /\ mishaps \in Nat
        /\ copy.cover \in Nat
    BY <1>1, Orders
  <2>. DEFINE seen == IF copy.held THEN copy.cover ELSE coverage
  <2>2. seen \in Nat /\ seen <= coverage
    <3>1. CASE copy.held
      BY <2>1, <3>1 DEF CacheInvariant, RevisionsBounded
    <3>2. CASE ~copy.held
      BY <2>1, <3>2
    <3>. QED BY <3>1, <3>2
  <2>3. coverageRevision <= 1 + (coverage - 1) + seen /\ minted + 0 <= coverage + mishaps
    BY <1>2 DEF CacheInvariant, RevisionsBounded, Announcements
  <2>. HIDE DEF seen
  <2>4. coverageRevision + 1 <= 1 + coverage + coverage
    BY <2>1, <2>2, <2>3
  <2>. QED BY <1>2, <1>3, <2>3, <2>4 DEF RevisionsBounded, Announcements
<1>6. ManifestFresh'
  BY <1>2, <1>3 DEF ManifestFresh
<1>. QED BY <1>2, <1>4, <1>5, <1>6, RevisionNamed

\* A copy that differs from the one before is a revision.
LEMMA SaveKeepsCache ==
  ASSUME CacheInvariant, SaveManifest
  PROVE  CacheInvariant'
<1>1. CacheTypeOK
  BY DEF CacheInvariant
<1>2. /\ UNCHANGED <<canvas, coverage, announced, unfenced, missed, minted, prepared, lapsed,
                     restarted, mishaps, step>>
      /\ sourceRead.busy /\ sourceRead' = NotReading
      /\ copy' = [cover |-> sourceRead.cover, held |-> TRUE]
  BY DEF SaveManifest, dbVars, fenceVars, timeVars
<1>3. copy'.cover = sourceRead.cover /\ copy'.held /\ sourceRead'.busy = FALSE
  BY <1>2 DEF NotReading
<1>4. /\ ManifestTyped' /\ FlagsTyped'
  <2>1. sourceRead.cover \in Version
    BY <1>1 DEF CacheTypeOK
  <2>. QED BY <1>2, <2>1, ConstantTypes, ManifestTypes DEF ManifestTyped, FlagsTyped, NotReading
<1>5. /\ coverage \in Nat /\ coverageRevision \in Nat /\ copy.cover \in Nat
      /\ sourceRead.cover \in Nat /\ Announcements \in Int
  BY <1>1, Orders DEF Announcements
<1>6. ManifestFresh'
  BY <1>2, <1>3 DEF CacheInvariant, ManifestFresh
<1>7. /\ announced # "yes" => 0 < coverage
      /\ sourceRead.cover <= coverage
      /\ minted + (IF announced = "changed" THEN 1 ELSE 0) <= coverage + mishaps
      /\ copy.held => copy.cover <= sourceRead.cover
      /\ copy.held => coverageRevision <= 1 + Announcements + copy.cover
      /\ ~copy.held => coverageRevision <= 1 + Announcements + sourceRead.cover
  BY <1>2 DEF CacheInvariant, RevisionsBounded
<1>8. announced' \in {"yes", "changed", "invalidated"} /\ coverage' \in Version
      /\ mishaps' \in 0 .. MaxMishaps
  BY <1>1, <1>2 DEF CacheTypeOK
<1>9. CASE copy.held /\ copy.cover # sourceRead.cover
  <2>1. /\ coverageRevision' = coverageRevision + 1
        /\ Load(coverageRevision') /\ Become(Loaded(coverageRevision'))
    BY <1>9 DEF SaveManifest
  <2>2. coverageRevision + 1 <= 1 + Announcements + sourceRead.cover
    <3>1. /\ copy.cover <= sourceRead.cover /\ copy.cover # sourceRead.cover
          /\ coverageRevision <= 1 + Announcements + copy.cover
      BY <1>7, <1>9
    <3>. DEFINE said == Announcements  old == copy.cover  new == sourceRead.cover
    <3>2. /\ said \in Int /\ old \in Nat /\ new \in Nat /\ coverageRevision \in Nat
          /\ old <= new /\ old # new /\ coverageRevision <= 1 + said + old
      BY <1>5, <3>1
    <3>. HIDE DEF said, old, new
    <3>3. coverageRevision + 1 <= 1 + said + new
      BY <3>2
    <3>. QED BY <3>3 DEF said, new
  <2>3. Announcements' = Announcements
    BY <1>2 DEF Announcements
  <2>4. RevisionsBounded'
    BY <1>2, <1>3, <1>7, <2>1, <2>2, <2>3 DEF RevisionsBounded
  <2>. QED BY <1>2, <1>4, <1>6, <1>8, <2>1, <2>4, RevisionNamed
<1>10. CASE ~(copy.held /\ copy.cover # sourceRead.cover)
  <2>1. UNCHANGED <<coverageRevision, token, synced, entry, pending>>
    BY <1>10 DEF SaveManifest
  <2>2. coverageRevision <= 1 + Announcements + sourceRead.cover
    BY <1>7, <1>10
  <2>3. Announcements' = Announcements
    BY <1>2 DEF Announcements
  <2>4. RevisionsBounded'
    BY <1>2, <1>3, <1>7, <2>1, <2>2, <2>3 DEF RevisionsBounded
  <2>5. Due' => Due
    BY <1>2 DEF Due
  <2>. QED BY <1>2, <1>4, <1>6, <1>8, <2>1, <2>4, <2>5, CacheStands
<1>. QED BY <1>9, <1>10

-----------------------------------------------------------------------------
(* Time.                                                                   *)

\* Only the contents of the cache, and time, change.
LEMMA ContentsChange ==
  ASSUME CacheInvariant,
         UNCHANGED <<dbVars, manifestVars, token, synced, minted, prepared, mishaps, restarted, step>>,
         lapsed' \in 0 .. MaxAttempts, lapsed' <= prepared,
         entry' \in AnyGeneration, pending' \in [active : SUBSET Attempt, candidate : AnyGeneration],
         FencedNow', Due => CoversNow(Contents', coverage)
  PROVE  CacheInvariant'
<1>1. UNCHANGED <<canvas, coverage, announced, unfenced, missed, coverageRevision, copy, sourceRead,
                  token, synced, minted, prepared, mishaps, restarted, step>>
  BY DEF dbVars, manifestVars
<1>2. CacheTypeOK'
  BY <1>1 DEF CacheInvariant, CacheTypeOK, AnyGeneration
<1>3. OrdersCounted'
  BY <1>1 DEF CacheInvariant, OrdersCounted, Committed
<1>4. RevisionsBounded' /\ ManifestFresh' /\ TokensMade'
  BY <1>1 DEF CacheInvariant, RevisionsBounded, Announcements, ManifestFresh, TokensMade
<1>5. CoversDue'
  <2>1. Due' = Due /\ Comparable' = Comparable
    BY <1>1 DEF Due, Comparable
  <2>. QED BY <1>1, <2>1 DEF CacheInvariant, CoversDue
<1>. QED BY <1>2, <1>3, <1>4, <1>5 DEF CacheInvariant

\* What holds of the contents before the step.
LEMMA ContentsNow ==
  ASSUME CacheInvariant
  PROVE  /\ CacheTypeOK /\ entry \in AnyGeneration
         /\ pending \in [active : SUBSET Attempt, candidate : AnyGeneration]
         /\ pending.active = {} => pending = NoPending
         /\ pending.active # {} => entry = NoGeneration
         /\ Accounted(entry, {}, step, canvas, unfenced)
         /\ Accounted(pending.candidate, pending.active, step, canvas, unfenced)
         /\ \A a \in pending.active :
               /\ step[a].at = "done" \/ step[a].token = token
               /\ step[a].at = "finish" => step[a].order = 0 \/ step[a].order \in unfenced
         /\ AttemptsOpen(pending.active)
         /\ Due => \A g \in {entry, pending.candidate} : g # NoGeneration => g.cover = coverage
<1>1. CacheTypeOK /\ FencedNow /\ CoversDue
  BY DEF CacheInvariant
<1>2. Contents.entry = entry /\ Contents.pending = pending
  BY <1>1, ContentsType
<1>3. /\ pending.active = {} => pending = NoPending
      /\ pending.active # {} => entry = NoGeneration
      /\ Accounted(entry, {}, step, canvas, unfenced)
      /\ Accounted(pending.candidate, pending.active, step, canvas, unfenced)
      /\ \A a \in pending.active :
               /\ step[a].at = "done" \/ step[a].token = token
               /\ step[a].at = "finish" => step[a].order = 0 \/ step[a].order \in unfenced
  BY <1>1, <1>2 DEF FencedNow, FencedContents
<1>4. Due => \A g \in {entry, pending.candidate} : g # NoGeneration => g.cover = coverage
  BY <1>1, <1>2 DEF CoversDue, CoversNow
<1>. QED BY <1>1, <1>3, <1>4 DEF CacheTypeOK, FencedNow, AnyGeneration

LEMMA ResolveKeeps ==
  ASSUME CacheInvariant, Resolve
  PROVE  CacheInvariant'
<1>1. CacheTypeOK /\ lapsed \in 0 .. MaxAttempts /\ lapsed <= prepared
  BY DEF CacheInvariant, CacheTypeOK, OrdersCounted
<1>2. /\ entry' = NoGeneration /\ pending' = pending /\ lapsed' = lapsed
      /\ UNCHANGED <<dbVars, manifestVars, token, synced, minted, prepared, mishaps, restarted, step>>
      /\ UNCHANGED <<canvas, unfenced>>
  BY DEF Resolve, fenceVars, timeVars, dbVars
<1>3. Contents'.entry = NoGeneration /\ Contents'.pending = pending
  BY <1>2 DEF Contents
<1>4. FencedNow'
  BY <1>2, <1>3, ContentsNow DEF FencedNow, FencedContents, Accounted, AttemptsOpen
<1>5. Due => CoversNow(Contents', coverage)
  BY <1>3, ContentsNow DEF CoversNow
<1>6. entry' \in AnyGeneration /\ pending' \in [active : SUBSET Attempt, candidate : AnyGeneration]
  BY <1>2, ContentsNow, AnyGenerationTyped
<1>. QED BY <1>1, <1>2, <1>4, <1>5, <1>6, ContentsChange

\* A generation grows too old to be acknowledged, and stays what it is.
LEMMA Aged ==
  ASSUME NEW g \in AnyGeneration, g # NoGeneration
  PROVE  LET old == [g EXCEPT !.live = FALSE]
         IN  /\ old \in AnyGeneration /\ old # NoGeneration /\ old.cover = g.cover
             /\ \A those, steps, top, excepted : Accounted(g, those, steps, top, excepted)
                                                  => Accounted(old, those, steps, top, excepted)
<1>. DEFINE old == [g EXCEPT !.live = FALSE]
<1>1. g \in Generation
  BY DEF AnyGeneration
<1>2. old \in Generation
  BY <1>1 DEF Generation
<1>3. old.order = g.order /\ old.cover = g.cover
  BY <1>1 DEF Generation
<1>4. old.sure = g.sure
  BY <1>1 DEF Generation
<1>5. old # NoGeneration /\ old \in AnyGeneration
  BY <1>2, GenerationType DEF AnyGeneration
<1>. HIDE DEF old
<1>6. \A those, steps, top, excepted : Accounted(g, those, steps, top, excepted)
                                        => Accounted(old, those, steps, top, excepted)
  BY <1>3, <1>4 DEF Accounted
<1>. QED BY <1>3, <1>5, <1>6 DEF old

LEMMA AgeKeeps ==
  ASSUME CacheInvariant, ExpireGeneration
  PROVE  CacheInvariant'
<1>1. CacheTypeOK /\ lapsed \in 0 .. MaxAttempts /\ lapsed <= prepared
  BY DEF CacheInvariant, CacheTypeOK, OrdersCounted
<1>2. /\ lapsed' = lapsed /\ UNCHANGED <<canvas, unfenced, prepared, token, step>>
      /\ UNCHANGED <<dbVars, manifestVars, token, synced, minted, prepared, mishaps, restarted, step>>
  BY DEF ExpireGeneration, fenceVars, timeVars, dbVars
<1>3. CASE /\ entry # NoGeneration /\ entry' = [entry EXCEPT !.live = FALSE] /\ pending' = pending
  <2>1. /\ entry' \in AnyGeneration /\ entry'.cover = entry.cover
        /\ Accounted(entry', {}, step, canvas, unfenced)
    BY <1>3, ContentsNow, Aged
  <2>2. Contents'.entry = entry' /\ Contents'.pending = pending
    BY <1>3 DEF Contents
  <2>3. pending.active = {}
    BY <1>3, ContentsNow
  <2>4. FencedContents(Contents', token, step, canvas, unfenced)
    BY <2>1, <2>2, <2>3, ContentsNow DEF FencedContents
  <2>5. FencedNow'
    BY <1>2, <1>3, <2>3, <2>4 DEF FencedNow, AttemptsOpen
  <2>6. Due => CoversNow(Contents', coverage)
    BY <1>3, <2>1, <2>2, ContentsNow DEF CoversNow
  <2>7. pending' \in [active : SUBSET Attempt, candidate : AnyGeneration]
    BY <1>3, ContentsNow
  <2>. QED BY <1>1, <1>2, <2>1, <2>5, <2>6, <2>7, ContentsChange
<1>4. CASE /\ pending.candidate # NoGeneration
           /\ pending' = [pending EXCEPT !.candidate.live = FALSE] /\ entry' = entry
  <2>. DEFINE old == [pending.candidate EXCEPT !.live = FALSE]
  <2>1. /\ pending \in [active : SUBSET Attempt, candidate : AnyGeneration] /\ pending.candidate \in AnyGeneration
        /\ pending.active # {}
    BY <1>4, ContentsNow, NoPendingType
  <2>2. /\ old \in AnyGeneration /\ old # NoGeneration /\ old.cover = pending.candidate.cover
        /\ Accounted(old, pending.active, step, canvas, unfenced)
    BY <1>4, <2>1, ContentsNow, Aged
  <2>3. pending' = [active |-> pending.active, candidate |-> old]
    BY <1>4, <2>1
  <2>. HIDE DEF old
  <2>4. pending'.active = pending.active /\ pending'.candidate = old
        /\ pending' \in [active : SUBSET Attempt, candidate : AnyGeneration]
    BY <2>1, <2>2, <2>3
  <2>5. Contents'.entry = entry /\ Contents'.pending = pending'
    BY <1>4 DEF Contents
  <2>6. FencedContents(Contents', token, step, canvas, unfenced)
    BY <2>1, <2>2, <2>4, <2>5, ContentsNow DEF FencedContents
  <2>7. FencedNow'
    BY <1>2, <2>4, <2>6, ContentsNow DEF FencedNow, AttemptsOpen
  <2>8. Due => CoversNow(Contents', coverage)
    BY <1>4, <2>2, <2>4, <2>5, ContentsNow DEF CoversNow
  <2>. QED BY <1>1, <1>2, <1>4, <2>4, <2>7, <2>8, ContentsNow, ContentsChange
<1>. QED BY <1>3, <1>4 DEF ExpireGeneration

\* An attempt that expires takes the candidate with it.
LEMMA ExpireKeeps ==
  ASSUME CacheInvariant, Expire
  PROVE  CacheInvariant'
<1>. DEFINE a == lapsed + 1
            rest == pending.active \ {a}
<1>1. CacheTypeOK /\ lapsed \in Nat /\ prepared \in 0 .. MaxAttempts /\ MaxAttempts \in Nat
  BY Orders, ConstantTypes DEF CacheInvariant, CacheTypeOK
<1>2. /\ lapsed' = a /\ UNCHANGED <<canvas, unfenced, prepared, token, step>>
      /\ UNCHANGED <<dbVars, manifestVars, token, synced, minted, prepared, mishaps, restarted, step>>
      /\ lapsed < prepared
  BY DEF Expire, dbVars
<1>3. a <= prepared /\ a \in 0 .. MaxAttempts
  BY <1>1, <1>2
<1>4. \A x \in pending.active : x \in Nat /\ lapsed < x /\ x <= prepared
  BY ContentsNow, ConstantTypes DEF AttemptsOpen
<1>5. \A x \in rest : a < x /\ x <= prepared
  BY <1>1, <1>4
<1>. HIDE DEF a
<1>6. CASE a \in pending.active /\ rest # {}
  <2>. DEFINE next == [active |-> rest, candidate |-> NoGeneration]
  <2>1. entry' = entry /\ pending' = next
    BY <1>2, <1>6 DEF Expire, Become, Released, Pruned
  <2>2. next.active = rest /\ next.candidate = NoGeneration
        /\ next \in [active : SUBSET Attempt, candidate : AnyGeneration]
    BY ContentsNow, AnyGenerationTyped
  <2>. HIDE DEF next
  <2>3. Contents'.entry = entry /\ Contents'.pending = next
    BY <2>1 DEF Contents
  <2>4. FencedContents(Contents', token, step, canvas, unfenced)
    BY <1>6, <2>2, <2>3, ContentsNow DEF FencedContents, Accounted
  <2>5. FencedNow'
    BY <1>2, <1>5, <2>1, <2>2, <2>4 DEF FencedNow, AttemptsOpen
  <2>6. Due => CoversNow(Contents', coverage)
    BY <2>2, <2>3, ContentsNow DEF CoversNow
  <2>. QED BY <1>2, <1>3, <2>1, <2>2, <2>5, <2>6, ContentsNow, ContentsChange
<1>7. CASE a \in pending.active /\ rest = {}
  <2>1. entry = NoGeneration
    BY <1>7, ContentsNow
  <2>2. entry' = NoGeneration /\ pending' = NoPending
    BY <1>2, <1>7, <2>1 DEF Expire, Become, Released, Pruned
  <2>3. /\ FencedNow' /\ CoversNow(Contents', coverage)
        /\ entry' \in AnyGeneration /\ pending' \in [active : SUBSET Attempt, candidate : AnyGeneration]
    BY <2>2, Emptied
  <2>. QED BY <1>2, <1>3, <2>3, ContentsChange
<1>8. CASE a \notin pending.active
  <2>1. entry' = entry /\ pending' = pending /\ rest = pending.active
    BY <1>2, <1>8 DEF Expire, Become
  <2>2. Contents' = Contents
    BY <2>1 DEF Contents
  <2>3. FencedNow'
    BY <1>2, <1>5, <2>1, <2>2 DEF CacheInvariant, FencedNow, AttemptsOpen
  <2>4. Due => CoversNow(Contents', coverage)
    BY <2>2 DEF CacheInvariant, CoversDue
  <2>. QED BY <1>2, <1>3, <2>1, <2>3, <2>4, ContentsNow, ContentsChange
<1>. QED BY <1>6, <1>7, <1>8

-----------------------------------------------------------------------------
(* The theorems.                                                           *)

LEMMA CacheInitInvariant ==
  ASSUME CacheInit
  PROVE  CacheInvariant
<1>1. /\ \A a \in Attempt : step[a] = Start
      /\ Contents.entry = NoGeneration /\ Contents.pending = NoPending
      /\ pending.active = {} /\ pending.candidate = NoGeneration
  BY NoPendingType DEF CacheInit, Contents
<1>2. CacheTypeOK
  <2>1. <<"random", 0>> \in Token
    BY ConstantTypes DEF Token
  <2>2. Start \in Step
    BY <2>1, ConstantTypes DEF Start, Step
  <2>3. pending \in [active : SUBSET Attempt, candidate : AnyGeneration] /\ entry \in AnyGeneration
    BY AnyGenerationTyped, NoPendingType DEF CacheInit
  <2>4. NoCopy \in [cover : Version, held : BOOLEAN]
        /\ NotReading \in [cover : Version, busy : BOOLEAN]
    BY ConstantTypes DEF NoCopy, NotReading
  <2>5. minted \in 0 .. MaxChanges + MaxMishaps /\ coverageRevision \in 1 .. 2 * MaxChanges + 1
        /\ synced \in 0 .. 2 * MaxChanges + 1
    BY ConstantTypes DEF CacheInit
  <2>6. canvas \in 0 .. MaxAttempts /\ prepared \in 0 .. MaxAttempts /\ lapsed \in 0 .. MaxAttempts
        /\ mishaps \in 0 .. MaxMishaps /\ coverage \in Version
    BY ConstantTypes DEF CacheInit
  <2>7. restarted \in BOOLEAN /\ missed \in BOOLEAN /\ unfenced \in SUBSET Attempt
        /\ announced \in {"yes", "changed", "invalidated"}
    BY DEF CacheInit
  <2>8. token \in Token /\ step \in [Attempt -> Step]
        /\ copy \in [cover : Version, held : BOOLEAN]
        /\ sourceRead \in [cover : Version, busy : BOOLEAN]
    BY <2>1, <2>2, <2>4 DEF CacheInit
  <2>. QED BY <2>3, <2>5, <2>6, <2>7, <2>8 DEF CacheTypeOK, AnyGeneration
<1>3. OrdersCounted
  <2>1. Committed = {}
    BY <1>1 DEF Committed, Start
  <2>. QED BY <1>1, <2>1, FS_EmptySet DEF OrdersCounted, CacheInit, Start
<1>4. RevisionsBounded
  <2>1. Announcements = 0 /\ copy.held = FALSE /\ sourceRead.busy = FALSE
    BY DEF CacheInit, Announcements, NoCopy, NotReading
  <2>. QED BY <1>2, <2>1, Orders DEF RevisionsBounded, CacheInit
<1>5. ManifestFresh
  BY DEF ManifestFresh, CacheInit, NoCopy, NotReading
<1>6. FencedNow
  BY <1>1, NoPendingType DEF FencedNow, FencedContents, Accounted, AttemptsOpen
<1>7. TokensMade
  BY <1>1 DEF TokensMade, Made, CacheInit, Start
<1>8. CoversDue
  BY <1>1, NoPendingType DEF CoversDue, CoversNow, AttemptsCover, Start
<1>. QED BY <1>2, <1>3, <1>4, <1>5, <1>6, <1>7, <1>8 DEF CacheInvariant

LEMMA NextInvariant ==
  ASSUME CacheInvariant, [CacheNext]_cacheVars
  PROVE  CacheInvariant'
<1>1. CASE Prepare
  BY <1>1, PrepareKeeps
<1>2. ASSUME NEW a \in Attempt, WriterStep(a) \/ WriterCrash(a) PROVE CacheInvariant'
  BY <1>2, TargetsKeeps, CommitKeepsCache, ApplyKeeps, FinishKeepsCache, CrashKeepsCache DEF WriterStep
<1>3. CASE Resolve \/ ExpireGeneration \/ Expire
  BY <1>3, ResolveKeeps, AgeKeeps, ExpireKeeps
<1>4. CASE ChangeTemplates \/ MissAnnouncement \/ ReadSource
  BY <1>4, ChangeKeeps, MissKeeps, ReadKeeps
<1>5. CASE ManifestStep \/ Restart
  BY <1>5, AnnounceKeeps, InvalidateKeeps, SaveKeepsCache, RestartKeeps DEF ManifestStep
<1>6. CASE UNCHANGED cacheVars
  <2>1. UNCHANGED <<dbVars, manifestVars, token, synced, minted, prepared, mishaps, restarted, step>>
        /\ UNCHANGED <<entry, pending, lapsed, canvas, unfenced>>
    BY <1>6 DEF cacheVars, dbVars, manifestVars
  <2>2. Contents' = Contents
    BY <2>1 DEF Contents
  <2>3. FencedNow'
    BY <2>1, <2>2 DEF CacheInvariant, FencedNow, AttemptsOpen
  <2>4. Due => CoversNow(Contents', coverage)
    BY <2>2 DEF CacheInvariant, CoversDue
  <2>5. lapsed \in 0 .. MaxAttempts /\ lapsed <= prepared
    BY DEF CacheInvariant, CacheTypeOK, OrdersCounted
  <2>. QED BY <2>1, <2>3, <2>4, <2>5, ContentsNow, ContentsChange
<1>. QED BY <1>1, <1>2, <1>3, <1>4, <1>5, <1>6 DEF CacheNext

LEMMA CacheSafe == CacheSpec => []CacheInvariant
<1>. QED BY CacheInitInvariant, NextInvariant, PTL DEF CacheSpec

\* The variables keep the types that the cache, its callers and the manifest
\* read model give them, whatever the bounds; revisions and tokens are as many
\* as changes and mishaps allow.
THEOREM CacheTypeCorrect == CacheSpec => []CacheTypeOK
<1>1. CacheInvariant => CacheTypeOK
  BY DEF CacheInvariant
<1>. QED BY <1>1, CacheSafe, PTL

\* An offer is acknowledged from memory only for the newest generation that was
\* committed: any newer commit is one of the exceptions AcknowledgesNewest names.
THEOREM NewestIsAcknowledged == CacheSpec => []AcknowledgesNewest
<1>1. CacheInvariant => AcknowledgesNewest
  <2>. SUFFICES ASSUME CacheInvariant, entry # NoGeneration, entry.sure
                PROVE  \A o \in entry.order + 1 .. canvas : o \in unfenced
    BY DEF AcknowledgesNewest, Acknowledged
  <2>1. Accounted(entry, {}, step, canvas, unfenced)
    BY ContentsNow
  <2>. QED BY <2>1 DEF Accounted
<1>. QED BY <1>1, CacheSafe, PTL

\* What is acknowledged from memory was classified against the templates of now,
\* once their announcement is complete and none was lost.
THEOREM CoverIsCurrent == CacheSpec => []CoverageCurrent
<1>1. CacheInvariant => CoverageCurrent
  <2>. SUFFICES ASSUME CacheInvariant, entry # NoGeneration, Due
                PROVE  entry.cover = coverage
    BY DEF CoverageCurrent, Acknowledged, Due
  <2>. QED BY ContentsNow
<1>. QED BY <1>1, CacheSafe, PTL

\* A cached manifest shows the templates of now, once their announcement has
\* come through the queue and none was lost.
THEOREM ManifestIsCurrent == CacheSpec => []ManifestCurrent
<1>1. CacheInvariant => ManifestCurrent
  BY DEF CacheInvariant, ManifestFresh, ManifestCurrent
<1>. QED BY <1>1, CacheSafe, PTL

-----------------------------------------------------------------------------
(* The components next to each other.                                      *)

LEMMA EachSteps ==
    /\ [Next]_allVars => [BlobsNext]_blobVars
    /\ [Next]_allVars => [CacheNext]_cacheVars
    /\ [Next]_allVars => [StatusNext]_statusVars
    /\ [Next]_allVars => [LiveNext]_liveVars
  BY DEF Next, allVars

LEMMA EachBehaves == Spec => BlobsSpec /\ CacheSpec /\ StatusSpec /\ LiveSpec
<1>1. Init => BlobsInit /\ CacheInit /\ StatusInit /\ LiveInit
  BY DEF Init
<1>. QED BY <1>1, EachSteps, PTL DEF Spec, BlobsSpec, CacheSpec, StatusSpec, LiveSpec

\* The variables of the stored bytes, the cache, the projection and the client
\* hold values of their types together: none of them writes another's.
THEOREM TypesAreCorrect == Spec => []TypesOK
<1>1. BlobsTypeOK /\ CacheTypeOK /\ StatusTypeOK /\ LiveTypeOK => TypesOK
  BY DEF TypesOK
<1>. QED BY <1>1, EachBehaves, BlobsTypeCorrect, CacheTypeCorrect, StatusTypeCorrect,
            LiveTypeCorrect, PTL
=============================================================================
