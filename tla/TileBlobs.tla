------------------------------ MODULE TileBlobs ------------------------------
(***************************************************************************)
(* telemetry/tile-blobs.ts with its statements in                          *)
(* adapters/relational-sql-store.ts and its callers in telemetry/ingest.ts *)
(* (offerTile, uploadTile): the stored bytes of ONE tile hash.  Every      *)
(* statement is keyed by the hash or by one of its keys, so hashes do not  *)
(* meet.  Each action is one statement batch or one call of the object     *)
(* store; whatever several requests, runtimes and the garbage collection   *)
(* do between two of them interleaves.                                     *)
(*                                                                         *)
(* Time is one action: a reservation lapses.                               *)
(***************************************************************************)
EXTENDS Naturals, FiniteSets

CONSTANTS
    Reporter,      \* requests under way: each slot makes one call after another
    Runtime,       \* processes or isolates that serve them
    RuntimeOf,     \* which one serves a reporter
    Sweeper,       \* runs of the garbage collection
    Generations,   \* bound: keys that generationKey ever makes
    MaxCalls,      \* bound: offers and uploads altogether
    MaxFaults,     \* bound: failures and crashes altogether
    CountsMatches  \* an UPDATE that writes equal values counts its row: all but MariaDB

\* The keys in the order ORDER BY blob_key gives them.  tiles/<hash>, from
\* before generations, is a prefix of the others; those come in any order.
LegacyKey == 0
Key == LegacyKey .. Generations
NoKey == Generations + 1

ASSUME TileBlobsAssumption ==
    /\ Generations \in Nat
    /\ Reporter \cap Sweeper = {}
    /\ RuntimeOf \in [Reporter -> Runtime]
    /\ MaxCalls \in Nat /\ MaxFaults \in Nat /\ CountsMatches \in BOOLEAN

VARIABLES
    row,         \* tile_blob_objects: the state of each key's row
    stored,      \* keys with bytes in the object store
    referenced,  \* canvas_tiles or tile_history names the hash
    held,        \* tile_blob_reservations: each reporter's, until it lapses
    stray,       \* keys under a reservation whose request is gone
    job,         \* per request and per sweeper: the step it is at
    known,       \* storedTileBlobKeys, per runtime
    calls, faults,
    doubtful     \* history: keys made active while their bytes were missing, and
                 \* keys whose bytes a PUT wrote that outlived every reservation

blobVars == <<row, stored, referenced, held, stray, job, known, calls, faults, doubtful>>

Process == Reporter \cup Sweeper
RowState == {"none", "uploading", "active", "candidate", "deleting", "deleted"}
Kind == {"none", "offer", "legacy", "upload", "sweep"}
At == {"idle", "reserve", "bytes", "legacy", "note", "upload", "recover", "claim", "delete",
       "finish", "again", "store", "joined", "check", "put", "record", "release", "list"}
\* key: the one in hand; todo: the page, or the deletion work, not yet done.
Job == [at : At, kind : Kind, key : Key \cup {NoKey}, todo : SUBSET Key]
\* The steps that have a key in hand.
Keyed == {"bytes", "store", "joined", "check", "put", "record", "release", "delete", "finish"}
Idle == [at |-> "idle", kind |-> "none", key |-> NoKey, todo |-> {}]

BlobsTypeOK ==
    /\ row \in [Key -> RowState]
    /\ stored \in SUBSET Key /\ stray \in SUBSET Key /\ doubtful \in SUBSET Key
    /\ referenced \in BOOLEAN
    /\ held \in [Reporter -> Key \cup {NoKey}]
    /\ job \in [Process -> Job]
    /\ \A p \in Process : job[p].at \in Keyed => job[p].key \in Key
    /\ known \in [Runtime -> SUBSET Key]
    /\ calls \in 0 .. MaxCalls /\ faults \in 0 .. MaxFaults

\* The store as it was before generations had rows, or an empty one.
BlobsInit ==
    /\ row = [k \in Key |-> "none"]
    /\ stored \in {{}, {LegacyKey}}
    /\ referenced \in {FALSE, stored # {}}
    /\ held = [r \in Reporter |-> NoKey]
    /\ stray = {}
    /\ job = [p \in Process |-> Idle]
    /\ known = [t \in Runtime |-> {}]
    /\ calls = 0 /\ faults = 0 /\ doubtful = {}

In(state) == {k \in Key : row[k] = state}
Fenced == In("deleting") # {}
Reserved(k) == k \in stray \/ \E r \in Reporter : held[r] = k
\* ORDER BY blob_key LIMIT 1.
First(keys) == {k \in keys : \A other \in keys : k <= other}
Goto(p, step) == job' = [job EXCEPT ![p].at = step]
Done(p) == job' = [job EXCEPT ![p] = Idle]

-----------------------------------------------------------------------------
(* offerTile: reserveTileBlob.                                             *)

\* readTileBlob: a registered generation, or the key from before.
Offer(r) ==
    /\ job[r] = Idle /\ calls < MaxCalls
    /\ calls' = calls + 1
    /\ job' = [job EXCEPT ![r] =
         IF In("active") # {} THEN [Idle EXCEPT !.at = "reserve", !.kind = "offer"]
                              ELSE [Idle EXCEPT !.at = "legacy", !.kind = "legacy"]]
    /\ UNCHANGED <<row, stored, referenced, held, stray, known, faults, doubtful>>

LegacyBytes(r) ==
    /\ job[r].at = "legacy"
    /\ IF LegacyKey \in stored THEN Goto(r, "note") ELSE Done(r)
    /\ UNCHANGED <<row, stored, referenced, held, stray, known, calls, faults, doubtful>>

\* noteTileBlobObject: the row a found object gets.
Noted(k) ==
    IF row[k] = "deleting" THEN "deleting"
    ELSE IF \/ Reserved(k)
            \/ referenced /\ (row[k] = "active" \/ In("active") \ {k} = {})
         THEN "active" ELSE "candidate"

LegacyNote(r) ==
    /\ job[r].at = "note" /\ r \in Reporter
    /\ row' = [row EXCEPT ![LegacyKey] = Noted(LegacyKey)]
    /\ Goto(r, "reserve")
    /\ UNCHANGED <<stored, referenced, held, stray, known, calls, faults, doubtful>>

\* The generations reserveTileBlob may reserve, the best first.
Reservable ==
    IF Fenced THEN {}
    ELSE IF In("active") # {} THEN First(In("active"))
    ELSE IF In("candidate") # {} THEN First(In("candidate"))
    ELSE First(In("uploading"))

\* Mutant: the offer goes on although nothing was reserved.
GoOn(r) == Goto(r, "record")
\* reserveTileBlob answered null.
GiveUp(r) == Done(r)

\* Nothing to reserve: the offer is answered "wanted".  An offer that found a
\* registered generation reads its bytes next; the legacy path has them.
Reserve(r) ==
    /\ job[r].at = "reserve"
    /\ \/ /\ Reservable = {}
          /\ GiveUp(r)
          /\ UNCHANGED <<row, held, doubtful>>
       \/ \E k \in Reservable :
          /\ held' = [held EXCEPT ![r] = k]
          /\ row' = [row EXCEPT ![k] = "active"]
          /\ doubtful' = IF k \in stored THEN doubtful ELSE doubtful \cup {k}
          /\ job' = [job EXCEPT ![r].at = IF job[r].kind = "legacy" THEN "record" ELSE "bytes",
                                ![r].key = k]
    /\ UNCHANGED <<stored, referenced, stray, known, calls, faults>>

ReservedBytes(r) ==
    /\ job[r].at = "bytes"
    /\ Goto(r, IF job[r].key \in stored THEN "record" ELSE "release")
    /\ UNCHANGED <<row, stored, referenced, held, stray, known, calls, faults, doubtful>>

Release(r) ==
    /\ job[r].at = "release"
    /\ held' = [held EXCEPT ![r] = NoKey]
    /\ Done(r)
    /\ UNCHANGED <<row, stored, referenced, stray, known, calls, faults, doubtful>>

-----------------------------------------------------------------------------
(* uploadTile: reserveTileBlobUpload, storeTileBytesOnce.                  *)

Upload(r) ==
    /\ job[r] = Idle /\ calls < MaxCalls
    /\ calls' = calls + 1
    /\ job' = [job EXCEPT ![r] = [Idle EXCEPT !.at = "upload", !.kind = "upload"]]
    /\ UNCHANGED <<row, stored, referenced, held, stray, known, faults, doubtful>>

Joinable ==
    IF In("active") # {} THEN First(In("active")) ELSE First(In("uploading"))

\* Mutant: a key whose deletion is finished is used again.
UsedOrFresh == (In("none") \cup In("deleted")) \ {LegacyKey}
\* generationKey: a random part makes it new.
Fresh == In("none") \ {LegacyKey}

\* The batch refuses while a generation of the hash is being deleted; the first
\* refusal recovers that deletion, the second one throws.  Otherwise it joins a
\* generation, or registers a fresh one.
ReserveUpload(r) ==
    /\ job[r].at \in {"upload", "again"}
    /\ \/ /\ Fenced
          /\ IF job[r].at = "upload" THEN Goto(r, "recover") ELSE Done(r)
          /\ UNCHANGED <<row, held>>
       \/ /\ ~Fenced
          /\ \E k \in IF Joinable # {} THEN Joinable ELSE Fresh :
               /\ row' = [row EXCEPT ![k] = IF Joinable # {} THEN @ ELSE "uploading"]
               /\ held' = [held EXCEPT ![r] = k]
               /\ job' = [job EXCEPT ![r].at = "store", ![r].key = k]
    /\ UNCHANGED <<stored, referenced, stray, known, calls, faults, doubtful>>

\* recoverDeletingHash lists the deletions of the hash; finding none, it gives up.
Recover(r) ==
    /\ job[r].at = "recover"
    /\ IF Fenced THEN job' = [job EXCEPT ![r].at = "claim", ![r].todo = In("deleting")]
                 ELSE Done(r)
    /\ UNCHANGED <<row, stored, referenced, held, stray, known, calls, faults, doubtful>>

Peers(r) == {q \in Reporter : RuntimeOf[q] = RuntimeOf[r]}
\* The owner of inFlightTilePuts under this key, and who joined it.
Putting(r, k) == {q \in Peers(r) : job[q].at \in {"check", "put"} /\ job[q].key = k}
Joined(r, k) == {q \in Peers(r) : job[q].at = "joined" /\ job[q].key = k}
\* The shared promise settles: the owner and all who joined go on together.
Settle(r, step) ==
    job' = [q \in Process |-> IF q \in {r} \cup Joined(r, job[r].key)
                              THEN [job[q] EXCEPT !.at = step] ELSE job[q]]
Remember(r) == known' = [known EXCEPT ![RuntimeOf[r]] = @ \cup {job[r].key}]

Store(r) ==
    /\ job[r].at = "store"
    /\ Goto(r, IF job[r].key \in known[RuntimeOf[r]] THEN "record"
               ELSE IF Putting(r, job[r].key) # {} THEN "joined" ELSE "check")
    /\ UNCHANGED <<row, stored, referenced, held, stray, known, calls, faults, doubtful>>

\* tileBytesAlreadyStored
CheckStored(r) ==
    /\ job[r].at = "check"
    /\ IF job[r].key \in First(In("active"))
       THEN Settle(r, "record") /\ Remember(r)
       ELSE Goto(r, "put") /\ UNCHANGED known
    /\ UNCHANGED <<row, stored, referenced, held, stray, calls, faults, doubtful>>

Land(k) ==
    /\ stored' = stored \cup {k}
    /\ doubtful' = IF Reserved(k) THEN doubtful ELSE doubtful \cup {k}

Put(r) ==
    /\ job[r].at = "put"
    /\ Land(job[r].key)
    /\ Settle(r, "record") /\ Remember(r)
    /\ UNCHANGED <<row, referenced, held, stray, calls, faults>>

-----------------------------------------------------------------------------
(* recordObservation: commitTileBlobReservation.                           *)

\* Statement 1 finds the reservation and no deletion of the hash.
Activates(r) == held[r] # NoKey /\ ~Fenced
\* The rows it changes: MariaDB does not count one that was active already.
CountsRow(r) == Activates(r) /\ (CountsMatches \/ row[held[r]] # "active")
\* The statements after it ask for the reservation and an active object only.
Applies(r) == held[r] # NoKey /\ (Activates(r) \/ row[held[r]] = "active")

\* An observation that is not current, of a tile without history, refers to
\* nothing.  A count of zero is answered null, and the ingest throws.
CommitReservation(r) ==
    /\ job[r].at = "record"
    /\ row' = IF Activates(r) THEN [row EXCEPT ![held[r]] = "active"] ELSE row
    /\ referenced' \in IF Applies(r) THEN {TRUE, referenced} ELSE {referenced}
    /\ held' = [held EXCEPT ![r] = NoKey]
    /\ IF CountsRow(r) THEN Done(r) ELSE Goto(r, "release")
    /\ UNCHANGED <<stored, stray, known, calls, faults, doubtful>>

-----------------------------------------------------------------------------
(* runTileBlobGc, and the deletions that uploads recover.                  *)

\* A page: the keys of a hash are neighbours in the listing.
ListPage(g) ==
    /\ job[g] = Idle
    /\ job' = [job EXCEPT ![g] = [Idle EXCEPT !.at = "note", !.kind = "sweep", !.todo = stored]]
    /\ UNCHANGED <<row, stored, referenced, held, stray, known, calls, faults, doubtful>>

Note(g) ==
    /\ job[g].at = "note" /\ g \in Sweeper
    /\ \E k \in job[g].todo :
         /\ row' = [row EXCEPT ![k] = Noted(k)]
         /\ job' = [job EXCEPT ![g].todo = @ \ {k}]
    /\ UNCHANGED <<stored, referenced, held, stray, known, calls, faults, doubtful>>

\* Mutant: the candidates only.
Candidates == In("candidate")
\* listTileBlobDeletionWork
DeletionWork == In("deleting") \cup In("candidate")
ListWork(g) ==
    /\ job[g].at = "note" /\ g \in Sweeper /\ job[g].todo = {}
    /\ job' = [job EXCEPT ![g].at = "claim", ![g].todo = DeletionWork]
    /\ UNCHANGED <<row, stored, referenced, held, stray, known, calls, faults, doubtful>>

\* claimTileBlobDeletion takes a row back that something still needs.
Blocked(k) == Reserved(k) \/ (referenced /\ In("active") \ {k} = {})

\* reclaimTileBlob, for one row of the work.
Claim(p) ==
    /\ job[p].at = "claim"
    /\ \E k \in job[p].todo :
         IF row[k] \in {"candidate", "deleting"} /\ ~Blocked(k)
         THEN /\ row' = [row EXCEPT ![k] = "deleting"]
              /\ job' = [job EXCEPT ![p].at = "delete", ![p].key = k]
         ELSE /\ row' = [row EXCEPT ![k] = IF @ \in {"candidate", "deleting"} THEN "active" ELSE @]
              /\ job' = [job EXCEPT ![p].todo = @ \ {k}]
    /\ UNCHANGED <<stored, referenced, held, stray, known, calls, faults, doubtful>>

DeleteBytes(p) ==
    /\ job[p].at = "delete"
    /\ stored' = stored \ {job[p].key}
    /\ Goto(p, "finish")
    /\ UNCHANGED <<row, referenced, held, stray, known, calls, faults, doubtful>>

Reclaimed(p) ==
    job' = [job EXCEPT ![p].at = "claim", ![p].key = NoKey, ![p].todo = @ \ {job[p].key}]
FinishDeletion(p) ==
    /\ job[p].at = "finish"
    /\ row' = [row EXCEPT ![job[p].key] = IF @ = "deleting" THEN "deleted" ELSE @]
    /\ Reclaimed(p)
    /\ UNCHANGED <<stored, referenced, held, stray, known, calls, faults, doubtful>>

\* The work is done: an upload reserves again, a sweep ends.
WorkDone(p) ==
    /\ job[p].at = "claim" /\ job[p].todo = {}
    /\ IF p \in Reporter THEN Goto(p, "again") ELSE Done(p)
    /\ UNCHANGED <<row, stored, referenced, held, stray, known, calls, faults, doubtful>>

-----------------------------------------------------------------------------
(* The rest of the system, time, and failures.                             *)

\* Another hash becomes the tile's canvas row and the history rows are folded.
Forget ==
    /\ referenced
    /\ referenced' = FALSE
    /\ UNCHANGED <<row, stored, held, stray, job, known, calls, faults, doubtful>>

\* expires_at_ms passes.
Lapse ==
    /\ \/ \E r \in Reporter :
            /\ held[r] # NoKey
            /\ held' = [held EXCEPT ![r] = NoKey]
            /\ UNCHANGED stray
       \/ \E k \in stray : stray' = stray \ {k} /\ UNCHANGED held
    /\ UNCHANGED <<row, stored, referenced, job, known, calls, faults, doubtful>>

\* A call of a store throws.  A failed PUT, which may have landed, fails all who
\* joined it; an upload that reserved releases, one that recovered a deletion
\* ends; a sweep counts the row as failed and goes on.
Fail(p) ==
    /\ faults < MaxFaults
    /\ faults' = faults + 1
    /\ \/ job[p].at = "put" /\ Land(job[p].key)
       \/ UNCHANGED <<stored, doubtful>>
    /\ \/ job[p].at \in {"check", "put"} /\ Settle(p, "release")
       \/ job[p].at = "record" /\ job[p].kind = "upload" /\ Goto(p, "release")
       \/ job[p].at \in {"delete", "finish"} /\ IF p \in Sweeper THEN Reclaimed(p) ELSE Done(p)
    /\ UNCHANGED <<row, referenced, held, stray, known, calls>>

\* A runtime goes, with its requests and what it remembers.  A single request
\* that dies elsewhere leaves no more behind than this.
Crash(t) ==
    /\ faults < MaxFaults
    /\ faults' = faults + 1
    /\ LET gone == {r \in Reporter : RuntimeOf[r] = t}
       IN /\ \E r \in gone : job[r] # Idle
          /\ stray' = stray \cup ({held[r] : r \in gone} \ {NoKey})
          /\ held' = [r \in Reporter |-> IF r \in gone THEN NoKey ELSE held[r]]
          /\ job' = [p \in Process |-> IF p \in gone THEN Idle ELSE job[p]]
    /\ known' = [known EXCEPT ![t] = {}]
    /\ UNCHANGED <<row, stored, referenced, calls, doubtful>>

ReporterStep(r) ==
    \/ LegacyBytes(r) \/ LegacyNote(r) \/ Reserve(r) \/ ReservedBytes(r) \/ Release(r)
    \/ ReserveUpload(r) \/ Recover(r) \/ Store(r) \/ CheckStored(r) \/ Put(r)
    \/ CommitReservation(r)
SweeperStep(g) == ListPage(g) \/ Note(g) \/ ListWork(g)
ReclaimStep(p) == Claim(p) \/ DeleteBytes(p) \/ FinishDeletion(p) \/ WorkDone(p)

BlobsNext ==
    \/ \E r \in Reporter : Offer(r) \/ Upload(r) \/ ReporterStep(r)
    \/ \E g \in Sweeper : SweeperStep(g)
    \/ \E p \in Process : ReclaimStep(p) \/ Fail(p)
    \/ \E t \in Runtime : Crash(t)
    \/ Forget \/ Lapse

BlobsSpec == BlobsInit /\ [][BlobsNext]_blobVars

\* Requests go on, sweeps come again and again, reservations lapse.
BlobsFair ==
    /\ \A r \in Reporter : WF_blobVars(ReporterStep(r) \/ ReclaimStep(r))
    /\ \A g \in Sweeper : WF_blobVars(SweeperStep(g) \/ ReclaimStep(g))
    /\ WF_blobVars(Lapse)
BlobsFairSpec == BlobsSpec /\ BlobsFair

-----------------------------------------------------------------------------
(* Properties.                                                             *)

\* While its reservation lives, a request that is about to record an
\* observation has bytes behind it: no collection, and no PUT skipped because
\* another upload, or an earlier one of the runtime, was trusted, took them.
\* Excepted: keys an offer made active although their bytes were gone, and
\* keys that a request wrote after its reservation had lapsed.
ReservedBytesSurvive ==
    \A r \in Reporter :
        job[r].at = "record" /\ held[r] # NoKey => held[r] \in stored \cup doubtful

\* What readTileBlob reads: a registered generation, or the key from before.
Current == IF In("active") # {} THEN First(In("active")) ELSE {LegacyKey}
\* A tile that the canvas or the history refers to can be read, whatever was
\* collected, restored and interrupted meanwhile.  Excepted as above.
ReferencedBytesExist == referenced => Current \subseteq stored \cup doubtful

\* What is reserved or referred to has its bytes.
BytesKept == ReservedBytesSurvive /\ ReferencedBytesExist

\* The collection ends what it began and forgets no garbage: bytes that nothing
\* refers to and nobody reserved are deleted, even after a sweep or an upload
\* died between claiming, deleting and finishing; and no row stays under
\* deletion, which would refuse every later upload and offer of the hash.
Garbage(k) ==
    \/ row[k] = "deleting"
    \/ /\ k \in stored /\ ~Reserved(k)
       /\ ~(referenced /\ (row[k] = "active" \/ In("active") = {}))
GarbageCollected == []<>(\A k \in Key : ~Garbage(k))

\* ports/sql-store.ts:1164 of the commit's null: "no reference was created".
NullMeansNoReference ==
    [][\A r \in Reporter :
         CommitReservation(r) /\ job'[r].at = "release" => referenced' = referenced]_blobVars
=============================================================================
