------------------------ MODULE TileGenerationCache ------------------------
(***************************************************************************)
(* status-read-model/tile-generation-cache.ts for ONE tile, its callers in *)
(* telemetry/ingest.ts (recordObservation) and status-coordinator.ts, and  *)
(* the manifest read model (manifest/read-model.ts), whose coverage        *)
(* revision names the cache's token.                                       *)
(*                                                                         *)
(* A committed generation is its commit_order; the hash and the bytes go   *)
(* with it.  The templates that cover the tile are a version that changes. *)
(* Time is nondeterministic: attempts, entries and copies expire.          *)
(***************************************************************************)
EXTENDS Naturals, FiniteSets

CONSTANTS
    MaxAttempts,  \* bound: observations recorded
    MaxChanges,   \* bound: changes of the templates
    MaxMishaps    \* bound: lost calls and answers, writers that die, restarts

ASSUME TileGenerationCacheAssumption ==
    /\ MaxAttempts \in Nat /\ MaxChanges \in Nat /\ MaxMishaps \in Nat

VARIABLES
    canvas,     \* canvas_tiles: the commit_order of the tile
    coverage,   \* the templates of the tile, as a version
    announced,  \* how far the announcement of the last change is
    coverageRevision,   \* persisted coverageRevision of the manifest read model
    copy,       \* its cached manifest: the version it was read at
    sourceRead,    \* a read of the manifest's source under way
    token,      \* coverageToken of the cache
    synced,     \* tileGenerationCoverageRevision
    minted,     \* random coverage tokens made
    mishaps,    \* lost calls and answers, dead writers and restarts so far
    restarted,  \* history: the coordinator restarted
    entry,      \* the tile's cached generation
    pending,    \* pendingCommits: the attempts and the candidate
    prepared,   \* attempts so far, one per observation that is recorded
    lapsed,     \* attempts up to this one have passed their commitExpiresAt
    step,       \* per attempt: where its request is, and what it committed
    unfenced,   \* history: orders committed by attempts the cache did not know,
                \* or whose commit was answered as an error
    missed      \* history: a change was never announced

cacheVars == <<canvas, coverage, announced, coverageRevision, copy, sourceRead, token, synced, minted,
               mishaps, restarted, entry, pending, prepared, lapsed, step, unfenced, missed>>

Attempt == 1 .. MaxAttempts
Version == 0 .. MaxChanges
Token == {"manifest", "random"} \X (0 .. 2 * MaxChanges + MaxMishaps + 1)
NoGeneration == [order |-> 0]
\* sure: history; nothing newer had been committed that no open attempt stood for.
Generation == [order : Attempt, cover : Version, live : BOOLEAN, sure : BOOLEAN]
NoPending == [active |-> {}, candidate |-> NoGeneration]
NoCopy == [cover |-> 0, held |-> FALSE]
NotReading == [cover |-> 0, busy |-> FALSE]
Start == [at |-> "ready", token |-> <<"random", 0>>, cover |-> 0, order |-> 0]
Step == [at : {"ready", "targets", "commit", "apply", "finish", "done"},
         token : Token, cover : Version, order : 0 .. MaxAttempts]
Mishap == mishaps < MaxMishaps /\ mishaps' = mishaps + 1
Ended(a) == step' = [step EXCEPT ![a] = [Start EXCEPT !.at = "done", !.order = step[a].order]]

CacheTypeOK ==
    /\ canvas \in 0 .. MaxAttempts /\ coverage \in Version
    /\ announced \in {"yes", "changed", "invalidated"}
    /\ coverageRevision \in 1 .. 2 * MaxChanges + 1 /\ synced \in 0 .. 2 * MaxChanges + 1
    /\ copy \in [cover : Version, held : BOOLEAN]
    /\ sourceRead \in [cover : Version, busy : BOOLEAN]
    /\ token \in Token /\ minted \in 0 .. MaxChanges + MaxMishaps
    /\ mishaps \in 0 .. MaxMishaps /\ restarted \in BOOLEAN
    /\ entry \in Generation \cup {NoGeneration}
    /\ pending \in [active : SUBSET Attempt, candidate : Generation \cup {NoGeneration}]
    /\ prepared \in 0 .. MaxAttempts /\ lapsed \in 0 .. MaxAttempts
    /\ step \in [Attempt -> Step]
    /\ unfenced \in SUBSET Attempt /\ missed \in BOOLEAN

CacheInit ==
    /\ canvas = 0 /\ coverage = 0 /\ announced = "yes" /\ coverageRevision = 1
    /\ copy = NoCopy /\ sourceRead = NotReading
    /\ token = <<"random", 0>> /\ synced = 0 /\ minted = 0 /\ mishaps = 0 /\ restarted = FALSE
    /\ entry = NoGeneration /\ pending = NoPending
    /\ prepared = 0 /\ lapsed = 0
    /\ step = [a \in Attempt |-> Start]
    /\ unfenced = {} /\ missed = FALSE

dbVars == <<canvas, coverage, announced, unfenced, missed>>
manifestVars == <<coverageRevision, copy, sourceRead>>
timeVars == <<prepared, lapsed, restarted>>
fenceVars == <<timeVars, mishaps>>

-----------------------------------------------------------------------------
(* The cache's operations.  Each runs in one turn of the season's          *)
(* coordinator, after it loaded the coverage revision.                     *)

\* synchronizeTileGenerationCoverage: the token a later revision names.
LoadedToken(at) == IF at > synced THEN <<"manifest", at>> ELSE token
\* Another token clears everything.
Loaded(at) ==
    IF LoadedToken(at) # token
    THEN [entry |-> NoGeneration, pending |-> NoPending]
    ELSE [entry |-> entry, pending |-> pending]
Load(at) ==
    /\ token' = LoadedToken(at)
    /\ synced' = IF at > synced THEN at ELSE synced

\* releaseSettledCandidate, when no attempt is open any more.
Released(held, p) ==
    IF p.active # {} THEN [entry |-> held, pending |-> p]
    ELSE [pending |-> NoPending,
          entry |-> IF p.candidate # NoGeneration /\ p.candidate.live THEN p.candidate ELSE held]

\* settle, with the generation an attempt committed, or none.
Settled(c, attempt, generation) ==
    LET p == c.pending
        better == generation # NoGeneration /\ p.candidate.order < generation.order
        next == [active |-> p.active \ {attempt},
                 candidate |-> IF better THEN generation ELSE p.candidate]
    IN IF attempt \in p.active THEN Released(c.entry, next)
       ELSE [entry |-> c.entry, pending |-> next]

Become(c) == entry' = c.entry /\ pending' = c.pending

\* prepare: the entry leaves, and is a candidate again when all attempts fail.
Prepare ==
    /\ prepared < MaxAttempts
    /\ prepared' = prepared + 1
    /\ Load(coverageRevision)
    /\ LET c == Loaded(coverageRevision)
           open == IF c.pending # NoPending THEN c.pending
                   ELSE [active |-> {},
                         candidate |-> IF c.entry # NoGeneration /\ c.entry.live
                                       THEN c.entry ELSE NoGeneration]
       IN Become([entry |-> NoGeneration,
                  pending |-> [open EXCEPT !.active = @ \cup {prepared'}]])
    /\ step' = [step EXCEPT ![prepared'] = [Start EXCEPT !.at = "targets", !.token = token']]
    /\ UNCHANGED <<dbVars, manifestVars, minted, lapsed, mishaps, restarted>>

\* Mutant: the token that the attempt was prepared with is not compared.
AnyToken(s) == TRUE
\* Nothing was announced, or became another revision, since prepare.
SameToken(s) == s.token = token'

\* apply: the repair after a commit.  One that lost its authority settles the
\* attempt without a generation.
Apply(a) ==
    /\ step[a].at = "apply"
    /\ Load(coverageRevision)
    /\ LET c == Loaded(coverageRevision)
           s == step[a]
           g == [order |-> s.order, cover |-> s.cover, live |-> TRUE,
                 sure |-> \A o \in s.order + 1 .. canvas :
                            \E other \in c.pending.active : step[other].order = o]
       IN Become(
            IF ~SameToken(s) THEN c
            ELSE IF c.pending # NoPending
                 THEN Settled(c, a, IF a <= lapsed THEN NoGeneration ELSE g)
            ELSE IF a <= lapsed \/ c.entry.order >= g.order THEN c
            ELSE [c EXCEPT !.entry = g])
    /\ \/ Ended(a) /\ UNCHANGED mishaps
       \/ Mishap /\ step' = [step EXCEPT ![a].at = "finish"]
    /\ UNCHANGED <<dbVars, manifestVars, minted, timeVars>>

\* finish: the attempt committed nothing that is current.
Finish(a) ==
    /\ step[a].at = "finish"
    /\ Load(coverageRevision)
    /\ LET c == Loaded(coverageRevision)
       IN Become(IF ~SameToken(step[a]) \/ c.pending = NoPending THEN c
                 ELSE Settled(c, a, NoGeneration))
    /\ Ended(a)
    /\ UNCHANGED <<dbVars, manifestVars, minted, fenceVars>>

\* resolve drops an entry that it finds expired.
Resolve ==
    /\ entry # NoGeneration /\ ~entry.live
    /\ entry' = NoGeneration
    /\ UNCHANGED <<dbVars, manifestVars, token, synced, minted, pending, fenceVars, step>>

-----------------------------------------------------------------------------
(* recordObservation between prepare and apply or finish.                  *)

\* listTelemetryTargets, after prepare.
Targets(a) ==
    /\ step[a].at = "targets"
    /\ step' = [step EXCEPT ![a].at = "commit", ![a].cover = coverage]
    /\ UNCHANGED <<dbVars, manifestVars, token, synced, minted, entry, pending, fenceVars>>

\* Mutant: a commit that failed is tried again.
TryAgain(a) == step' = [step EXCEPT ![a].order = canvas']
\* recordObservation finishes the attempt and throws.
GiveUpCommit(a) == step' = [step EXCEPT ![a].at = "finish", ![a].order = canvas']

\* commitTileBlobReservation.  An older observation leaves the canvas row; one
\* whose reservation lapsed, which began before the attempt and lasts as long,
\* commits nothing.  An error may hide a commit.
Commit(a) ==
    /\ step[a].at = "commit"
    /\ \/ /\ a > lapsed
          /\ canvas' = canvas + 1
          /\ \/ /\ step' = [step EXCEPT ![a].at = "apply", ![a].order = canvas']
                /\ unfenced' = IF a \in pending.active
                               THEN unfenced ELSE unfenced \cup {canvas'}
                /\ UNCHANGED mishaps
             \/ /\ Mishap
                /\ GiveUpCommit(a)
                /\ unfenced' = unfenced \cup {canvas'}
       \/ /\ step' = [step EXCEPT ![a].at = "finish"]
          /\ UNCHANGED <<canvas, unfenced, mishaps>>
    /\ UNCHANGED <<coverage, announced, missed, manifestVars, token, synced, minted,
                   entry, pending, timeVars>>

\* The request dies, and nothing settles its attempt but time.
WriterCrash(a) ==
    /\ step[a].at \notin {"ready", "done"} /\ Mishap
    /\ Ended(a)
    /\ UNCHANGED <<dbVars, manifestVars, token, synced, minted, entry, pending, timeVars>>

-----------------------------------------------------------------------------
(* Templates change; notifyManifestChange; the manifest read model.        *)

ChangeTemplates ==
    /\ announced = "yes" /\ coverage < MaxChanges
    /\ coverage' = coverage + 1
    /\ announced' = "changed"
    /\ UNCHANGED <<canvas, unfenced, missed, manifestVars, token, synced, minted, entry, pending,
                   fenceVars, step>>

Invalidate ==
    /\ minted' = minted + 1
    /\ token' = <<"random", minted'>>
    /\ entry' = NoGeneration /\ pending' = NoPending

\* The cache is invalidated at once, the manifest when its queue comes to it.
Announce ==
    /\ announced = "changed"
    /\ announced' = "invalidated"
    /\ Invalidate
    /\ UNCHANGED <<canvas, coverage, unfenced, missed, manifestVars, synced, fenceVars, step>>

\* Mutant: invalidate does not wait for a read that is under way.
QueueFreeAlways == TRUE
\* exclusive: one operation of the manifest read model at a time.
QueueFree == ~sourceRead.busy

InvalidateManifest ==
    /\ announced = "invalidated" /\ QueueFree
    /\ announced' = "yes"
    /\ coverageRevision' = coverageRevision + 1
    /\ copy' = NoCopy
    /\ Load(coverageRevision') /\ Become(Loaded(coverageRevision'))
    /\ UNCHANGED <<canvas, coverage, unfenced, missed, sourceRead, minted, fenceVars, step>>

\* The call that announces fails before it does anything.
MissAnnouncement ==
    /\ announced = "changed" /\ Mishap
    /\ announced' = "yes" /\ missed' = TRUE
    /\ UNCHANGED <<canvas, coverage, unfenced, manifestVars, token, synced, minted, entry, pending,
                   timeVars, step>>

\* read: a copy that is gone or too old is read from the source...
ReadSource ==
    /\ QueueFree
    /\ sourceRead' = [cover |-> coverage, busy |-> TRUE]
    /\ UNCHANGED <<dbVars, coverageRevision, copy, token, synced, minted, entry, pending, fenceVars, step>>

\* ... and saved; one that differs from the copy it replaces is a new revision.
SaveManifest ==
    /\ sourceRead.busy
    /\ sourceRead' = NotReading
    /\ copy' = [cover |-> sourceRead.cover, held |-> TRUE]
    /\ IF copy.held /\ copy.cover # sourceRead.cover
       THEN /\ coverageRevision' = coverageRevision + 1
            /\ Load(coverageRevision') /\ Become(Loaded(coverageRevision'))
       ELSE UNCHANGED <<coverageRevision, token, synced, entry, pending>>
    /\ UNCHANGED <<dbVars, minted, fenceVars, step>>

-----------------------------------------------------------------------------
(* Time and restarts.                                                      *)

ExpireGeneration ==
    /\ \/ /\ entry # NoGeneration /\ entry.live
          /\ entry' = [entry EXCEPT !.live = FALSE] /\ UNCHANGED pending
       \/ /\ pending.candidate # NoGeneration /\ pending.candidate.live
          /\ pending' = [pending EXCEPT !.candidate.live = FALSE] /\ UNCHANGED entry
    /\ UNCHANGED <<dbVars, manifestVars, token, synced, minted, fenceVars, step>>

\* Mutant: an expired attempt leaves the candidate as it is.
PrunedOnly(attempt) == [pending EXCEPT !.active = @ \ {attempt}]
\* prunePendingCommits, which every operation runs first: an attempt that
\* expired may have committed, so no candidate is known to be the newest.
Pruned(attempt) == [active |-> pending.active \ {attempt}, candidate |-> NoGeneration]

\* They expire in the order they were prepared in.
Expire ==
    /\ lapsed < prepared
    /\ lapsed' = lapsed + 1
    /\ Become(IF lapsed' \in pending.active THEN Released(entry, Pruned(lapsed'))
              ELSE [entry |-> entry, pending |-> pending])
    /\ UNCHANGED <<dbVars, manifestVars, token, synced, minted, prepared, mishaps, restarted, step>>

\* The coordinator restarts: the cache, and a call to it, are gone.
Restart ==
    /\ Mishap /\ restarted' = TRUE
    /\ Invalidate /\ synced' = 0
    /\ sourceRead' = NotReading
    /\ IF announced = "invalidated"
       THEN announced' = "yes" /\ missed' = TRUE
       ELSE UNCHANGED <<announced, missed>>
    /\ UNCHANGED <<canvas, coverage, unfenced, coverageRevision, copy, prepared, lapsed, step>>

WriterStep(a) == Targets(a) \/ Commit(a) \/ Apply(a) \/ Finish(a)
ManifestStep == Announce \/ InvalidateManifest \/ SaveManifest

CacheNext ==
    \/ Prepare
    \/ \E a \in Attempt : WriterStep(a) \/ WriterCrash(a)
    \/ Resolve \/ ExpireGeneration \/ Expire
    \/ ChangeTemplates \/ ManifestStep \/ MissAnnouncement \/ ReadSource
    \/ Restart

CacheSpec == CacheInit /\ [][CacheNext]_cacheVars

-----------------------------------------------------------------------------
(* Properties.                                                             *)

\* What resolve acknowledges without asking the database.
Acknowledged == entry # NoGeneration /\ entry.live

\* An offer is acknowledged from memory only for the newest generation that
\* was committed, whatever attempts overlap, fail, expire or repair late.
\* Excepted: newer commits that the cache could not know of, because an
\* announcement or a restart had cleared their attempt, their answer was lost,
\* or their attempt had expired before this older one was repaired.
AcknowledgesNewest ==
    Acknowledged /\ entry.sure => \A o \in entry.order + 1 .. canvas : o \in unfenced

\* What is acknowledged was classified against the templates of now, except
\* between a change and its announcement, or when the announcement was lost.
\* After a restart the announcement is complete only with its revision: until
\* then a load brings back the token of the revision before.
CoverageCurrent ==
    /\ Acknowledged /\ ~missed
    /\ announced = "yes" \/ (announced = "invalidated" /\ ~restarted)
    => entry.cover = coverage

\* A cached manifest shows the templates of now, except until a change is
\* announced and its invalidation has come through the queue.
ManifestCurrent ==
    copy.held /\ announced = "yes" /\ ~missed => copy.cover = coverage
=============================================================================
