-------------------------- MODULE StatusProjection --------------------------
(***************************************************************************)
(* status-read-model/model.ts for ONE season, with its revision in         *)
(* adapters/relational-sql-store.ts, its chunked persistence in            *)
(* status-coordinator.ts and the requests that report to it                *)
(* (telemetry/ingest.ts): the projection of the template statuses, whose   *)
(* revision every reader and every live subscriber trusts as the name of   *)
(* its content.                                                            *)
(*                                                                         *)
(* A canvas commit is named by the revision it makes.  What a scope shows  *)
(* is the commits it counts and the version of the templates it counts     *)
(* them for.  Time is nondeterministic: a projection may be too old at any *)
(* read.                                                                   *)
(***************************************************************************)
EXTENDS Naturals, FiniteSets

CONSTANTS
    ReconcileAttempts, \* attempts of one reconciliation: 4
    MaxCommits,        \* bound: canvas commits that change a status
    MaxTemplates,      \* bound: changes of the templates
    MaxFailures        \* bound: failed calls and restarts of the coordinator

ASSUME StatusProjectionAssumption ==
    /\ ReconcileAttempts \in Nat \ {0}
    /\ MaxCommits \in Nat /\ MaxTemplates \in Nat /\ MaxFailures \in Nat

VARIABLES
    database,    \* the season's status rows and its status_read_model_revisions row
    unreported,  \* canvas commits whose requests have yet to report them
    unrepaired,  \* a change of the templates has yet to be reported
    projection,  \* the state in memory
    loaded,      \* it was loaded
    persisted,   \* the state in the coordinator's storage
    operation,   \* the one exclusive operation that is under way
    failures,
    published    \* history: every state that a reader or a subscriber was given

statusVars == <<database, unreported, unrepaired, projection, loaded, persisted, operation,
                failures, published>>

\* A commit makes a revision, and so does a reconciliation that finds something
\* else than the last one: it names a commit too.
Revision == Nat
Shown == [commits : SUBSET Revision, templates : 0 .. MaxTemplates]
Unread == [commits |-> {}, templates |-> MaxTemplates + 1]
State == [revision : Revision, public : Shown, admin : Shown]
NoState == [revision |-> 0, public |-> Unread, admin |-> Unread]
\* The two fingerprints are those of the state that was committed last.
NoFingerprint == <<Unread, Unread>>
Fingerprint(state) == <<state.public, state.admin>>
Database == [revision : Revision, dirty : BOOLEAN, templates : 0 .. MaxTemplates,
             commits : SUBSET Revision, fingerprint : (Shown \X Shown) \cup {NoFingerprint}]
Waiting == [at |-> "idle", attempt |-> 0, next |-> NoState]
Operation == [at : {"idle", "current", "read", "save", "publish"},
              attempt : 0 .. ReconcileAttempts - 1,
              next : [revision : Revision, public : Shown \cup {Unread},
                      admin : Shown \cup {Unread}]]

StatusTypeOK ==
    /\ database \in Database
    /\ unreported \in SUBSET Revision /\ unrepaired \in BOOLEAN
    /\ projection \in State \cup {NoState} /\ loaded \in BOOLEAN
    /\ persisted \in State \cup {NoState}
    /\ operation \in Operation
    /\ failures \in 0 .. MaxFailures
    /\ published \in SUBSET State

StatusInit ==
    /\ database = [revision |-> 0, dirty |-> FALSE, templates |-> 0, commits |-> {},
                   fingerprint |-> NoFingerprint]
    /\ unreported = {} /\ unrepaired = FALSE
    /\ projection = NoState /\ loaded = FALSE /\ persisted = NoState
    /\ operation = Waiting
    /\ failures = 0 /\ published = {}

-----------------------------------------------------------------------------
(* The requests.                                                           *)

\* commitTileBlobReservation with statuses that change: the revision moves in
\* the same batch.
CommitStatuses ==
    /\ Cardinality(database.commits) < MaxCommits
    /\ LET revision == database.revision + 1
       IN /\ database' = [database EXCEPT !.revision = revision, !.dirty = TRUE,
                                          !.commits = @ \cup {revision}]
          /\ unreported' = unreported \cup {revision}
    /\ UNCHANGED <<unrepaired, projection, loaded, persisted, operation, failures, published>>

\* A template is published, replaced or removed: the revision stays.
ChangeStatusTemplates ==
    /\ database.templates < MaxTemplates
    /\ database' = [database EXCEPT !.templates = @ + 1]
    /\ unrepaired' = TRUE
    /\ UNCHANGED <<unreported, projection, loaded, persisted, operation, failures, published>>

\* repairCommittedStatusProjection: an error is logged, nobody reports again.
LoseReport ==
    /\ \/ \E r \in unreported : unreported' = unreported \ {r} /\ UNCHANGED unrepaired
       \/ unrepaired /\ unrepaired' = FALSE /\ UNCHANGED unreported
    /\ UNCHANGED <<database, projection, loaded, persisted, operation, failures, published>>

-----------------------------------------------------------------------------
(* The operations: one at a time, each after load.                         *)

Held == IF loaded THEN projection ELSE persisted
LoadProjection == loaded' = TRUE /\ projection' = Held
Reconcile == operation' = [Waiting EXCEPT !.at = "current"]
Answered(state) == published' = published \cup {state}

\* reconcileSnapshot, for a read, an attachment or a state vector: a hit, ...
ReadHeld ==
    /\ operation = Waiting
    /\ LoadProjection
    /\ Held # NoState
    /\ Answered(Held)
    /\ UNCHANGED <<database, unreported, unrepaired, persisted, operation, failures>>

\* Mutant: a projection that is held never becomes too old.
ReadMissing ==
    /\ operation = Waiting
    /\ LoadProjection /\ Held = NoState
    /\ Reconcile
    /\ UNCHANGED <<database, unreported, unrepaired, persisted, failures, published>>
\* ... or none is held, or it is too old.
ReadStale ==
    /\ operation = Waiting
    /\ LoadProjection
    /\ Reconcile
    /\ UNCHANGED <<database, unreported, unrepaired, persisted, failures, published>>

\* A report of the templates has no mutation.
ReportTemplates ==
    /\ operation = Waiting /\ unrepaired
    /\ unrepaired' = FALSE
    /\ LoadProjection
    /\ Reconcile
    /\ UNCHANGED <<database, unreported, persisted, failures, published>>

Mutated(shown, commits) == [shown EXCEPT !.commits = @ \cup commits]

\* applyStatusProjectionMutations: one request's commits, first to last without
\* a gap, and applyMutation.
ReportRun(first, last) ==
    /\ operation = Waiting
    /\ first <= last /\ first .. last \subseteq unreported
    /\ unreported' = unreported \ (first .. last)
    /\ LoadProjection
    /\ \/ /\ Held # NoState /\ Held.revision = first - 1
          /\ operation' = [Waiting EXCEPT !.at = "save",
                !.next = [revision |-> last, public |-> Mutated(Held.public, first .. last),
                          admin |-> Mutated(Held.admin, first .. last)]]
          /\ UNCHANGED published
       \/ /\ Held # NoState /\ last <= Held.revision
          /\ Answered(Held)
          /\ UNCHANGED operation
       \* applyScopeMutation may find counts or totals that do not fit.
       \/ /\ Held # NoState => last > Held.revision
          /\ Reconcile
          /\ UNCHANGED published
    /\ UNCHANGED <<database, unrepaired, persisted, failures>>

\* forceReconcile: other requests committed between them.
ReportGap(commits) ==
    /\ operation = Waiting
    /\ ~\E first, last \in commits : commits = first .. last
    /\ unreported' = unreported \ commits
    /\ LoadProjection
    /\ Reconcile
    /\ UNCHANGED <<database, unrepaired, persisted, failures, published>>

-----------------------------------------------------------------------------
(* reconcile                                                               *)

StatusGoto(at) == operation' = [operation EXCEPT !.at = at]

ReadRevision ==
    /\ operation.at = "current"
    /\ operation' = [operation EXCEPT !.at = "read", !.next =
                        [revision |-> database.revision, public |-> Unread, admin |-> Unread]]
    /\ UNCHANGED <<database, unreported, unrepaired, projection, loaded, persisted, failures,
                   published>>

\* The scopes are read by two statements, in either order.
ReadScope ==
    /\ operation.at = "read"
    /\ LET shown == [commits |-> database.commits, templates |-> database.templates]
       IN \/ operation.next.public = Unread /\ operation' = [operation EXCEPT !.next.public = shown]
          \/ operation.next.admin = Unread /\ operation' = [operation EXCEPT !.next.admin = shown]
    /\ UNCHANGED <<database, unreported, unrepaired, projection, loaded, persisted, failures,
                   published>>

\* retainRevision
Retained == projection = operation.next

\* Mutant: the fingerprints are not compared.
BumpedDirty == IF database.revision = 0 \/ (database.dirty /\ ~Retained) THEN 1 ELSE 0
\* What commitStatusProjectionRevision adds to the revision.
Bumped ==
    IF database.revision = 0 THEN 1
    ELSE IF database.dirty THEN IF Retained THEN 0 ELSE 1
    ELSE IF database.fingerprint = Fingerprint(operation.next) THEN 0 ELSE 1

\* Mutant: the revision that was read is not compared.
SameRevisionAlways == TRUE
\* The row has the revision that was read before the scopes.
SameRevision == database.revision = operation.next.revision

\* Mutant: one attempt too many.
OnceMore == operation.attempt < ReconcileAttempts
Again == operation.attempt + 1 < ReconcileAttempts

CommitRevision ==
    /\ operation.at = "read" /\ Unread \notin {operation.next.public, operation.next.admin}
    /\ \/ /\ SameRevision
          /\ database' = [database EXCEPT !.revision = @ + Bumped, !.dirty = FALSE,
                                          !.fingerprint = Fingerprint(operation.next)]
          /\ operation' = [operation EXCEPT !.at = "save", !.next.revision = database'.revision]
       \/ /\ ~SameRevision
          /\ operation' = IF Again
                          THEN [operation EXCEPT !.at = "current", !.attempt = @ + 1]
                          ELSE Waiting
          /\ UNCHANGED database
    /\ UNCHANGED <<unreported, unrepaired, projection, loaded, persisted, failures, published>>

\* Mutant: publishing does not wait for the save.
SaveSkipped ==
    /\ operation.at = "save"
    /\ StatusGoto("publish")
    /\ UNCHANGED <<database, unreported, unrepaired, projection, loaded, persisted, failures, published>>
\* createChunkedStatusPersistence writes a revision's chunks once: saving it
\* again refreshes its clock only.
SaveProjection ==
    /\ operation.at = "save"
    /\ persisted' = IF persisted # NoState /\ persisted.revision = operation.next.revision
                    THEN persisted ELSE operation.next
    /\ StatusGoto("publish")
    /\ UNCHANGED <<database, unreported, unrepaired, projection, loaded, failures, published>>

PublishProjection ==
    /\ operation.at = "publish"
    /\ projection' = operation.next
    /\ Answered(operation.next)
    /\ operation' = Waiting
    /\ UNCHANGED <<database, unreported, unrepaired, loaded, persisted, failures>>

-----------------------------------------------------------------------------
(* Failures.                                                               *)

\* A call of the database or of the storage throws; the commit of a revision
\* may have taken place.
FailOperation ==
    /\ operation.at \in {"current", "read", "save"} /\ failures < MaxFailures
    /\ failures' = failures + 1
    /\ operation' = Waiting
    /\ UNCHANGED <<database, unreported, unrepaired, projection, loaded, persisted, published>>

\* The coordinator goes, whatever it does.
RestartCoordinator ==
    /\ loaded /\ failures < MaxFailures
    /\ failures' = failures + 1
    /\ operation' = Waiting /\ projection' = NoState /\ loaded' = FALSE
    /\ UNCHANGED <<database, unreported, unrepaired, persisted, published>>

ReconcileStep == ReadRevision \/ ReadScope \/ CommitRevision \/ SaveProjection \/ PublishProjection

StatusNext ==
    \/ CommitStatuses \/ ChangeStatusTemplates \/ LoseReport
    \/ ReadHeld \/ ReadStale \/ ReportTemplates
    \/ \E first, last \in unreported : ReportRun(first, last)
    \/ \E commits \in SUBSET unreported \ {{}} : ReportGap(commits)
    \/ ReconcileStep
    \/ FailOperation \/ RestartCoordinator

StatusSpec == StatusInit /\ [][StatusNext]_statusVars

\* Operations go on, and a projection that became too old is read.
StatusFair == WF_statusVars(ReconcileStep) /\ WF_statusVars(ReadStale)
StatusFairSpec == StatusSpec /\ StatusFair

-----------------------------------------------------------------------------
(* Properties.                                                             *)

\* A revision names one content: whoever was given it, before or after a
\* failure, a restart or a change of the templates, was given the same.
\* Subscribers skip what they have and chain deltas on that alone.
RevisionNamesContent ==
    \A s, t \in published : s.revision = t.revision => s = t

\* A projection counts every commit up to its revision, in both scopes,
\* however reports were reordered, split over requests, lost or outrun by a
\* reconciliation.
NothingSkipped ==
    \A s \in published : \A r \in database.commits :
        r <= s.revision => r \in s.public.commits /\ r \in s.admin.commits

\* Subscribers only observe a revision that reconstruction can recover: the
\* coordinator never hands out an older revision than it did before, not even
\* after a restart.
PublishedRecoverable ==
    \A s \in published : s.revision <= persisted.revision

\* Reports may be lost for ever: a projection that is read becomes the source.
ProjectionCatchesUp ==
    <>[](/\ projection # NoState
         /\ \A shown \in {projection.public, projection.admin} :
               shown = [commits |-> database.commits, templates |-> database.templates])
=============================================================================
