----------------------------- MODULE StatusProofs ---------------------------
(***************************************************************************)
(* The statuses of a season's templates: the revisions that the server     *)
(* gives them (StatusProjection), and the userscript that follows those    *)
(* (LiveClient).                                                           *)
(***************************************************************************)
EXTENDS StatusProjection, LiveClient, TLAPS

(***************************************************************************)
(* The revisions of StatusProjection.  The argument: outside the last step *)
(* of an operation the memory and the storage agree, so a commit of the    *)
(* revision that keeps it has either compared the new content with the     *)
(* one that was published, or with the fingerprints of the one that was    *)
(* committed last; and everything that is known counts the canvas commits  *)
(* up to its revision, because the scopes are read between reading and     *)
(* comparing the revision.                                                 *)
(***************************************************************************)

\* An operation that saves, or publishes, has both scopes.
Whole == operation.at \in {"save", "publish"} => operation.next \in State

StatusTyped == StatusTypeOK /\ Whole

LEMMA StatusTypeInit == StatusInit => StatusTyped
<1>. SUFFICES ASSUME StatusInit PROVE StatusTyped
  OBVIOUS
<1>1. ReconcileAttempts \in Nat \ {0} /\ MaxFailures \in Nat /\ MaxTemplates \in Nat
  BY StatusProjectionAssumption
<1>2. Waiting \in Operation
  BY <1>1 DEF Waiting, Operation, NoState, Revision
<1>3. database \in Database
  BY <1>1 DEF StatusInit, Database, Revision
<1>4. operation \in Operation /\ operation.at = "idle"
  BY <1>2 DEF StatusInit, Waiting
<1>5. /\ unreported = {} /\ unrepaired = FALSE /\ projection = NoState /\ loaded = FALSE
      /\ persisted = NoState /\ failures = 0 /\ published = {}
  BY DEF StatusInit
<1>6. StatusTypeOK
  <2>1. unreported \in SUBSET Revision /\ unrepaired \in BOOLEAN
    BY <1>5
  <2>2. projection \in State \cup {NoState} /\ loaded \in BOOLEAN
    BY <1>5
  <2>3. persisted \in State \cup {NoState}
    BY <1>5
  <2>4. failures \in 0 .. MaxFailures
    BY <1>1, <1>5
  <2>5. published \in SUBSET State
    BY <1>5
  <2>. QED BY <1>3, <1>4, <2>1, <2>2, <2>3, <2>4, <2>5 DEF StatusTypeOK
<1>. QED
  BY <1>4, <1>6 DEF StatusTyped, Whole

\* What an operation starts from.
LEMMA HeldType ==
  ASSUME StatusTypeOK
  PROVE  Held \in State \cup {NoState}
  BY DEF StatusTypeOK, Held

LEMMA WaitingType == Waiting \in Operation /\ Waiting.at = "idle"
<1>1. ReconcileAttempts \in Nat \ {0}
  BY StatusProjectionAssumption
<1>. QED BY <1>1 DEF Waiting, Operation, NoState, Revision

LEMMA ReconcileType ==
  ASSUME Reconcile
  PROVE  operation' \in Operation /\ operation'.at = "current"
<1>1. ReconcileAttempts \in Nat \ {0}
  BY StatusProjectionAssumption
<1>. QED BY <1>1 DEF Reconcile, Waiting, Operation, NoState, Revision

LEMMA LoadType ==
  ASSUME StatusTypeOK, LoadProjection
  PROVE  projection' \in State \cup {NoState} /\ loaded' \in BOOLEAN
  BY HeldType DEF LoadProjection

LEMMA MutatedType ==
  ASSUME NEW shown \in Shown, NEW commits \in SUBSET Nat
  PROVE  /\ Mutated(shown, commits) \in Shown
         /\ Mutated(shown, commits).commits = shown.commits \cup commits
         /\ Mutated(shown, commits).templates = shown.templates
  BY DEF Mutated, Shown, Revision

\* The state that a run of mutations makes.
RunState(first, last) ==
    [revision |-> last, public |-> Mutated(Held.public, first .. last),
     admin |-> Mutated(Held.admin, first .. last)]

LEMMA RunSave ==
  ASSUME StatusTypeOK, NEW first \in Nat, NEW last \in Nat, Held # NoState,
         operation' = [Waiting EXCEPT !.at = "save", !.next = RunState(first, last)]
  PROVE  /\ operation' \in Operation
         /\ operation'.at = "save"
         /\ operation'.next = RunState(first, last)
         /\ operation'.next \in State
<1>1. Held \in State
  BY HeldType
<1>2. first .. last \in SUBSET Nat
  OBVIOUS
<1>3. Mutated(Held.public, first .. last) \in Shown /\ Mutated(Held.admin, first .. last) \in Shown
  BY <1>1, <1>2, MutatedType DEF State
<1>4. RunState(first, last) \in State
  BY <1>3 DEF RunState, State, Revision
<1>5. RunState(first, last) \in [revision : Revision, public : Shown \cup {Unread},
                                 admin : Shown \cup {Unread}]
  BY <1>3 DEF RunState, Revision
<1>6. ReconcileAttempts \in Nat \ {0}
  BY StatusProjectionAssumption
<1>. HIDE DEF RunState
<1>7. operation' = [at |-> "save", attempt |-> 0, next |-> RunState(first, last)]
  BY DEF Waiting
<1>. QED BY <1>4, <1>5, <1>6, <1>7 DEF Operation

-----------------------------------------------------------------------------
(* What each step does, field by field.                                    *)

LEMMA DatabaseCommit ==
  ASSUME NEW d \in Database,
         NEW e, e = [d EXCEPT !.revision = d.revision + 1, !.dirty = TRUE,
                              !.commits = d.commits \cup {d.revision + 1}]
  PROVE  /\ e \in Database
         /\ e.revision = d.revision + 1 /\ e.dirty = TRUE
         /\ e.commits = d.commits \cup {d.revision + 1}
<1>1. e.revision = d.revision + 1 /\ e.revision \in Nat
  BY DEF Database, Revision
<1>2. e.commits = d.commits \cup {d.revision + 1} /\ e.commits \in SUBSET Nat
  BY <1>1 DEF Database, Revision
<1>3. e.dirty = TRUE /\ e.templates = d.templates /\ e.fingerprint = d.fingerprint
  BY DEF Database
<1>4. e \in Database
  BY <1>1, <1>2, <1>3 DEF Database, Revision
<1>. QED BY <1>1, <1>2, <1>3, <1>4

LEMMA CommitStep ==
  ASSUME StatusTypeOK, CommitStatuses
  PROVE  /\ database' \in Database
         /\ database'.revision = database.revision + 1 /\ database'.dirty = TRUE
         /\ database'.commits = database.commits \cup {database.revision + 1}
         /\ unreported' = unreported \cup {database.revision + 1}
         /\ UNCHANGED <<unrepaired, projection, loaded, persisted, operation, failures, published>>
<1>1. /\ database \in Database
      /\ database' = [database EXCEPT !.revision = database.revision + 1, !.dirty = TRUE,
                       !.commits = database.commits \cup {database.revision + 1}]
  BY DEF StatusTypeOK, CommitStatuses
<1>. QED BY <1>1, DatabaseCommit DEF CommitStatuses

LEMMA TemplatesStep ==
  ASSUME StatusTypeOK, ChangeStatusTemplates
  PROVE  /\ database' \in Database
         /\ database'.revision = database.revision /\ database'.dirty = database.dirty
         /\ database'.commits = database.commits /\ database'.fingerprint = database.fingerprint
         /\ UNCHANGED <<unreported, projection, loaded, persisted, operation, failures, published>>
<1>1. MaxTemplates \in Nat
  BY StatusProjectionAssumption
<1>. QED BY <1>1 DEF StatusTypeOK, ChangeStatusTemplates, Database

LEMMA ReadRevisionStep ==
  ASSUME StatusTypeOK, ReadRevision
  PROVE  /\ operation' \in Operation /\ operation'.at = "read"
         /\ operation'.next = [revision |-> database.revision, public |-> Unread, admin |-> Unread]
  BY DEF StatusTypeOK, ReadRevision, Database, Operation, Revision

LEMMA ReadScopeStep ==
  ASSUME StatusTypeOK, ReadScope
  PROVE  /\ operation' \in Operation /\ operation'.at = "read"
         /\ operation'.next.revision = operation.next.revision
         /\ \/ /\ operation'.next.public.commits = database.commits
               /\ operation'.next.admin = operation.next.admin
            \/ /\ operation'.next.admin.commits = database.commits
               /\ operation'.next.public = operation.next.public
<1>. DEFINE shown == [commits |-> database.commits, templates |-> database.templates]
<1>1. shown \in Shown /\ shown.commits = database.commits
  BY DEF StatusTypeOK, Database, Shown
<1>2. operation.at = "read"
  BY DEF ReadScope
<1>. HIDE DEF shown
<1>3. CASE operation' = [operation EXCEPT !.next.public = shown]
  BY <1>1, <1>2, <1>3 DEF StatusTypeOK, Operation
<1>4. CASE operation' = [operation EXCEPT !.next.admin = shown]
  BY <1>1, <1>2, <1>4 DEF StatusTypeOK, Operation
<1>. QED BY <1>3, <1>4 DEF ReadScope, shown

\* The commit that finds the revision it read, and the one that does not.
LEMMA CommitRevisionStep ==
  ASSUME StatusTypeOK, CommitRevision
  PROVE  \/ /\ SameRevision
            /\ database' \in Database
            /\ database'.revision = database.revision + Bumped /\ database'.dirty = FALSE
            /\ database'.commits = database.commits
            /\ database'.fingerprint = Fingerprint(operation.next)
            /\ operation' \in Operation /\ operation'.at = "save" /\ operation'.next \in State
            /\ operation'.next = [operation.next EXCEPT !.revision = database'.revision]
         \/ /\ UNCHANGED database
            /\ operation' \in Operation /\ operation'.at \in {"idle", "current"}
            /\ operation'.at = "idle" => operation' = Waiting
<1>1. /\ operation.next \in [revision : Revision, public : Shown \cup {Unread},
                             admin : Shown \cup {Unread}]
      /\ operation.next.public \in Shown /\ operation.next.admin \in Shown
  BY DEF StatusTypeOK, Operation, CommitRevision
<1>2. Bumped \in Nat
  BY DEF Bumped
<1>3. CASE SameRevision
  <2>1. /\ database' = [database EXCEPT !.revision = database.revision + Bumped, !.dirty = FALSE,
                                        !.fingerprint = Fingerprint(operation.next)]
        /\ operation' = [operation EXCEPT !.at = "save", !.next.revision = database'.revision]
    BY <1>3 DEF CommitRevision
  <2>2. Fingerprint(operation.next) \in Shown \X Shown
    BY <1>1 DEF Fingerprint
  <2>3. /\ database' \in Database
        /\ database'.revision = database.revision + Bumped /\ database'.dirty = FALSE
        /\ database'.commits = database.commits
        /\ database'.fingerprint = Fingerprint(operation.next)
    <3>1. database \in Database /\ database.revision + Bumped \in Nat
      BY <1>2 DEF StatusTypeOK, Database, Revision
    <3>. DEFINE f == Fingerprint(operation.next)
                v == database.revision + Bumped
    <3>2. f \in Shown \X Shown /\ v \in Nat
      BY <2>2, <3>1
    <3>3. database' = [database EXCEPT !.revision = v, !.dirty = FALSE, !.fingerprint = f]
      BY <2>1
    <3>. HIDE DEF f, v
    <3>4. /\ database' \in Database
          /\ database'.revision = v /\ database'.dirty = FALSE
          /\ database'.commits = database.commits /\ database'.fingerprint = f
      BY <3>1, <3>2, <3>3 DEF Database, Revision
    <3>. QED BY <3>4 DEF f, v
  <2>4. /\ operation' \in Operation /\ operation'.at = "save"
        /\ operation'.next = [operation.next EXCEPT !.revision = database'.revision]
    <3>1. operation \in Operation /\ database'.revision \in Nat
      BY <2>3 DEF StatusTypeOK, Database, Revision
    <3>. DEFINE v == database'.revision
                n == [operation.next EXCEPT !.revision = v]
    <3>2. n \in [revision : Revision, public : Shown \cup {Unread}, admin : Shown \cup {Unread}]
      BY <1>1, <3>1 DEF Revision
    <3>3. operation' = [operation EXCEPT !.at = "save", !.next = n]
      <4>. HIDE DEF v
      <4>. QED BY <2>1, <3>1 DEF Operation, v
    <3>. HIDE DEF n
    <3>4. operation' \in Operation /\ operation'.at = "save" /\ operation'.next = n
      BY <3>1, <3>2, <3>3 DEF Operation
    <3>. QED BY <3>4 DEF n
  <2>5. operation'.next \in State
    BY <1>1, <2>3, <2>4 DEF State, Database
  <2>. QED BY <1>3, <2>3, <2>4, <2>5
<1>4. CASE ~SameRevision
  <2>1. CASE Again
    <3>1. operation' = [operation EXCEPT !.at = "current", !.attempt = operation.attempt + 1]
      BY <1>4, <2>1 DEF CommitRevision
    <3>2. operation' \in Operation /\ operation'.at = "current"
      <4>1. ReconcileAttempts \in Nat
        BY StatusProjectionAssumption
      <4>2. operation \in Operation /\ operation.attempt + 1 < ReconcileAttempts
        BY <2>1 DEF StatusTypeOK, Again
      <4>3. operation.attempt + 1 \in 0 .. ReconcileAttempts - 1
        BY <4>1, <4>2 DEF Operation
      <4>. QED BY <3>1, <4>2, <4>3 DEF Operation
    <3>. QED BY <1>4, <3>2 DEF CommitRevision
  <2>2. CASE ~Again
    BY <1>4, <2>2, WaitingType DEF CommitRevision
  <2>. QED BY <2>1, <2>2
<1>. QED BY <1>3, <1>4

LEMMA GotoStep ==
  ASSUME StatusTypeOK, NEW at \in {"publish"}, StatusGoto(at)
  PROVE  operation' \in Operation /\ operation'.at = at /\ operation'.next = operation.next
  BY DEF StatusTypeOK, StatusGoto, Operation

-----------------------------------------------------------------------------
(* The inductive invariant.                                                *)

Counted(state) ==
    \A r \in database.commits :
        r <= state.revision => r \in state.public.commits /\ r \in state.admin.commits

CommitsNamed ==
    /\ \A r \in database.commits : 0 < r /\ r <= database.revision
    /\ unreported \subseteq database.commits

\* Outside publishing, the memory and the storage agree.
MemoryAgrees ==
    /\ operation.at # "idle" => loaded
    /\ loaded /\ operation.at # "publish" => projection = persisted
    /\ operation.at = "publish" => persisted = operation.next

StorageCounts == persisted.revision <= database.revision /\ Counted(persisted)

HandedOut ==
    \A s \in published :
        /\ s.revision <= persisted.revision
        /\ s.revision = persisted.revision => s = persisted
        /\ Counted(s)

\* What is read counts the commits of the revision that was read before.
ScopesRead ==
    operation.at = "read" =>
        /\ operation.next.revision <= database.revision
        /\ \A shown \in {operation.next.public, operation.next.admin} :
              shown # Unread => \A r \in database.commits :
                                   r <= operation.next.revision => r \in shown.commits

\* What is saved is new, or is stored already.
SaveDue ==
    operation.at \in {"save", "publish"} =>
        /\ 0 < operation.next.revision /\ operation.next.revision <= database.revision
        /\ Counted(operation.next)
        /\ persisted.revision <= operation.next.revision
        /\ persisted.revision = operation.next.revision => persisted = operation.next
        /\ ~database.dirty /\ operation.next.revision = database.revision
              => Fingerprint(operation.next) = database.fingerprint

\* The fingerprints of a revision that a reconciliation committed are those of
\* the state stored with it.
Fingerprinted ==
    ~database.dirty =>
        /\ persisted # NoState /\ persisted.revision = database.revision
              => Fingerprint(persisted) = database.fingerprint
        /\ database.revision \in database.commits => database.revision <= persisted.revision

StatusInvariant ==
    /\ StatusTyped /\ CommitsNamed /\ MemoryAgrees /\ StorageCounts /\ HandedOut
    /\ RevisionNamesContent /\ ScopesRead /\ SaveDue /\ Fingerprinted

-----------------------------------------------------------------------------
(* Facts that several steps use.                                           *)

LEMMA InitInvariant == StatusInit => StatusInvariant
<1>. SUFFICES ASSUME StatusInit PROVE StatusInvariant
  OBVIOUS
<1>1. StatusTyped
  BY StatusTypeInit
<1>2. /\ database.revision = 0 /\ database.commits = {} /\ database.dirty = FALSE
      /\ unreported = {} /\ loaded = FALSE /\ published = {} /\ persisted = NoState
      /\ operation.at = "idle"
  BY DEF StatusInit, Waiting
<1>3. persisted.revision = 0
  BY <1>2 DEF NoState
<1>4. CommitsNamed /\ MemoryAgrees /\ StorageCounts /\ HandedOut
  BY <1>2, <1>3 DEF CommitsNamed, MemoryAgrees, StorageCounts, HandedOut, Counted
<1>5. RevisionNamesContent /\ ScopesRead /\ SaveDue /\ Fingerprinted
  BY <1>2 DEF RevisionNamesContent, ScopesRead, SaveDue, Fingerprinted
<1>. QED BY <1>1, <1>4, <1>5 DEF StatusInvariant

\* An operation starts from the stored state.
LEMMA HeldIsStored ==
  ASSUME StatusInvariant, operation = Waiting
  PROVE  Held = persisted
  BY WaitingType DEF StatusInvariant, MemoryAgrees, Held

\* Revisions are numbers.
LEMMA RevisionType ==
  ASSUME StatusTypeOK
  PROVE  /\ database.revision \in Nat /\ database.commits \in SUBSET Nat
         /\ persisted.revision \in Nat
         /\ operation.next.revision \in Nat
         /\ \A s \in published : s.revision \in Nat
<1>1. database.revision \in Nat /\ database.commits \in SUBSET Nat
  BY DEF StatusTypeOK, Database, Revision
<1>2. persisted.revision \in Nat
  BY DEF StatusTypeOK, State, NoState, Revision
<1>3. operation.next.revision \in Nat
  BY DEF StatusTypeOK, Operation, Revision
<1>4. \A s \in published : s.revision \in Nat
  BY DEF StatusTypeOK, State, Revision
<1>. QED BY <1>1, <1>2, <1>3, <1>4

\* A step that leaves the database, the storage and what was handed out alone.
LEMMA StoredKept ==
  ASSUME StatusInvariant, UNCHANGED <<database, persisted, published>>
  PROVE  StorageCounts' /\ HandedOut' /\ RevisionNamesContent' /\ Fingerprinted'
  BY DEF StatusInvariant, StorageCounts, HandedOut, RevisionNamesContent, Fingerprinted,
         Counted, Fingerprint

\* An operation that is about to read the revision, or is over, is free of the
\* conditions on what is read, saved or published.
LEMMA FreeKept ==
  ASSUME operation'.at \in {"idle", "current"}
  PROVE  ScopesRead' /\ SaveDue' /\ Whole'
  BY DEF ScopesRead, SaveDue, Whole

LEMMA CommitsKept ==
  ASSUME StatusInvariant, UNCHANGED database, unreported' \subseteq unreported
  PROVE  CommitsNamed' /\ unreported' \in SUBSET Revision
  BY DEF StatusInvariant, StatusTyped, StatusTypeOK, CommitsNamed

\* An operation that finds no mutation to apply, or cannot apply one.
LEMMA StartReconcile ==
  ASSUME StatusInvariant, operation = Waiting, LoadProjection, Reconcile,
         unreported' \subseteq unreported, unrepaired' \in BOOLEAN,
         UNCHANGED <<database, persisted, failures, published>>
  PROVE  StatusInvariant'
<1>1. StatusTypeOK
  BY DEF StatusInvariant, StatusTyped
<1>2. operation' \in Operation /\ operation'.at = "current"
  BY ReconcileType
<1>3. StorageCounts' /\ HandedOut' /\ RevisionNamesContent' /\ Fingerprinted'
  BY StoredKept
<1>4. ScopesRead' /\ SaveDue' /\ Whole'
  BY <1>2, FreeKept
<1>5. CommitsNamed' /\ unreported' \in SUBSET Revision
  BY CommitsKept
<1>6. MemoryAgrees'
  BY <1>2, HeldIsStored DEF LoadProjection, MemoryAgrees
<1>7. projection' \in State \cup {NoState} /\ loaded' \in BOOLEAN
  BY <1>1, LoadType
<1>8. StatusTypeOK'
  BY <1>1, <1>2, <1>5, <1>7 DEF StatusTypeOK
<1>. QED BY <1>3, <1>4, <1>5, <1>6, <1>8 DEF StatusInvariant, StatusTyped

\* Handing out the stored state.
LEMMA HandOutStored ==
  ASSUME StatusInvariant, persisted \in State, published' = published \cup {persisted},
         UNCHANGED <<database, persisted>>
  PROVE  /\ published' \in SUBSET State
         /\ StorageCounts' /\ HandedOut' /\ RevisionNamesContent' /\ Fingerprinted'
<1>1. StatusTypeOK
  BY DEF StatusInvariant, StatusTyped
<1>2. published' \in SUBSET State
  BY <1>1 DEF StatusTypeOK
<1>3. StorageCounts' /\ Fingerprinted'
  BY DEF StatusInvariant, StorageCounts, Fingerprinted, Counted, Fingerprint
<1>4. persisted.revision \in Nat
  BY <1>1, RevisionType
<1>5. HandedOut'
  BY <1>4 DEF StatusInvariant, HandedOut, StorageCounts, Counted
<1>6. RevisionNamesContent'
  BY DEF StatusInvariant, HandedOut, RevisionNamesContent
<1>. QED BY <1>2, <1>3, <1>5, <1>6

LEMMA AnswerHeld ==
  ASSUME StatusInvariant, operation = Waiting, LoadProjection, Held # NoState, Answered(Held),
         unreported' \subseteq unreported, unrepaired' \in BOOLEAN,
         UNCHANGED <<database, persisted, operation, failures>>
  PROVE  StatusInvariant'
<1>1. StatusTypeOK
  BY DEF StatusInvariant, StatusTyped
<1>2. Held = persisted /\ persisted \in State
  BY <1>1, HeldIsStored DEF StatusTypeOK
<1>3. /\ published' \in SUBSET State
      /\ StorageCounts' /\ HandedOut' /\ RevisionNamesContent' /\ Fingerprinted'
  BY <1>2, HandOutStored DEF Answered
<1>4. operation' \in Operation /\ operation'.at = "idle"
  BY WaitingType
<1>5. ScopesRead' /\ SaveDue' /\ Whole'
  BY <1>4, FreeKept
<1>6. CommitsNamed' /\ unreported' \in SUBSET Revision
  BY CommitsKept
<1>7. MemoryAgrees'
  BY <1>2, <1>4 DEF LoadProjection, MemoryAgrees
<1>8. projection' \in State \cup {NoState} /\ loaded' \in BOOLEAN
  BY <1>1, LoadType
<1>9. StatusTypeOK'
  BY <1>1, <1>3, <1>4, <1>6, <1>8 DEF StatusTypeOK
<1>. QED BY <1>3, <1>5, <1>6, <1>7, <1>9 DEF StatusInvariant, StatusTyped

-----------------------------------------------------------------------------
(* Every step keeps the invariant.                                         *)

LEMMA CommitKeeps ==
  ASSUME StatusInvariant, CommitStatuses
  PROVE  StatusInvariant'
<1>1. StatusTypeOK /\ StatusTyped
  BY DEF StatusInvariant, StatusTyped
<1>2. /\ database' \in Database
      /\ database'.revision = database.revision + 1 /\ database'.dirty = TRUE
      /\ database'.commits = database.commits \cup {database.revision + 1}
      /\ unreported' = unreported \cup {database.revision + 1}
      /\ UNCHANGED <<unrepaired, projection, loaded, persisted, operation, failures, published>>
  BY <1>1, CommitStep
<1>3. /\ database.revision \in Nat /\ database.commits \in SUBSET Nat
      /\ persisted.revision \in Nat /\ operation.next.revision \in Nat
      /\ \A s \in published : s.revision \in Nat
  BY <1>1, RevisionType
<1>4. StatusTyped'
  <2>1. unreported' \in SUBSET Revision
    <3>1. unreported \in SUBSET Revision
      BY <1>1 DEF StatusTypeOK
    <3>2. database.revision + 1 \in Revision
      BY <1>3 DEF Revision
    <3>. QED BY <1>2, <3>1, <3>2
  <2>2. StatusTypeOK'
    BY <1>1, <1>2, <2>1 DEF StatusTypeOK
  <2>. QED BY <1>1, <1>2, <2>2 DEF StatusTyped, Whole
<1>5. CommitsNamed'
  BY <1>2, <1>3 DEF StatusInvariant, CommitsNamed
<1>6. MemoryAgrees' /\ RevisionNamesContent'
  BY <1>2 DEF StatusInvariant, MemoryAgrees, RevisionNamesContent
<1>7. StorageCounts'
  BY <1>2, <1>3 DEF StatusInvariant, StorageCounts, Counted
<1>8. HandedOut'
  BY <1>2, <1>3 DEF StatusInvariant, HandedOut, StorageCounts, Counted
<1>9. ScopesRead'
  BY <1>2, <1>3 DEF StatusInvariant, ScopesRead
<1>10. SaveDue'
  BY <1>2, <1>3 DEF StatusInvariant, SaveDue, Counted
<1>11. Fingerprinted'
  BY <1>2 DEF Fingerprinted
<1>. QED BY <1>4, <1>5, <1>6, <1>7, <1>8, <1>9, <1>10, <1>11 DEF StatusInvariant

LEMMA TemplatesKeep ==
  ASSUME StatusInvariant, ChangeStatusTemplates
  PROVE  StatusInvariant'
<1>1. StatusTypeOK /\ StatusTyped
  BY DEF StatusInvariant, StatusTyped
<1>2. /\ database' \in Database
      /\ database'.revision = database.revision /\ database'.dirty = database.dirty
      /\ database'.commits = database.commits /\ database'.fingerprint = database.fingerprint
      /\ UNCHANGED <<unreported, projection, loaded, persisted, operation, failures, published>>
      /\ unrepaired' = TRUE
  BY <1>1, TemplatesStep DEF ChangeStatusTemplates
<1>3. StatusTyped'
  BY <1>1, <1>2 DEF StatusTyped, StatusTypeOK, Whole
<1>4. CommitsNamed' /\ MemoryAgrees' /\ StorageCounts' /\ HandedOut'
  BY <1>2 DEF StatusInvariant, CommitsNamed, MemoryAgrees, StorageCounts, HandedOut, Counted
<1>5. RevisionNamesContent' /\ ScopesRead'
  BY <1>2 DEF StatusInvariant, RevisionNamesContent, ScopesRead
<1>6. SaveDue'
  BY <1>2 DEF StatusInvariant, SaveDue, Counted, Fingerprint
<1>7. Fingerprinted'
  BY <1>2 DEF StatusInvariant, Fingerprinted, Fingerprint
<1>. QED BY <1>3, <1>4, <1>5, <1>6, <1>7 DEF StatusInvariant

LEMMA LoseKeeps ==
  ASSUME StatusInvariant, LoseReport
  PROVE  StatusInvariant'
<1>1. /\ unreported' \subseteq unreported /\ unrepaired' \in BOOLEAN
      /\ UNCHANGED <<database, projection, loaded, persisted, operation, failures, published>>
  BY DEF LoseReport, StatusInvariant, StatusTyped, StatusTypeOK
<1>2. CommitsNamed' /\ unreported' \in SUBSET Revision
  BY <1>1, CommitsKept
<1>3. StorageCounts' /\ HandedOut' /\ RevisionNamesContent' /\ Fingerprinted'
  BY <1>1, StoredKept
<1>4. StatusTyped'
  BY <1>1, <1>2 DEF StatusInvariant, StatusTyped, StatusTypeOK, Whole
<1>5. MemoryAgrees' /\ ScopesRead'
  BY <1>1 DEF StatusInvariant, MemoryAgrees, ScopesRead
<1>6. SaveDue'
  BY <1>1 DEF StatusInvariant, SaveDue, Counted, Fingerprint
<1>. QED BY <1>2, <1>3, <1>4, <1>5, <1>6 DEF StatusInvariant

\* The run that continues the projection.
LEMMA MutationKeeps ==
  ASSUME StatusInvariant, operation = Waiting, NEW first \in unreported, NEW last \in unreported,
         first <= last, first .. last \subseteq unreported,
         unreported' = unreported \ (first .. last), LoadProjection,
         Held # NoState, Held.revision = first - 1,
         operation' = [Waiting EXCEPT !.at = "save", !.next = RunState(first, last)],
         UNCHANGED <<database, unrepaired, persisted, failures, published>>
  PROVE  StatusInvariant'
<1>1. StatusTypeOK
  BY DEF StatusInvariant, StatusTyped
<1>2. Held = persisted /\ persisted \in State
  BY <1>1, HeldIsStored DEF StatusTypeOK
<1>3. first \in Nat /\ last \in Nat
  BY <1>1 DEF StatusTypeOK, Revision
<1>4. /\ operation' \in Operation /\ operation'.at = "save"
      /\ operation'.next = RunState(first, last) /\ operation'.next \in State
  BY <1>1, <1>3, RunSave
<1>5. StorageCounts' /\ HandedOut' /\ RevisionNamesContent' /\ Fingerprinted'
  BY StoredKept
<1>6. CommitsNamed' /\ unreported' \in SUBSET Revision
  BY CommitsKept
<1>7. projection' \in State \cup {NoState} /\ loaded' \in BOOLEAN
  BY <1>1, LoadType
<1>8. StatusTyped'
  BY <1>1, <1>4, <1>6, <1>7 DEF StatusTypeOK, StatusTyped, Whole
<1>9. MemoryAgrees'
  BY <1>2, <1>4 DEF LoadProjection, MemoryAgrees
<1>10. ScopesRead'
  BY <1>4 DEF ScopesRead
<1>11. SaveDue'
  <2>1. /\ operation'.next.revision = last
        /\ operation'.next.public = Mutated(persisted.public, first .. last)
        /\ operation'.next.admin = Mutated(persisted.admin, first .. last)
    BY <1>2, <1>4 DEF RunState
  <2>2. /\ operation'.next.public.commits = persisted.public.commits \cup (first .. last)
        /\ operation'.next.admin.commits = persisted.admin.commits \cup (first .. last)
    <3>1. persisted.public \in Shown /\ persisted.admin \in Shown
      BY <1>2 DEF State
    <3>2. first .. last \in SUBSET Nat
      BY <1>3
    <3>. QED BY <2>1, <3>1, <3>2, MutatedType
  <2>3. first \in database.commits /\ last \in database.commits
    BY DEF StatusInvariant, CommitsNamed
  <2>4. 0 < last /\ last <= database.revision /\ database.revision \in Nat
        /\ database.commits \in SUBSET Nat
    BY <1>1, <2>3, RevisionType DEF StatusInvariant, CommitsNamed
  <2>5. persisted.revision = first - 1
    BY <1>2
  <2>6. Counted(operation.next)'
    <3>. SUFFICES ASSUME NEW r \in database.commits, r <= last
                  PROVE  r \in operation'.next.public.commits /\ r \in operation'.next.admin.commits
      BY <2>1 DEF Counted
    <3>1. CASE r <= persisted.revision
      BY <2>2, <3>1 DEF StatusInvariant, StorageCounts, Counted
    <3>2. CASE ~(r <= persisted.revision)
      BY <1>3, <2>2, <2>4, <2>5, <3>2
    <3>. QED BY <3>1, <3>2
  <2>7. persisted.revision < last
    BY <1>3, <2>5
  <2>8. ~(~database.dirty /\ last = database.revision)
    BY <1>3, <2>3, <2>4, <2>5, <2>7 DEF StatusInvariant, Fingerprinted
  <2>. QED BY <1>3, <2>1, <2>4, <2>5, <2>6, <2>7, <2>8 DEF SaveDue
<1>. QED BY <1>5, <1>6, <1>8, <1>9, <1>10, <1>11 DEF StatusInvariant

LEMMA ReportKeeps ==
  ASSUME StatusInvariant, NEW first \in unreported, NEW last \in unreported,
         ReportRun(first, last)
  PROVE  StatusInvariant'
<1>1. /\ operation = Waiting /\ first <= last /\ first .. last \subseteq unreported
      /\ unreported' = unreported \ (first .. last) /\ LoadProjection
      /\ UNCHANGED <<database, unrepaired, persisted, failures>>
  BY DEF ReportRun
<1>2. unreported' \subseteq unreported /\ unrepaired' \in BOOLEAN
  BY <1>1 DEF StatusInvariant, StatusTyped, StatusTypeOK
<1>3. CASE /\ Held # NoState /\ Held.revision = first - 1
           /\ operation' = [Waiting EXCEPT !.at = "save", !.next = RunState(first, last)]
           /\ UNCHANGED published
  BY <1>1, <1>3, MutationKeeps
<1>4. CASE Held # NoState /\ Answered(Held) /\ UNCHANGED operation
  BY <1>1, <1>2, <1>4, AnswerHeld
<1>5. CASE Reconcile /\ UNCHANGED published
  BY <1>1, <1>2, <1>5, StartReconcile
<1>. QED BY <1>3, <1>4, <1>5 DEF ReportRun, RunState

LEMMA ReadRevisionKeeps ==
  ASSUME StatusInvariant, ReadRevision
  PROVE  StatusInvariant'
<1>1. StatusTypeOK
  BY DEF StatusInvariant, StatusTyped
<1>2. /\ UNCHANGED <<database, unreported, unrepaired, projection, loaded, persisted, failures,
                     published>>
      /\ operation.at = "current"
  BY DEF ReadRevision
<1>3. /\ operation' \in Operation /\ operation'.at = "read"
      /\ operation'.next = [revision |-> database.revision, public |-> Unread, admin |-> Unread]
  BY <1>1, ReadRevisionStep
<1>4. StorageCounts' /\ HandedOut' /\ RevisionNamesContent' /\ Fingerprinted'
  BY <1>2, StoredKept
<1>5. CommitsNamed' /\ unreported' \in SUBSET Revision
  BY <1>2, CommitsKept
<1>6. StatusTyped'
  BY <1>1, <1>2, <1>3 DEF StatusTyped, StatusTypeOK, Whole
<1>7. MemoryAgrees'
  BY <1>2, <1>3 DEF StatusInvariant, MemoryAgrees
<1>8. ScopesRead'
  <2>1. /\ operation'.next.revision = database.revision
        /\ operation'.next.public = Unread /\ operation'.next.admin = Unread
    BY <1>3
  <2>2. database.revision \in Nat
    BY <1>1, RevisionType
  <2>. QED BY <1>2, <2>1, <2>2 DEF ScopesRead
<1>9. SaveDue'
  BY <1>3 DEF SaveDue
<1>. QED BY <1>4, <1>5, <1>6, <1>7, <1>8, <1>9 DEF StatusInvariant

LEMMA ReadScopeKeeps ==
  ASSUME StatusInvariant, ReadScope
  PROVE  StatusInvariant'
<1>1. StatusTypeOK
  BY DEF StatusInvariant, StatusTyped
<1>2. /\ UNCHANGED <<database, unreported, unrepaired, projection, loaded, persisted, failures,
                     published>>
      /\ operation.at = "read"
  BY DEF ReadScope
<1>3. /\ operation' \in Operation /\ operation'.at = "read"
      /\ operation'.next.revision = operation.next.revision
      /\ \/ /\ operation'.next.public.commits = database.commits
            /\ operation'.next.admin = operation.next.admin
         \/ /\ operation'.next.admin.commits = database.commits
            /\ operation'.next.public = operation.next.public
  BY <1>1, ReadScopeStep
<1>4. StorageCounts' /\ HandedOut' /\ RevisionNamesContent' /\ Fingerprinted'
  BY <1>2, StoredKept
<1>5. CommitsNamed' /\ unreported' \in SUBSET Revision
  BY <1>2, CommitsKept
<1>6. StatusTyped'
  BY <1>1, <1>2, <1>3 DEF StatusTyped, StatusTypeOK, Whole
<1>7. MemoryAgrees'
  BY <1>2, <1>3 DEF StatusInvariant, MemoryAgrees
<1>8. ScopesRead'
  BY <1>2, <1>3 DEF StatusInvariant, ScopesRead
<1>9. SaveDue'
  BY <1>3 DEF SaveDue
<1>. QED BY <1>4, <1>5, <1>6, <1>7, <1>8, <1>9 DEF StatusInvariant

\* The revision is as it was read, and takes the content that was read: it is
\* a new one, or the content is the stored one.
LEMMA NamedKeeps ==
  ASSUME StatusInvariant, CommitRevision, SameRevision,
         database' \in Database,
         database'.revision = database.revision + Bumped, database'.dirty = FALSE,
         database'.commits = database.commits,
         database'.fingerprint = Fingerprint(operation.next),
         operation' \in Operation, operation'.at = "save", operation'.next \in State,
         operation'.next = [operation.next EXCEPT !.revision = database'.revision]
  PROVE  StatusInvariant'
<1>1. StatusTypeOK
  BY DEF StatusInvariant, StatusTyped
<1>2. /\ UNCHANGED <<unreported, unrepaired, projection, loaded, persisted, failures, published>>
      /\ operation.at = "read" /\ operation.next.public # Unread /\ operation.next.admin # Unread
  BY DEF CommitRevision
<1>3. /\ database.revision \in Nat /\ database.commits \in SUBSET Nat
      /\ persisted.revision \in Nat /\ operation.next.revision \in Nat
      /\ \A s \in published : s.revision \in Nat
  BY <1>1, RevisionType
<1>4. Bumped \in {0, 1} /\ (database.revision = 0 => Bumped = 1)
  BY DEF Bumped
<1>5. /\ operation'.next.revision = database.revision + Bumped
      /\ operation'.next.public = operation.next.public
      /\ operation'.next.admin = operation.next.admin
  BY <1>1 DEF StatusTypeOK, Operation
<1>6. /\ operation.next.revision = database.revision
      /\ \A r \in database.commits : /\ 0 < r /\ r <= database.revision
                                     /\ r \in operation.next.public.commits
                                     /\ r \in operation.next.admin.commits
  BY <1>2 DEF StatusInvariant, ScopesRead, CommitsNamed, SameRevision
<1>7. loaded /\ projection = persisted
  BY <1>2 DEF StatusInvariant, MemoryAgrees
<1>8. persisted.revision <= database.revision
  BY DEF StatusInvariant, StorageCounts
\* The stored state has the revision's content.
<1>9. ASSUME persisted.revision = database.revision + Bumped
      PROVE  persisted = operation'.next
  <2>1. Bumped = 0 /\ persisted.revision = database.revision /\ database.revision # 0
    BY <1>3, <1>4, <1>8, <1>9
  <2>2. CASE database.dirty
    <3>1. projection = operation.next
      BY <2>1, <2>2 DEF Bumped, Retained
    <3>2. operation'.next = operation.next
      BY <1>1, <1>5, <1>6, <2>1, <1>3 DEF StatusTypeOK, Operation, State
    <3>. QED BY <1>7, <3>1, <3>2
  <2>3. CASE ~database.dirty
    <3>1. database.fingerprint = Fingerprint(operation.next)
      BY <2>1, <2>3 DEF Bumped
    <3>2. persisted # NoState
      BY <2>1 DEF NoState
    <3>3. Fingerprint(persisted) = Fingerprint(operation.next)
      BY <2>1, <2>3, <3>1, <3>2 DEF StatusInvariant, Fingerprinted
    <3>4. persisted.public = operation.next.public /\ persisted.admin = operation.next.admin
      BY <3>3 DEF Fingerprint
    <3>5. persisted \in State
      BY <1>1, <3>2 DEF StatusTypeOK
    <3>6. persisted.revision = operation'.next.revision
      BY <1>5, <1>9
    <3>. QED BY <1>5, <3>4, <3>5, <3>6 DEF State
  <2>. QED BY <2>2, <2>3
<1>10. StatusTyped'
  BY <1>1, <1>2 DEF StatusTyped, StatusTypeOK, Whole
<1>11. CommitsNamed'
  BY <1>2, <1>3, <1>4, <1>6 DEF StatusInvariant, CommitsNamed
<1>12. MemoryAgrees' /\ RevisionNamesContent'
  BY <1>2, <1>7 DEF StatusInvariant, MemoryAgrees, RevisionNamesContent
<1>13. StorageCounts'
  BY <1>2, <1>3, <1>4 DEF StatusInvariant, StorageCounts, Counted
<1>14. HandedOut'
  BY <1>2 DEF StatusInvariant, HandedOut, Counted
<1>15. ScopesRead'
  BY DEF ScopesRead
<1>16. SaveDue'
  <2>1. 0 < operation'.next.revision /\ operation'.next.revision <= database'.revision
    BY <1>3, <1>4, <1>5
  <2>2. Counted(operation.next)'
    BY <1>5, <1>6 DEF Counted
  <2>3. /\ persisted'.revision <= operation'.next.revision
        /\ persisted'.revision = operation'.next.revision => persisted' = operation'.next
    BY <1>2, <1>3, <1>4, <1>5, <1>8, <1>9
  <2>4. Fingerprint(operation'.next) = database'.fingerprint
    BY <1>5 DEF Fingerprint
  <2>5. Fingerprint(operation.next)' = Fingerprint(operation'.next)
    BY DEF Fingerprint
  <2>. QED BY <2>1, <2>2, <2>3, <2>4, <2>5 DEF SaveDue
<1>17. Fingerprinted'
  <2>1. ASSUME persisted.revision = database'.revision
        PROVE  Fingerprint(persisted) = database'.fingerprint
    BY <1>5, <1>9, <2>1 DEF Fingerprint
  <2>2. ASSUME database'.revision \in database.commits
        PROVE  database'.revision <= persisted.revision
    <3>1. Bumped = 0 /\ database.revision \in database.commits
      BY <1>3, <1>4, <1>6, <2>2
    <3>2. CASE database.dirty
      <4>1. persisted = operation.next
        BY <1>7, <3>1, <3>2, <1>6 DEF Bumped, Retained
      <4>. QED BY <1>3, <1>6, <3>1, <4>1
    <3>3. CASE ~database.dirty
      BY <1>3, <3>1, <3>3 DEF StatusInvariant, Fingerprinted
    <3>. QED BY <3>2, <3>3
  <2>. QED BY <1>2, <2>1, <2>2 DEF Fingerprinted, Fingerprint
<1>. QED BY <1>10, <1>11, <1>12, <1>13, <1>14, <1>15, <1>16, <1>17 DEF StatusInvariant

LEMMA CommitRevisionKeeps ==
  ASSUME StatusInvariant, CommitRevision
  PROVE  StatusInvariant'
<1>1. StatusTypeOK
  BY DEF StatusInvariant, StatusTyped
<1>2. /\ UNCHANGED <<unreported, unrepaired, projection, loaded, persisted, failures, published>>
      /\ operation.at = "read"
  BY DEF CommitRevision
<1>3. CASE /\ UNCHANGED database
           /\ operation' \in Operation /\ operation'.at \in {"idle", "current"}
  <2>1. ScopesRead' /\ SaveDue' /\ Whole'
    BY <1>3, FreeKept
  <2>2. StorageCounts' /\ HandedOut' /\ RevisionNamesContent' /\ Fingerprinted'
    BY <1>2, <1>3, StoredKept
  <2>3. CommitsNamed' /\ MemoryAgrees'
    BY <1>2, <1>3 DEF StatusInvariant, CommitsNamed, MemoryAgrees
  <2>4. StatusTypeOK'
    BY <1>1, <1>2, <1>3 DEF StatusTypeOK
  <2>. QED BY <2>1, <2>2, <2>3, <2>4 DEF StatusInvariant, StatusTyped
<1>. QED BY <1>1, <1>3, CommitRevisionStep, NamedKeeps

LEMMA SaveKeeps ==
  ASSUME StatusInvariant, SaveProjection
  PROVE  StatusInvariant'
<1>1. StatusTypeOK /\ operation.next \in State
  BY DEF StatusInvariant, StatusTyped, Whole, SaveProjection
<1>2. /\ operation.at = "save" /\ StatusGoto("publish")
      /\ UNCHANGED <<database, unreported, unrepaired, projection, loaded, failures, published>>
  BY DEF SaveProjection
<1>3. operation' \in Operation /\ operation'.at = "publish" /\ operation'.next = operation.next
  BY <1>1, <1>2, GotoStep
<1>4. /\ database.revision \in Nat /\ database.commits \in SUBSET Nat
      /\ persisted.revision \in Nat /\ operation.next.revision \in Nat
      /\ \A s \in published : s.revision \in Nat
  BY <1>1, RevisionType
<1>5. /\ 0 < operation.next.revision /\ operation.next.revision <= database.revision
      /\ Counted(operation.next)
      /\ persisted.revision <= operation.next.revision
      /\ persisted.revision = operation.next.revision => persisted = operation.next
      /\ ~database.dirty /\ operation.next.revision = database.revision
            => Fingerprint(operation.next) = database.fingerprint
  BY <1>2 DEF StatusInvariant, SaveDue
<1>6. persisted' = operation.next
  BY <1>5 DEF SaveProjection
<1>7. StatusTyped'
  BY <1>1, <1>2, <1>3, <1>6 DEF StatusTyped, StatusTypeOK, Whole
<1>8. CommitsNamed' /\ RevisionNamesContent' /\ ScopesRead'
  BY <1>2, <1>3 DEF StatusInvariant, CommitsNamed, RevisionNamesContent, ScopesRead
<1>9. MemoryAgrees'
  BY <1>2, <1>3, <1>6 DEF StatusInvariant, MemoryAgrees
<1>10. StorageCounts'
  BY <1>2, <1>5, <1>6 DEF StorageCounts, Counted
<1>11. HandedOut'
  <2>. SUFFICES ASSUME NEW s \in published
                PROVE  /\ s.revision <= operation.next.revision
                       /\ s.revision = operation.next.revision => s = operation.next
                       /\ Counted(s)'
    BY <1>2, <1>6 DEF HandedOut
  <2>1. /\ s.revision <= persisted.revision
        /\ s.revision = persisted.revision => s = persisted
        /\ Counted(s)
    BY DEF StatusInvariant, HandedOut
  <2>2. Counted(s)'
    BY <1>2, <2>1 DEF Counted
  <2>. QED BY <1>4, <1>5, <2>1, <2>2
<1>12. SaveDue'
  BY <1>2, <1>3, <1>4, <1>5, <1>6 DEF SaveDue, Counted, Fingerprint
<1>13. Fingerprinted'
  BY <1>2, <1>4, <1>5, <1>6 DEF StatusInvariant, Fingerprinted, Fingerprint
<1>. QED BY <1>7, <1>8, <1>9, <1>10, <1>11, <1>12, <1>13 DEF StatusInvariant

LEMMA PublishKeeps ==
  ASSUME StatusInvariant, PublishProjection
  PROVE  StatusInvariant'
<1>1. StatusTypeOK
  BY DEF StatusInvariant, StatusTyped
<1>2. /\ operation.at = "publish" /\ projection' = operation.next
      /\ published' = published \cup {operation.next} /\ operation' = Waiting
      /\ UNCHANGED <<database, unreported, unrepaired, loaded, persisted, failures>>
  BY DEF PublishProjection, Answered
<1>3. persisted = operation.next /\ persisted \in State
  BY <1>2 DEF StatusInvariant, MemoryAgrees, StatusTyped, Whole
<1>4. /\ published' \in SUBSET State
      /\ StorageCounts' /\ HandedOut' /\ RevisionNamesContent' /\ Fingerprinted'
  BY <1>2, <1>3, HandOutStored
<1>5. operation' \in Operation /\ operation'.at = "idle"
  BY <1>2, WaitingType
<1>6. ScopesRead' /\ SaveDue' /\ Whole'
  BY <1>5, FreeKept
<1>7. CommitsNamed'
  BY <1>2, CommitsKept
<1>8. MemoryAgrees'
  BY <1>2, <1>3, <1>5 DEF MemoryAgrees
<1>9. StatusTypeOK'
  BY <1>1, <1>2, <1>3, <1>4, <1>5 DEF StatusTypeOK
<1>. QED BY <1>4, <1>6, <1>7, <1>8, <1>9 DEF StatusInvariant, StatusTyped

\* An operation that is given up leaves the storage as it is.
LEMMA GiveUpKeeps ==
  ASSUME StatusInvariant, failures < MaxFailures, failures' = failures + 1, operation' = Waiting,
         UNCHANGED <<database, unreported, unrepaired, persisted, published>>,
         projection' \in State \cup {NoState}, loaded' \in BOOLEAN,
         loaded' => projection' = persisted
  PROVE  StatusInvariant'
<1>1. StatusTypeOK
  BY DEF StatusInvariant, StatusTyped
<1>2. operation' \in Operation /\ operation'.at = "idle"
  BY WaitingType
<1>3. StorageCounts' /\ HandedOut' /\ RevisionNamesContent' /\ Fingerprinted'
  BY StoredKept
<1>4. ScopesRead' /\ SaveDue' /\ Whole'
  BY <1>2, FreeKept
<1>5. CommitsNamed'
  BY CommitsKept
<1>6. MemoryAgrees'
  BY <1>2 DEF MemoryAgrees
<1>7. failures' \in 0 .. MaxFailures
  BY <1>1, StatusProjectionAssumption DEF StatusTypeOK
<1>8. StatusTypeOK'
  BY <1>1, <1>2, <1>7 DEF StatusTypeOK
<1>. QED BY <1>3, <1>4, <1>5, <1>6, <1>8 DEF StatusInvariant, StatusTyped

LEMMA FailKeeps ==
  ASSUME StatusInvariant, FailOperation \/ RestartCoordinator
  PROVE  StatusInvariant'
<1>1. CASE FailOperation
  <2>1. operation.at # "publish" /\ UNCHANGED <<projection, loaded>>
    BY <1>1 DEF FailOperation
  <2>2. loaded => projection = persisted
    BY <2>1 DEF StatusInvariant, MemoryAgrees
  <2>3. projection \in State \cup {NoState} /\ loaded \in BOOLEAN
    BY DEF StatusInvariant, StatusTyped, StatusTypeOK
  <2>. QED BY <1>1, <2>1, <2>2, <2>3, GiveUpKeeps DEF FailOperation
<1>2. CASE RestartCoordinator
  BY <1>2, GiveUpKeeps DEF RestartCoordinator
<1>. QED BY <1>1, <1>2

LEMMA StutterKeeps ==
  ASSUME StatusInvariant, UNCHANGED statusVars
  PROVE  StatusInvariant'
<1>. USE DEF statusVars
<1>1. StorageCounts' /\ HandedOut' /\ RevisionNamesContent' /\ Fingerprinted'
  BY StoredKept
<1>2. StatusTyped'
  BY DEF StatusInvariant, StatusTyped, StatusTypeOK, Whole
<1>3. CommitsNamed' /\ MemoryAgrees' /\ ScopesRead'
  BY DEF StatusInvariant, CommitsNamed, MemoryAgrees, ScopesRead
<1>4. SaveDue'
  BY DEF StatusInvariant, SaveDue, Counted, Fingerprint
<1>. QED BY <1>1, <1>2, <1>3, <1>4 DEF StatusInvariant

LEMMA StepKeeps ==
  ASSUME StatusInvariant, [StatusNext]_statusVars
  PROVE  StatusInvariant'
<1>1. CASE CommitStatuses \/ ChangeStatusTemplates \/ LoseReport
  BY <1>1, CommitKeeps, TemplatesKeep, LoseKeeps
<1>2. CASE ReadHeld
  BY <1>2, AnswerHeld DEF ReadHeld, StatusInvariant, StatusTyped, StatusTypeOK
<1>3. CASE ReadStale
  BY <1>3, StartReconcile DEF ReadStale, StatusInvariant, StatusTyped, StatusTypeOK
<1>4. CASE ReportTemplates
  BY <1>4, StartReconcile DEF ReportTemplates
<1>5. CASE \E first, last \in unreported : ReportRun(first, last)
  BY <1>5, ReportKeeps
<1>6. CASE \E commits \in SUBSET unreported \ {{}} : ReportGap(commits)
  BY <1>6, StartReconcile DEF ReportGap, StatusInvariant, StatusTyped, StatusTypeOK
<1>7. CASE ReconcileStep
  BY <1>7, ReadRevisionKeeps, ReadScopeKeeps, CommitRevisionKeeps, SaveKeeps, PublishKeeps
     DEF ReconcileStep
<1>8. CASE FailOperation \/ RestartCoordinator
  BY <1>8, FailKeeps
<1>9. CASE UNCHANGED statusVars
  BY <1>9, StutterKeeps
<1>. QED BY <1>1, <1>2, <1>3, <1>4, <1>5, <1>6, <1>7, <1>8, <1>9 DEF StatusNext

LEMMA StatusInductive == StatusSpec => []StatusInvariant
<1>. QED BY InitInvariant, StepKeeps, PTL DEF StatusSpec

-----------------------------------------------------------------------------
(* The theorems.                                                           *)

\* Every value of the projection, of the operation and of the database has the
\* type that the code gives it.
THEOREM StatusTypeCorrect == StatusSpec => []StatusTypeOK
<1>1. StatusInvariant => StatusTypeOK
  BY DEF StatusInvariant, StatusTyped
<1>. QED BY <1>1, StatusInductive, PTL

\* Two states of one revision that were ever handed out are equal, for every
\* number of commits, attempts, failures and restarts.
THEOREM RevisionsAreNames == StatusSpec => []RevisionNamesContent
<1>1. StatusInvariant => RevisionNamesContent
  BY DEF StatusInvariant
<1>. QED BY <1>1, StatusInductive, PTL

\* No state that was handed out misses a canvas commit up to its revision.
THEOREM CommitsAreCounted == StatusSpec => []NothingSkipped
<1>1. StatusInvariant => NothingSkipped
  BY DEF StatusInvariant, HandedOut, Counted, NothingSkipped
<1>. QED BY <1>1, StatusInductive, PTL

\* The storage is never behind what was handed out: a restart cannot go back.
THEOREM PublishedIsStored == StatusSpec => []PublishedRecoverable
<1>1. StatusInvariant => PublishedRecoverable
  BY DEF StatusInvariant, HandedOut, PublishedRecoverable
<1>. QED BY <1>1, StatusInductive, PTL

-----------------------------------------------------------------------------
(***************************************************************************)
(* A userscript that is behind has news coming (LiveClient).  The argument:*)
(* every broadcast that finds an open socket puts its revision on it, a    *)
(* socket that is not open will bring a state vector, and what the client  *)
(* consumes without taking it leaves a request, a read or an awaited       *)
(* revision behind.                                                        *)
(***************************************************************************)

Corrections == {i \in 1 .. Len(pipe) : pipe[i].type = "state-correction"}

\* A socket that is not open carries nothing, and will be replaced.
SocketReplaced ==
    /\ socket # "open" => pipe = <<>> /\ vector = NoVector
    /\ socket = "none" => reopening \/ ~active
    /\ reopening => socket = "none"

\* Nothing is ahead of the server, and no read went back.
NothingAhead ==
    /\ revision <= rev /\ reply <= rev /\ awaited <= rev
    /\ reading.started <= rev /\ reading.answer <= rev
    /\ reading.at = "answered" => reading.started <= reading.answer
    /\ reading.at = "none" => reading = NotAsked
    /\ \A i \in 1 .. Len(pipe) : pipe[i].revision <= rev
    /\ vector.read <= rev /\ vector.client <= rev
    /\ vector.at = "read" => vector.read # Unknown

\* The state vector will be answered with the newest revision.
VectorNews ==
    /\ vector.at = "sent" \/ (vector.at = "read" /\ vector.read = rev)
    /\ IF protocol = 2 THEN vector.client <= revision
       ELSE correcting /\ Corrections = {}

\* The newest revision is on the socket, in an event that counts.
PipeNews ==
    \E i \in 1 .. Len(pipe) :
        /\ pipe[i].revision = rev
        /\ pipe[i].type = "state-correction"
             => protocol = 1 /\ correcting /\ \A j \in Corrections : i <= j

\* A full read will bring the newest revision, or leave a request for it.
ReadNews ==
    \/ requested \/ reading.at = "asked"
    \/ reading.at = "answered" /\ (reading.answer = rev \/ awaited = rev)

NewsComes ==
    outrun \/ revision = rev \/ socket # "open" \/ VectorNews \/ PipeNews \/ ReadNews

LiveInvariant == LiveTypeOK /\ SocketReplaced /\ NothingAhead /\ NewsComes

-----------------------------------------------------------------------------
(* The type invariant in three parts.                                      *)

ServerTyped ==
    /\ protocol \in {1, 2} /\ rev \in Rev
    /\ pipe \in Seq(Event)
    /\ vector \in [at : {"none", "sent", "read"}, client : Rev \cup {Unknown},
                   read : Rev \cup {Unknown}]
    /\ reply \in Rev \cup {Unknown}

ScheduleTyped ==
    /\ revision \in Rev \cup {Unknown}
    /\ requested \in BOOLEAN
    /\ reading \in [at : {"none", "asked", "answered"}, started : Rev \cup {Unknown},
                    answer : Rev \cup {Unknown}]
    /\ awaited \in Rev \cup {Unknown}

PageTyped ==
    /\ socket \in {"none", "opening", "open"}
    /\ reconciled \in BOOLEAN /\ correcting \in BOOLEAN /\ reopening \in BOOLEAN
    /\ active \in BOOLEAN /\ outages \in 0 .. MaxOutages /\ outrun \in BOOLEAN

LEMMA TypeParts == LiveTypeOK <=> ServerTyped /\ ScheduleTyped /\ PageTyped
  BY Zenon DEF LiveTypeOK, ServerTyped, ScheduleTyped, PageTyped

LEMMA TypePartsNext == LiveTypeOK' <=> ServerTyped' /\ ScheduleTyped' /\ PageTyped'
  BY Zenon DEF LiveTypeOK, ServerTyped, ScheduleTyped, PageTyped

-----------------------------------------------------------------------------
(* The socket's queue.                                                     *)

LEMMA EventType ==
  ASSUME NEW e \in Event
  PROVE  e.revision \in Rev /\ e.type \in {"status-delta", "status-reconcile", "status-snapshot",
                                           "state-correction"}
  BY DEF Event

LEMMA RevType == Rev \subseteq Nat /\ Unknown \in Nat /\ Unknown \notin Rev
  BY LiveClientAssumption DEF Rev, Unknown

LEMMA ReceivedStep ==
  ASSUME pipe \in Seq(Event), pipe # <<>>, Received
  PROVE  /\ pipe' \in Seq(Event) /\ Len(pipe') = Len(pipe) - 1
         /\ Len(pipe) \in Nat \ {0} /\ Head(pipe) = pipe[1] /\ Head(pipe) \in Event
         /\ \A i \in 1 .. Len(pipe') : pipe'[i] = pipe[i + 1]
  BY DEF Received

LEMMA AppendStep ==
  ASSUME NEW s \in Seq(Event), NEW e \in Event, NEW t, t = Append(s, e)
  PROVE  /\ t \in Seq(Event) /\ Len(t) = Len(s) + 1 /\ Len(s) \in Nat
         /\ \A i \in 1 .. Len(s) : t[i] = s[i]
         /\ t[Len(s) + 1] = e
  OBVIOUS

LEMMA ConcatStep ==
  ASSUME NEW s \in Seq(Event), NEW e \in Event, NEW f \in Event
  PROVE  /\ s \o <<e>> = Append(s, e)
         /\ s \o <<e, f>> = Append(Append(s, e), f)
<1>1. s \o <<e>> = Append(s, e)
  OBVIOUS
<1>2. s \o <<e, f>> = Append(Append(s, e), f)
  OBVIOUS
<1>. QED BY <1>1, <1>2

\* What is left of the newest revision on the socket when its head is taken.
LEMMA PipeNewsLeft ==
  ASSUME LiveTypeOK, pipe # <<>>, Received, PipeNews, UNCHANGED <<rev, protocol>>,
         Head(pipe).type = "state-correction" \/ UNCHANGED correcting
  PROVE  \/ PipeNews'
         \/ /\ Head(pipe).revision = rev
            /\ Head(pipe).type = "state-correction" => protocol = 1 /\ correcting
<1>1. pipe \in Seq(Event)
  BY DEF LiveTypeOK
<1>2. /\ pipe' \in Seq(Event) /\ Len(pipe') = Len(pipe) - 1
      /\ Len(pipe) \in Nat \ {0} /\ Head(pipe) = pipe[1] /\ Head(pipe) \in Event
      /\ \A i \in 1 .. Len(pipe') : pipe'[i] = pipe[i + 1]
  BY <1>1, ReceivedStep
<1>3. PICK i \in 1 .. Len(pipe) :
        /\ pipe[i].revision = rev
        /\ pipe[i].type = "state-correction"
             => protocol = 1 /\ correcting /\ \A j \in Corrections : i <= j
  BY DEF PipeNews
<1>4. CASE i = 1
  BY <1>2, <1>3, <1>4
<1>5. CASE i # 1
  <2>1. i - 1 \in 1 .. Len(pipe') /\ pipe'[i - 1] = pipe[i]
    BY <1>2, <1>5
  <2>2. CASE pipe[i].type # "state-correction"
    BY <1>3, <2>1, <2>2 DEF PipeNews
  <2>3. CASE pipe[i].type = "state-correction"
    <3>1. Head(pipe).type # "state-correction"
      <4>1. ~(1 \in Corrections)
        BY <1>2, <1>3, <1>5, <2>3
      <4>. QED BY <1>2, <4>1 DEF Corrections
    <3>2. \A j \in Corrections' : j + 1 \in Corrections
      <4>. SUFFICES ASSUME NEW j \in Corrections' PROVE j + 1 \in Corrections
        OBVIOUS
      <4>1. j \in 1 .. Len(pipe') /\ pipe'[j].type = "state-correction"
        BY DEF Corrections
      <4>2. j + 1 \in 1 .. Len(pipe) /\ pipe[j + 1] = pipe'[j]
        BY <1>2, <4>1
      <4>. QED BY <4>1, <4>2 DEF Corrections
    <3>3. \A j \in Corrections' : i - 1 <= j
      <4>. SUFFICES ASSUME NEW j \in Corrections' PROVE i - 1 <= j
        OBVIOUS
      <4>1. j \in Nat
        BY <1>2 DEF Corrections
      <4>2. i <= j + 1
        BY <1>3, <2>3, <3>2
      <4>. QED BY <1>2, <4>1, <4>2
    <3>4. protocol' = 1 /\ correcting'
      <4>1. protocol = 1 /\ correcting
        BY <1>3, <2>3
      <4>2. correcting' = correcting
        BY <3>1
      <4>. QED BY <4>1, <4>2
    <3>5. \E k \in 1 .. Len(pipe') :
            /\ pipe'[k].revision = rev'
            /\ pipe'[k].type = "state-correction"
                 => protocol' = 1 /\ correcting' /\ \A j \in Corrections' : k <= j
      <4>1. pipe'[i - 1].revision = rev'
        BY <1>3, <2>1
      <4>. QED BY <2>1, <3>3, <3>4, <4>1
    <3>. QED BY <3>5 DEF PipeNews
  <2>. QED BY <2>2, <2>3
<1>. QED BY <1>4, <1>5

\* A state vector stays good news while nothing older replaces the status.
LEMMA VectorNewsLeft ==
  ASSUME LiveTypeOK, pipe # <<>>, Received, VectorNews, UNCHANGED <<rev, protocol, vector>>,
         Head(pipe).type = "state-correction" \/ UNCHANGED correcting,
         revision' \in Nat, revision <= revision'
  PROVE  VectorNews'
<1>1. pipe \in Seq(Event)
  BY DEF LiveTypeOK
<1>2. /\ Len(pipe') = Len(pipe) - 1 /\ Len(pipe) \in Nat \ {0} /\ Head(pipe) = pipe[1]
      /\ \A i \in 1 .. Len(pipe') : pipe'[i] = pipe[i + 1]
  BY <1>1, ReceivedStep
<1>3. CASE protocol = 2
  <2>1. vector.client \in Nat /\ revision \in Nat
    BY RevType DEF LiveTypeOK
  <2>. QED BY <1>3, <2>1 DEF VectorNews
<1>4. CASE protocol # 2
  <2>1. correcting /\ Corrections = {}
    BY <1>4 DEF VectorNews
  <2>2. Head(pipe).type # "state-correction"
    BY <1>2, <2>1 DEF Corrections
  <2>3. Corrections' = {}
    <3>. SUFFICES ASSUME NEW j \in Corrections' PROVE FALSE
      OBVIOUS
    <3>1. j \in 1 .. Len(pipe') /\ pipe'[j].type = "state-correction"
      BY DEF Corrections
    <3>2. j + 1 \in 1 .. Len(pipe) /\ pipe[j + 1] = pipe'[j]
      BY <1>2, <3>1
    <3>. QED BY <2>1, <3>1, <3>2 DEF Corrections
  <2>. QED BY <1>4, <2>1, <2>2, <2>3 DEF VectorNews
<1>. QED BY <1>3, <1>4

-----------------------------------------------------------------------------
(* Every step keeps the invariant.                                         *)

LEMMA Numbers ==
  ASSUME LiveTypeOK
  PROVE  /\ rev \in Nat \ {0} /\ revision \in Nat /\ reply \in Nat /\ awaited \in Nat
         /\ reading.started \in Nat /\ reading.answer \in Nat
         /\ vector.client \in Nat /\ vector.read \in Nat
         /\ pipe \in Seq(Event) /\ Len(pipe) \in Nat
         /\ \A i \in 1 .. Len(pipe) : pipe[i] \in Event /\ pipe[i].revision \in Nat
<1>1. rev \in Nat \ {0} /\ revision \in Nat /\ reply \in Nat /\ awaited \in Nat
  BY RevType DEF LiveTypeOK, Unknown
<1>2. reading.started \in Nat /\ reading.answer \in Nat
  BY RevType DEF LiveTypeOK
<1>3. vector.client \in Nat /\ vector.read \in Nat
  BY RevType DEF LiveTypeOK
<1>4. pipe \in Seq(Event) /\ Len(pipe) \in Nat
  BY DEF LiveTypeOK
<1>5. \A i \in 1 .. Len(pipe) : pipe[i] \in Event /\ pipe[i].revision \in Nat
  <2>. SUFFICES ASSUME NEW i \in 1 .. Len(pipe)
                PROVE  pipe[i] \in Event /\ pipe[i].revision \in Nat
    OBVIOUS
  <2>1. pipe[i] \in Event
    BY <1>4
  <2>. QED BY <2>1, RevType, EventType
<1>. QED BY <1>1, <1>2, <1>3, <1>4, <1>5

LEMMA LiveInitial == LiveInit => LiveInvariant
<1>. SUFFICES ASSUME LiveInit PROVE LiveInvariant
  OBVIOUS
<1>1. 1 \in Rev /\ 1 \in Nat
  BY LiveClientAssumption DEF Rev
<1>2. LiveTypeOK
  <2>1. MaxOutages \in Nat
    BY LiveClientAssumption
  <2>2. pipe \in Seq(Event)
    BY DEF LiveInit
  <2>3. ServerTyped
    BY <1>1, <2>2 DEF LiveInit, ServerTyped, NoVector, Unknown
  <2>4. ScheduleTyped
    BY DEF LiveInit, ScheduleTyped, NotAsked
  <2>5. PageTyped
    <3>1. 0 \in 0 .. MaxOutages
      BY <2>1
    <3>. QED BY <3>1, Zenon DEF LiveInit, PageTyped
  <2>. QED BY <2>3, <2>4, <2>5, TypeParts
<1>3. SocketReplaced
  BY DEF LiveInit, SocketReplaced
<1>4. NothingAhead
  <2>1. /\ rev = 1 /\ revision = 0 /\ reply = 0 /\ awaited = 0 /\ Len(pipe) = 0
    BY DEF LiveInit, Unknown
  <2>2. reading.started = 0 /\ reading.answer = 0 /\ reading.at = "none" /\ reading = NotAsked
    BY DEF LiveInit, NotAsked, Unknown
  <2>3. vector.read = 0 /\ vector.client = 0 /\ vector.at = "none"
    BY DEF LiveInit, NoVector, Unknown
  <2>. QED BY <2>1, <2>2, <2>3 DEF NothingAhead
<1>5. NewsComes
  BY DEF LiveInit, NewsComes
<1>. QED BY <1>2, <1>3, <1>4, <1>5 DEF LiveInvariant

\* The socket goes, or is replaced.
LEMMA ClosedKeeps ==
  ASSUME LiveInvariant, CloseSocket, reopening' \/ ~active', UNCHANGED <<protocol, rev, reply,
         revision, requested, reading, awaited, outrun>>,
         reopening' \in BOOLEAN, active' \in BOOLEAN, outages' \in 0 .. MaxOutages
  PROVE  LiveInvariant'
<1>1. /\ socket' = "none" /\ pipe' = <<>> /\ vector' = NoVector
      /\ reconciled' = FALSE /\ correcting' = FALSE
  BY DEF CloseSocket
<1>2. LiveTypeOK'
  <2>1. pipe' \in Seq(Event)
    BY <1>1
  <2>2. NoVector \in [at : {"none", "sent", "read"}, client : Rev \cup {Unknown},
                      read : Rev \cup {Unknown}]
    BY DEF NoVector
  <2>3. ServerTyped'
    BY <1>1, <2>1, <2>2, TypeParts DEF LiveInvariant, ServerTyped
  <2>4. ScheduleTyped'
    BY TypeParts DEF LiveInvariant, ScheduleTyped
  <2>5. PageTyped'
    BY <1>1, TypeParts DEF LiveInvariant, PageTyped
  <2>. QED BY <2>3, <2>4, <2>5, TypePartsNext
<1>3. SocketReplaced'
  BY <1>1 DEF SocketReplaced
<1>4. NothingAhead'
  <2>1. Len(pipe') = 0 /\ vector'.read = 0 /\ vector'.client = 0 /\ vector'.at = "none"
    BY <1>1 DEF NoVector, Unknown
  <2>2. rev \in Nat
    BY Numbers DEF LiveInvariant
  <2>. QED BY <2>1, <2>2 DEF LiveInvariant, NothingAhead
<1>5. NewsComes'
  BY <1>1 DEF NewsComes
<1>. QED BY <1>2, <1>3, <1>4, <1>5 DEF LiveInvariant

LEMMA OutageType ==
  ASSUME LiveTypeOK, Outage
  PROVE  outages' \in 0 .. MaxOutages
  BY LiveClientAssumption DEF LiveTypeOK, Outage

LEMMA LoseSocketKeeps ==
  ASSUME LiveInvariant, LoseSocket
  PROVE  LiveInvariant'
<1>1. /\ CloseSocket /\ reopening' = TRUE /\ Outage
      /\ UNCHANGED <<protocol, rev, outrun, reply, revision, requested, reading, awaited, active>>
  BY DEF LoseSocket, serverVars, scheduleVars
<1>2. outages' \in 0 .. MaxOutages /\ active' \in BOOLEAN
  BY <1>1, OutageType DEF LiveInvariant, LiveTypeOK
<1>. QED BY <1>1, <1>2, ClosedKeeps

\* What only the connection's timers, the page and the outages move, while the
\* socket stays as it is or opens.
LEMMA ConnectionKeeps ==
  ASSUME LiveInvariant,
         UNCHANGED <<protocol, rev, outrun, pipe, vector, reply, revision, reading, awaited,
                     reconciled, correcting>>,
         requested' \in BOOLEAN, requested => requested',
         socket' \in {"none", "opening", "open"}, socket' = "open" <=> socket = "open",
         socket' = "none" => reopening' \/ ~active', reopening' => socket' = "none",
         reopening' \in BOOLEAN, active' \in BOOLEAN, outages' \in 0 .. MaxOutages
  PROVE  LiveInvariant'
<1>1. LiveTypeOK'
  BY DEF LiveInvariant, LiveTypeOK
<1>2. SocketReplaced'
  BY DEF LiveInvariant, SocketReplaced
<1>3. NothingAhead'
  BY DEF LiveInvariant, NothingAhead
<1>4. NewsComes'
  <2>1. VectorNews => VectorNews'
    BY DEF VectorNews, Corrections
  <2>2. PipeNews => PipeNews'
    BY DEF PipeNews, Corrections
  <2>3. ReadNews => ReadNews'
    BY DEF ReadNews
  <2>. QED BY <2>1, <2>2, <2>3 DEF LiveInvariant, NewsComes
<1>. QED BY <1>1, <1>2, <1>3, <1>4 DEF LiveInvariant

LEMMA PageKeeps ==
  ASSUME LiveInvariant, Reopen \/ Hide \/ Show
  PROVE  LiveInvariant'
<1>1. /\ requested \in BOOLEAN /\ reopening \in BOOLEAN /\ active \in BOOLEAN
      /\ outages \in 0 .. MaxOutages /\ socket \in {"none", "opening", "open"}
      /\ socket = "none" => reopening \/ ~active
      /\ reopening => socket = "none"
  BY DEF LiveInvariant, LiveTypeOK, SocketReplaced
<1>2. CASE Reopen
  <2>1. /\ reopening /\ reopening' = FALSE
        /\ socket' = IF active /\ socket = "none" THEN "opening" ELSE socket
        /\ UNCHANGED <<protocol, rev, outrun, pipe, vector, reply, revision, requested, reading,
                       awaited, reconciled, correcting, active, outages>>
    BY <1>2 DEF Reopen, serverVars, wireVars, scheduleVars
  <2>2. /\ socket' \in {"none", "opening", "open"} /\ socket' = "open" <=> socket = "open"
        /\ socket' = "none" => ~active'
    BY <1>1, <2>1
  <2>. QED BY <1>1, <2>1, <2>2, ConnectionKeeps
<1>3. CASE Hide
  <2>1. /\ Outage /\ active' = FALSE
        /\ UNCHANGED <<protocol, rev, outrun, reply, revision, requested, reading, awaited,
                       reopening>>
    BY <1>3 DEF Hide, serverVars, scheduleVars
  <2>2. outages' \in 0 .. MaxOutages
    BY <2>1, OutageType DEF LiveInvariant
  <2>3. CASE CloseSocket
    BY <1>1, <2>1, <2>2, <2>3, ClosedKeeps
  <2>4. CASE UNCHANGED <<socket, reconciled, correcting, pipe, vector>>
    BY <1>1, <2>1, <2>2, <2>4, ConnectionKeeps
  <2>. QED BY <1>3, <2>3, <2>4 DEF Hide
<1>4. CASE Show
  <2>1. /\ active' = TRUE
        /\ socket' = IF socket = "none" /\ ~reopening THEN "opening" ELSE socket
        /\ requested' = (requested \/ (~SocketOnly /\ ~Healthy))
        /\ UNCHANGED <<protocol, rev, outrun, pipe, vector, reply, revision, reading, awaited,
                       reconciled, correcting, reopening, outages>>
    BY <1>4 DEF Show, serverVars, wireVars
  <2>2. /\ socket' \in {"none", "opening", "open"} /\ socket' = "open" <=> socket = "open"
        /\ socket' = "none" => reopening'
        /\ reopening' => socket' = "none"
    BY <1>1, <2>1
  <2>3. requested' \in BOOLEAN /\ (requested => requested')
    BY <2>1
  <2>. QED BY <1>1, <2>1, <2>2, <2>3, ConnectionKeeps
<1>. QED BY <1>2, <1>3, <1>4

\* The server makes a revision: what is not ahead stays so.
LEMMA RevisionMadeKeeps ==
  ASSUME LiveInvariant, rev <= MaxRevisions, rev' = rev + 1, reply' \in {reply, rev'},
         outrun' \in BOOLEAN,
         UNCHANGED <<protocol, vector, revision, requested, reading, awaited, socket, reconciled,
                     correcting, reopening, active, outages>>,
         \/ UNCHANGED pipe
         \/ /\ socket = "open"
            /\ \E e \in Event : e.revision = rev' /\ pipe' = Append(pipe, e)
  PROVE  LiveTypeOK' /\ SocketReplaced' /\ NothingAhead'
<1>1. LiveTypeOK /\ ServerTyped /\ ScheduleTyped /\ PageTyped
  BY TypeParts DEF LiveInvariant
<1>2. /\ rev \in Nat \ {0} /\ revision \in Nat /\ reply \in Nat /\ awaited \in Nat
      /\ reading.started \in Nat /\ reading.answer \in Nat
      /\ vector.client \in Nat /\ vector.read \in Nat
      /\ pipe \in Seq(Event) /\ Len(pipe) \in Nat
      /\ \A i \in 1 .. Len(pipe) : pipe[i] \in Event /\ pipe[i].revision \in Nat
  BY <1>1, Numbers
<1>3. rev' \in Rev
  BY <1>2, LiveClientAssumption DEF Rev
<1>4. /\ pipe' \in Seq(Event)
      /\ \A i \in 1 .. Len(pipe') : pipe'[i].revision <= rev'
  <2>1. \A i \in 1 .. Len(pipe) : pipe[i].revision <= rev
    BY DEF LiveInvariant, NothingAhead
  <2>2. CASE UNCHANGED pipe
    BY <1>2, <2>1, <2>2
  <2>3. CASE \E e \in Event : e.revision = rev' /\ pipe' = Append(pipe, e)
    <3>1. PICK e \in Event : e.revision = rev' /\ pipe' = Append(pipe, e)
      BY <2>3
    <3>2. /\ pipe' \in Seq(Event) /\ Len(pipe') = Len(pipe) + 1
          /\ \A i \in 1 .. Len(pipe) : pipe'[i] = pipe[i]
          /\ pipe'[Len(pipe) + 1] = e
      BY <1>2, <3>1, AppendStep
    <3>. SUFFICES ASSUME NEW i \in 1 .. Len(pipe') PROVE pipe'[i].revision <= rev'
      BY <3>2
    <3>3. CASE i = Len(pipe) + 1
      BY <1>2, <3>1, <3>2, <3>3
    <3>4. CASE i \in 1 .. Len(pipe)
      BY <1>2, <2>1, <3>2, <3>4
    <3>. QED BY <1>2, <3>2, <3>3, <3>4
  <2>. QED BY <2>2, <2>3
<1>5. LiveTypeOK'
  <2>1. ServerTyped'
    BY <1>1, <1>3, <1>4 DEF ServerTyped
  <2>2. ScheduleTyped'
    BY <1>1 DEF ScheduleTyped
  <2>3. PageTyped'
    BY <1>1 DEF PageTyped
  <2>. QED BY <2>1, <2>2, <2>3, TypePartsNext
<1>6. SocketReplaced'
  BY DEF LiveInvariant, SocketReplaced
<1>7. NothingAhead'
  BY <1>2, <1>4 DEF LiveInvariant, NothingAhead
<1>. QED BY <1>5, <1>6, <1>7

LEMMA BroadcastKeeps ==
  ASSUME LiveInvariant, Broadcast
  PROVE  LiveInvariant'
<1>1. PICK e \in {Delta(rev'), [type |-> "status-reconcile", revision |-> rev']} : Send(e)
  BY DEF Broadcast
<1>2. /\ rev <= MaxRevisions /\ rev' = rev + 1 /\ reply' \in {reply, rev'} /\ outrun' = FALSE
      /\ UNCHANGED <<protocol, vector, revision, requested, reading, awaited, socket, reconciled,
                     correcting, reopening, active, outages>>
  BY DEF Broadcast, scheduleVars, connectionVars
<1>3. rev \in Nat /\ pipe \in Seq(Event) /\ Len(pipe) \in Nat
  BY Numbers DEF LiveInvariant
<1>4. e \in Event /\ e.revision = rev' /\ e.type # "state-correction"
  BY <1>2, <1>3, LiveClientAssumption DEF Delta, Event, Rev
<1>5. IF socket = "open" THEN pipe' = Append(pipe, e) ELSE pipe' = pipe
  BY <1>1 DEF Send
<1>6. LiveTypeOK' /\ SocketReplaced' /\ NothingAhead'
  BY <1>2, <1>4, <1>5, RevisionMadeKeeps
<1>7. NewsComes'
  <2>1. CASE socket = "open"
    <3>1. Len(pipe') = Len(pipe) + 1 /\ pipe'[Len(pipe) + 1] = e
      BY <1>3, <1>4, <1>5, <2>1, AppendStep
    <3>2. PipeNews'
      BY <1>3, <1>4, <3>1 DEF PipeNews
    <3>. QED BY <3>2 DEF NewsComes
  <2>2. CASE socket # "open"
    BY <1>2, <2>2 DEF NewsComes
  <2>. QED BY <2>1, <2>2
<1>. QED BY <1>6, <1>7 DEF LiveInvariant

LEMMA QuietKeeps ==
  ASSUME LiveInvariant, ReconcileQuietly
  PROVE  LiveInvariant'
<1>1. /\ rev <= MaxRevisions /\ rev' = rev + 1 /\ outrun' = TRUE
      /\ UNCHANGED <<protocol, pipe, vector, reply, revision, requested, reading, awaited, socket,
                     reconciled, correcting, reopening, active, outages>>
  BY DEF ReconcileQuietly, wireVars, scheduleVars, connectionVars
<1>2. LiveTypeOK' /\ SocketReplaced' /\ NothingAhead'
  BY <1>1, RevisionMadeKeeps
<1>3. NewsComes'
  BY <1>1 DEF NewsComes
<1>. QED BY <1>2, <1>3 DEF LiveInvariant

LEMMA ReadSnapshotKeeps ==
  ASSUME LiveInvariant, ReadSnapshot
  PROVE  LiveInvariant'
<1>1. LiveTypeOK /\ ServerTyped /\ ScheduleTyped /\ PageTyped
  BY TypeParts DEF LiveInvariant
<1>2. /\ vector.at = "sent"
      /\ UNCHANGED <<protocol, rev, outrun, pipe, reply, revision, requested, reading, awaited,
                     socket, reconciled, correcting, reopening, active, outages>>
  BY DEF ReadSnapshot, scheduleVars, connectionVars
<1>3. /\ vector' \in [at : {"none", "sent", "read"}, client : Rev \cup {Unknown},
                      read : Rev \cup {Unknown}]
      /\ vector'.at = "read" /\ vector'.client = vector.client /\ vector'.read = rev
  BY <1>1 DEF ReadSnapshot, ServerTyped
<1>4. rev \in Nat /\ rev # Unknown
  BY <1>1, Numbers DEF Unknown
<1>5. LiveTypeOK'
  <2>1. ServerTyped'
    BY <1>1, <1>2, <1>3 DEF ServerTyped
  <2>2. ScheduleTyped'
    BY <1>1, <1>2 DEF ScheduleTyped
  <2>3. PageTyped'
    BY <1>1, <1>2 DEF PageTyped
  <2>. QED BY <2>1, <2>2, <2>3, TypePartsNext
<1>6. SocketReplaced'
  BY <1>2 DEF LiveInvariant, SocketReplaced, NoVector
<1>7. NothingAhead'
  BY <1>2, <1>3, <1>4 DEF LiveInvariant, NothingAhead
<1>8. NewsComes'
  <2>1. VectorNews => VectorNews'
    BY <1>2, <1>3 DEF VectorNews, Corrections
  <2>2. PipeNews => PipeNews'
    BY <1>2 DEF PipeNews, Corrections
  <2>3. ReadNews => ReadNews'
    BY <1>2 DEF ReadNews
  <2>. QED BY <1>2, <2>1, <2>2, <2>3 DEF LiveInvariant, NewsComes
<1>. QED BY <1>5, <1>6, <1>7, <1>8 DEF LiveInvariant

\* The answer to the state vector goes behind everything on the socket.
LEMMA AppendedNews ==
  ASSUME Len(pipe) \in Nat, Len(pipe') \in Nat, Len(pipe) <= Len(pipe'),
         \A i \in 1 .. Len(pipe) : pipe'[i] = pipe[i],
         UNCHANGED <<protocol, rev, correcting>>, PipeNews
  PROVE  PipeNews'
<1>2. PICK i \in 1 .. Len(pipe) :
        /\ pipe[i].revision = rev
        /\ pipe[i].type = "state-correction"
             => protocol = 1 /\ correcting /\ \A j \in Corrections : i <= j
  BY DEF PipeNews
<1>3. i \in 1 .. Len(pipe') /\ pipe'[i] = pipe[i]
  OBVIOUS
<1>4. ASSUME pipe[i].type = "state-correction", NEW j \in Corrections'
      PROVE  i <= j
  <2>1. j \in 1 .. Len(pipe') /\ pipe'[j].type = "state-correction"
    BY DEF Corrections
  <2>2. CASE j \in 1 .. Len(pipe)
    BY <1>2, <1>4, <2>1, <2>2 DEF Corrections
  <2>3. CASE ~(j \in 1 .. Len(pipe))
    BY <2>1, <2>3
  <2>. QED BY <2>2, <2>3
<1>5. CASE pipe[i].type = "state-correction"
  <2>1. protocol' = 1 /\ correcting'
    <3>1. protocol = 1 /\ correcting
      BY <1>2, <1>5
    <3>. QED BY <3>1
  <2>2. pipe'[i].revision = rev'
    BY <1>2, <1>3
  <2>3. \A j \in Corrections' : i <= j
    BY <1>4, <1>5
  <2>. QED BY <1>3, <2>1, <2>2, <2>3 DEF PipeNews
<1>6. CASE pipe[i].type # "state-correction"
  BY <1>2, <1>3, <1>6 DEF PipeNews
<1>. QED BY <1>5, <1>6

LEMMA SendSnapshotKeeps ==
  ASSUME LiveInvariant, SendSnapshot
  PROVE  LiveInvariant'
<1>. DEFINE correction == [type |-> "state-correction", revision |-> vector.read]
            snapshot == [type |-> "status-snapshot", revision |-> vector.read]
            needed == protocol = 2 /\ vector.client # vector.read
<1>1. LiveTypeOK /\ ServerTyped /\ ScheduleTyped /\ PageTyped
  BY TypeParts DEF LiveInvariant
<1>2. /\ vector.at = "read" /\ vector' = NoVector
      /\ pipe' = pipe \o (IF needed THEN <<snapshot, correction>> ELSE <<correction>>)
      /\ UNCHANGED <<protocol, rev, outrun, reply, revision, requested, reading, awaited,
                     socket, reconciled, correcting, reopening, active, outages>>
  BY DEF SendSnapshot, SnapshotRead, serverVars, scheduleVars, connectionVars
<1>3. /\ rev \in Nat \ {0} /\ revision \in Nat /\ vector.client \in Nat /\ vector.read \in Nat
      /\ pipe \in Seq(Event) /\ Len(pipe) \in Nat
      /\ \A i \in 1 .. Len(pipe) : pipe[i] \in Event /\ pipe[i].revision \in Nat
  BY <1>1, Numbers
<1>4. vector.read \in Rev
  BY <1>1, <1>2 DEF LiveInvariant, NothingAhead, ServerTyped
<1>5. correction \in Event /\ snapshot \in Event
  BY <1>4 DEF Event
\* Where the events are.
<1>6. /\ pipe' \in Seq(Event) /\ Len(pipe') \in Nat /\ Len(pipe) < Len(pipe')
      /\ \A i \in 1 .. Len(pipe) : pipe'[i] = pipe[i]
      /\ \A i \in Len(pipe) + 1 .. Len(pipe') :
            /\ pipe'[i] \in {snapshot, correction}
            /\ pipe'[i] = correction => i = Len(pipe')
      /\ pipe'[Len(pipe')] = correction
      /\ needed => pipe'[Len(pipe) + 1] = snapshot
  <2>. HIDE DEF correction, snapshot
  <2>0. correction # snapshot
    BY DEF correction, snapshot
  <2>1. CASE needed
    <3>1. pipe' = Append(Append(pipe, snapshot), correction)
      BY <1>2, <1>3, <1>5, <2>1, ConcatStep
    <3>. DEFINE one == Append(pipe, snapshot)
    <3>2. /\ one \in Seq(Event) /\ Len(one) = Len(pipe) + 1
          /\ \A i \in 1 .. Len(pipe) : one[i] = pipe[i]
          /\ one[Len(pipe) + 1] = snapshot
      BY <1>3, <1>5, AppendStep
    <3>. HIDE DEF one
    <3>3. /\ pipe' \in Seq(Event) /\ Len(pipe') = Len(one) + 1
          /\ \A i \in 1 .. Len(one) : pipe'[i] = one[i]
          /\ pipe'[Len(one) + 1] = correction
      BY <1>5, <3>1, <3>2, AppendStep DEF one
    <3>4. \A i \in 1 .. Len(pipe) : pipe'[i] = pipe[i]
      BY <1>3, <3>2, <3>3
    <3>5. pipe'[Len(pipe) + 1] = snapshot /\ pipe'[Len(pipe) + 2] = correction
      BY <1>3, <3>2, <3>3
    <3>6. Len(pipe') = Len(pipe) + 2
      BY <1>3, <3>2, <3>3
    <3>7. \A i \in Len(pipe) + 1 .. Len(pipe') : i = Len(pipe) + 1 \/ i = Len(pipe) + 2
      BY <1>3, <3>6
    <3>. QED BY <1>3, <2>0, <2>1, <3>3, <3>4, <3>5, <3>6, <3>7
  <2>2. CASE ~needed
    <3>1. pipe' = Append(pipe, correction)
      BY <1>2, <1>3, <1>5, <2>2, ConcatStep
    <3>2. /\ pipe' \in Seq(Event) /\ Len(pipe') = Len(pipe) + 1
          /\ \A i \in 1 .. Len(pipe) : pipe'[i] = pipe[i]
          /\ pipe'[Len(pipe) + 1] = correction
      BY <1>3, <1>5, <3>1, AppendStep
    <3>3. \A i \in Len(pipe) + 1 .. Len(pipe') : i = Len(pipe) + 1
      BY <1>3, <3>2
    <3>. QED BY <1>3, <2>2, <3>2, <3>3
  <2>. QED BY <2>1, <2>2
<1>7. LiveTypeOK'
  <2>0. vector' \in [at : {"none", "sent", "read"}, client : Rev \cup {Unknown},
                     read : Rev \cup {Unknown}]
    BY <1>2 DEF NoVector
  <2>1. ServerTyped'
    BY <1>1, <1>2, <1>6, <2>0 DEF ServerTyped
  <2>2. ScheduleTyped'
    BY <1>1, <1>2 DEF ScheduleTyped
  <2>3. PageTyped'
    BY <1>1, <1>2 DEF PageTyped
  <2>. QED BY <2>1, <2>2, <2>3, TypePartsNext
<1>8. SocketReplaced'
  BY <1>2 DEF LiveInvariant, SocketReplaced, NoVector
<1>9. NothingAhead'
  <2>1. \A i \in 1 .. Len(pipe') : pipe'[i].revision <= rev
    <3>1. vector.read <= rev
      BY DEF LiveInvariant, NothingAhead
    <3>2. \A i \in Len(pipe) + 1 .. Len(pipe') : pipe'[i].revision = vector.read
      BY <1>6
    <3>3. \A i \in 1 .. Len(pipe) : pipe'[i].revision <= rev
      BY <1>6 DEF LiveInvariant, NothingAhead
    <3>4. \A i \in 1 .. Len(pipe') : i \in 1 .. Len(pipe) \/ i \in Len(pipe) + 1 .. Len(pipe')
      BY <1>3, <1>6
    <3>. QED BY <3>1, <3>2, <3>3, <3>4
  <2>2. vector'.read = 0 /\ vector'.client = 0 /\ vector'.at = "none"
    BY <1>2 DEF NoVector, Unknown
  <2>. QED BY <1>2, <1>3, <2>1, <2>2 DEF LiveInvariant, NothingAhead
<1>10. NewsComes'
  <2>1. PipeNews => PipeNews'
    BY <1>2, <1>3, <1>6, AppendedNews
  <2>2. ReadNews => ReadNews'
    BY <1>2 DEF ReadNews
  <2>3. VectorNews => PipeNews' \/ revision' = rev'
    <3>. SUFFICES ASSUME VectorNews PROVE PipeNews' \/ revision' = rev'
      OBVIOUS
    <3>1. vector.read = rev
      BY <1>2 DEF VectorNews
    <3>2. CASE protocol = 2 /\ needed
      <4>1. pipe'[Len(pipe) + 1].revision = rev' /\ pipe'[Len(pipe) + 1].type = "status-snapshot"
        BY <1>2, <1>6, <3>1, <3>2
      <4>2. Len(pipe) + 1 \in 1 .. Len(pipe')
        BY <1>3, <1>6
      <4>. QED BY <4>1, <4>2 DEF PipeNews
    <3>3. CASE protocol = 2 /\ ~needed
      <4>1. vector.client = rev /\ vector.client <= revision
        BY <3>1, <3>3 DEF VectorNews
      <4>2. revision <= rev
        BY DEF LiveInvariant, NothingAhead
      <4>3. revision = rev
        BY <1>3, <4>1, <4>2
      <4>. QED BY <1>2, <4>3
    <3>4. CASE protocol # 2
      <4>1. protocol = 1 /\ correcting /\ Corrections = {}
        BY <1>1, <3>4 DEF VectorNews, ServerTyped
      <4>2. protocol' = 1 /\ correcting'
        BY <1>2, <4>1
      <4>3. Len(pipe') \in 1 .. Len(pipe') /\ pipe'[Len(pipe')].revision = rev'
        BY <1>2, <1>3, <1>6, <3>1
      <4>4. \A j \in Corrections' : Len(pipe') <= j
        <5>. SUFFICES ASSUME NEW j \in Corrections' PROVE Len(pipe') <= j
          OBVIOUS
        <5>1. j \in 1 .. Len(pipe') /\ pipe'[j].type = "state-correction"
          BY DEF Corrections
        <5>2. ~(j \in 1 .. Len(pipe))
          BY <1>6, <4>1, <5>1 DEF Corrections
        <5>3. j \in Len(pipe) + 1 .. Len(pipe')
          BY <1>3, <1>6, <5>1, <5>2
        <5>4. j = Len(pipe')
          BY <1>6, <5>1, <5>3
        <5>. QED BY <1>6, <5>4
      <4>. QED BY <4>2, <4>3, <4>4 DEF PipeNews
    <3>. QED BY <3>2, <3>3, <3>4
  <2>. QED BY <1>2, <2>1, <2>2, <2>3 DEF LiveInvariant, NewsComes
<1>. QED BY <1>7, <1>8, <1>9, <1>10 DEF LiveInvariant

-----------------------------------------------------------------------------
(* The client's steps.                                                     *)

\* A step of the schedule leaves the server, the wire and the page alone.
LEMMA ScheduleKeeps ==
  ASSUME LiveInvariant,
         UNCHANGED <<protocol, rev, pipe, vector, socket, reconciled, correcting, reopening,
                     active>>,
         ScheduleTyped', reply' \in {reply, Unknown}, outages' \in 0 .. MaxOutages,
         outrun' \in BOOLEAN,
         revision <= revision', revision' <= rev, awaited' <= rev,
         reading'.started <= rev, reading'.answer <= rev,
         reading'.at = "answered" => reading'.started <= reading'.answer,
         reading'.at = "none" => reading' = NotAsked,
         outrun => outrun',
         outrun' \/ revision' = rev \/ (ReadNews => ReadNews')
  PROVE  LiveInvariant'
<1>1. LiveTypeOK /\ ServerTyped /\ PageTyped
  BY TypeParts DEF LiveInvariant
<1>2. rev \in Nat \ {0} /\ revision \in Nat /\ vector.client \in Nat
  BY <1>1, Numbers
<1>3. revision' \in Nat
  BY RevType DEF ScheduleTyped
<1>4. LiveTypeOK'
  <2>1. ServerTyped'
    BY <1>1 DEF ServerTyped
  <2>2. PageTyped'
    BY <1>1 DEF PageTyped
  <2>. QED BY <2>1, <2>2, TypePartsNext
<1>5. SocketReplaced'
  BY DEF LiveInvariant, SocketReplaced
<1>6. NothingAhead'
  BY <1>2 DEF LiveInvariant, NothingAhead, Unknown
<1>7. NewsComes'
  <2>1. VectorNews => VectorNews'
    <3>1. vector.client <= revision => vector.client <= revision'
      BY <1>2, <1>3
    <3>2. Corrections' = Corrections
      BY DEF Corrections
    <3>. QED BY <3>1, <3>2 DEF VectorNews
  <2>2. PipeNews => PipeNews'
    BY DEF PipeNews, Corrections
  <2>3. revision = rev => revision' = rev
    BY <1>2, <1>3
  <2>. QED BY <2>1, <2>2, <2>3 DEF LiveInvariant, NewsComes
<1>. QED BY <1>4, <1>5, <1>6, <1>7 DEF LiveInvariant

LEMMA BoundsNow ==
  ASSUME LiveInvariant
  PROVE  /\ ScheduleTyped /\ rev \in Nat \ {0} /\ revision \in Nat /\ awaited \in Nat
         /\ reply \in Nat /\ reading.started \in Nat /\ reading.answer \in Nat
         /\ reply \in {reply, Unknown} /\ outages \in 0 .. MaxOutages /\ outrun \in BOOLEAN
         /\ revision <= rev /\ awaited <= rev /\ reply <= rev
         /\ reading.started <= rev /\ reading.answer <= rev
         /\ reading.at = "answered" => reading.started <= reading.answer
         /\ reading.at = "none" => reading = NotAsked
<1>1. LiveTypeOK /\ ScheduleTyped /\ PageTyped
  BY TypeParts DEF LiveInvariant
<1>2. /\ rev \in Nat \ {0} /\ revision \in Nat /\ awaited \in Nat /\ reply \in Nat
      /\ reading.started \in Nat /\ reading.answer \in Nat
  BY <1>1, Numbers
<1>3. outages \in 0 .. MaxOutages /\ outrun \in BOOLEAN
  BY <1>1 DEF PageTyped
<1>. QED BY <1>1, <1>2, <1>3 DEF LiveInvariant, NothingAhead

LEMMA AskKeeps ==
  ASSUME LiveInvariant, Sweep \/ Poll
  PROVE  LiveInvariant'
<1>1. /\ reading = NotAsked
      /\ reading' = [at |-> "asked", started |-> revision, answer |-> Unknown]
      /\ requested' \in BOOLEAN
      /\ UNCHANGED <<protocol, rev, outrun, pipe, vector, reply, revision, awaited, socket,
                     reconciled, correcting, reopening, active, outages>>
  BY BoundsNow DEF Sweep, Poll, serverVars, wireVars, connectionVars, ScheduleTyped
<1>2. /\ ScheduleTyped /\ rev \in Nat \ {0} /\ revision \in Nat /\ awaited \in Nat
      /\ reply \in {reply, Unknown} /\ outages \in 0 .. MaxOutages /\ outrun \in BOOLEAN
      /\ revision <= rev /\ awaited <= rev
  BY BoundsNow
<1>3. /\ reading'.at = "asked" /\ reading'.started = revision /\ reading'.answer = 0
      /\ reading' \in [at : {"none", "asked", "answered"}, started : Rev \cup {Unknown},
                       answer : Rev \cup {Unknown}]
  BY <1>1, <1>2 DEF ScheduleTyped, Unknown
<1>4. ScheduleTyped'
  BY <1>1, <1>2, <1>3 DEF ScheduleTyped
<1>5. ReadNews'
  BY <1>3 DEF ReadNews
<1>6. revision <= revision' /\ reading'.answer <= rev
  BY <1>1, <1>2, <1>3
<1>. QED BY <1>1, <1>2, <1>3, <1>4, <1>5, <1>6, ScheduleKeeps

LEMMA AnswerKeeps ==
  ASSUME LiveInvariant, Answer
  PROVE  LiveInvariant'
<1>1. /\ reading.at = "asked"
      /\ reading' = [reading EXCEPT !.at = "answered", !.answer = rev]
      /\ UNCHANGED <<protocol, rev, outrun, pipe, vector, reply, revision, requested, awaited,
                     socket, reconciled, correcting, reopening, active, outages>>
  BY DEF Answer, serverVars, wireVars, connectionVars
<1>2. /\ ScheduleTyped /\ rev \in Nat \ {0} /\ revision \in Nat /\ awaited \in Nat
      /\ reply \in {reply, Unknown} /\ outages \in 0 .. MaxOutages /\ outrun \in BOOLEAN
      /\ revision <= rev /\ awaited <= rev /\ reading.started <= rev
  BY BoundsNow
<1>3. rev \in Rev
  BY DEF LiveInvariant, LiveTypeOK
<1>4. /\ reading'.at = "answered" /\ reading'.started = reading.started /\ reading'.answer = rev
      /\ reading' \in [at : {"none", "asked", "answered"}, started : Rev \cup {Unknown},
                       answer : Rev \cup {Unknown}]
  BY <1>1, <1>2, <1>3 DEF ScheduleTyped
<1>5. ScheduleTyped'
  BY <1>1, <1>2, <1>4 DEF ScheduleTyped
<1>6. ReadNews'
  BY <1>1, <1>4 DEF ReadNews
<1>7. revision <= revision' /\ reading'.answer <= rev
  BY <1>1, <1>2, <1>4
<1>. QED BY <1>1, <1>2, <1>4, <1>5, <1>6, <1>7, ScheduleKeeps

\* A read ends, with the status it brought or without.
LEMMA FinishKeeps ==
  ASSUME LiveInvariant, FinishRead, reading # NotAsked,
         UNCHANGED <<protocol, rev, pipe, vector, reply, socket, reconciled, correcting, reopening,
                     active>>,
         outages' \in 0 .. MaxOutages, outrun' \in BOOLEAN, outrun => outrun',
         revision' \in {revision, reading.answer}, revision <= revision', revision' <= rev,
         outrun' \/ (reading.at = "answered" /\ reading.answer <= revision')
  PROVE  LiveInvariant'
<1>1. /\ ScheduleTyped /\ rev \in Nat \ {0} /\ revision \in Nat /\ awaited \in Nat
      /\ reading.answer \in Nat
      /\ revision <= rev /\ awaited <= rev /\ reading.answer <= rev
  BY BoundsNow
<1>2. /\ reading' = NotAsked /\ awaited' = 0
      /\ requested' = (requested \/ revision' < awaited)
  BY DEF FinishRead, Unknown
<1>3. ScheduleTyped'
  BY <1>1, <1>2 DEF ScheduleTyped, NotAsked, Unknown
<1>4. reading'.at = "none" /\ reading'.started = 0 /\ reading'.answer = 0
  BY <1>2 DEF NotAsked, Unknown
<1>5. ASSUME ~outrun', ReadNews, revision' # rev
      PROVE  ReadNews'
  <2>1. reading.at = "answered" /\ reading.answer <= revision'
    BY <1>5
  <2>2. revision' \in Nat /\ revision' < rev
    BY <1>1, <1>5
  <2>3. requested \/ awaited = rev
    BY <1>1, <1>5, <2>1, <2>2 DEF ReadNews
  <2>4. requested'
    BY <1>2, <2>2, <2>3
  <2>. QED BY <2>4 DEF ReadNews
<1>6. reply' \in {reply, Unknown}
  OBVIOUS
<1>7. awaited' <= rev /\ reading'.started <= rev /\ reading'.answer <= rev
  BY <1>1, <1>2, <1>4
<1>. QED BY <1>2, <1>3, <1>4, <1>5, <1>6, <1>7, ScheduleKeeps

LEMMA ReadEndKeeps ==
  ASSUME LiveInvariant, ApplyRead \/ FailRead
  PROVE  LiveInvariant'
<1>1. /\ ScheduleTyped /\ rev \in Nat \ {0} /\ revision \in Nat /\ reading.answer \in Nat
      /\ reading.started \in Nat
      /\ outages \in 0 .. MaxOutages /\ outrun \in BOOLEAN
      /\ revision <= rev /\ reading.answer <= rev
      /\ reading.at = "answered" => reading.started <= reading.answer
  BY BoundsNow
<1>2. CASE ApplyRead
  <2>1. /\ reading.at = "answered" /\ FinishRead
        /\ revision' = IF revision = reading.started THEN reading.answer ELSE revision
        /\ outrun' = (outrun \/ revision' < reading.answer)
        /\ UNCHANGED <<protocol, rev, pipe, vector, reply, socket, reconciled, correcting,
                       reopening, active, outages>>
    BY <1>2 DEF ApplyRead, wireVars, connectionVars
  <2>2. reading # NotAsked
    BY <2>1 DEF NotAsked
  <2>3. /\ revision' \in {revision, reading.answer} /\ revision <= revision' /\ revision' <= rev
        /\ revision' \in Nat
    BY <1>1, <2>1
  <2>4. outrun' \in BOOLEAN /\ (outrun => outrun') /\ (outrun' \/ reading.answer <= revision')
    <3>1. CASE revision' < reading.answer
      BY <2>1, <3>1
    <3>2. CASE ~(revision' < reading.answer)
      <4>1. outrun' = outrun
        BY <1>1, <2>1, <3>2
      <4>. QED BY <1>1, <2>3, <3>2, <4>1
    <3>. QED BY <3>1, <3>2
  <2>. QED BY <1>1, <2>1, <2>2, <2>3, <2>4, FinishKeeps
<1>3. CASE FailRead
  <2>1. /\ reading # NotAsked /\ Outage /\ FinishRead /\ outrun' = TRUE
        /\ UNCHANGED <<protocol, rev, pipe, vector, reply, revision, socket, reconciled,
                       correcting, reopening, active>>
    BY <1>3 DEF FailRead, wireVars, connectionVars
  <2>2. outages' \in 0 .. MaxOutages
    BY <2>1, OutageType DEF LiveInvariant
  <2>3. revision <= revision' /\ revision' <= rev
    BY <1>1, <2>1
  <2>. QED BY <2>1, <2>2, <2>3, FinishKeeps
<1>. QED BY <1>2, <1>3

\* A delta is applied, is known, or leaves a request.
LEMMA DeltaStep ==
  ASSUME LiveInvariant, NEW to \in Rev, to <= rev, ApplyDelta(to)
  PROVE  /\ revision' \in Rev \cup {Unknown} /\ requested' \in BOOLEAN
         /\ revision <= revision' /\ revision' <= rev /\ revision' \in Nat
         /\ requested => requested'
         /\ to = rev => revision' = rev \/ requested'
<1>1. /\ ScheduleTyped /\ rev \in Nat \ {0} /\ revision \in Nat /\ revision <= rev
  BY BoundsNow
<1>2. to \in Nat
  BY RevType
<1>3. CASE revision = to - 1
  <2>1. revision' = to /\ requested' = requested
    BY <1>3 DEF ApplyDelta
  <2>2. revision <= revision' /\ revision' <= rev
    BY <1>1, <1>2, <1>3, <2>1
  <2>. QED BY <1>1, <1>2, <2>1, <2>2 DEF ScheduleTyped
<1>4. CASE revision # to - 1
  <2>1. revision' = revision /\ requested' = (requested \/ revision # to)
    BY <1>4 DEF ApplyDelta
  <2>2. requested' \in BOOLEAN /\ (requested => requested') /\ (revision # to => requested')
    BY <2>1
  <2>. QED BY <1>1, <2>1, <2>2 DEF ScheduleTyped
<1>. QED BY <1>3, <1>4

LEMMA ReplyKeeps ==
  ASSUME LiveInvariant, Reply
  PROVE  LiveInvariant'
<1>1. /\ reply # Unknown /\ reply' = Unknown /\ ApplyDelta(reply)
      /\ UNCHANGED <<protocol, rev, outrun, pipe, vector, reading, awaited, socket, reconciled,
                     correcting, reopening, active, outages>>
  BY DEF Reply, serverVars, wireVars, connectionVars
<1>2. reply \in Rev
  BY <1>1 DEF LiveInvariant, LiveTypeOK
<1>3. /\ ScheduleTyped /\ outages \in 0 .. MaxOutages /\ outrun \in BOOLEAN
      /\ awaited <= rev /\ reply <= rev /\ reading.started <= rev /\ reading.answer <= rev
      /\ reading.at = "answered" => reading.started <= reading.answer
      /\ reading.at = "none" => reading = NotAsked
  BY BoundsNow
<1>4. /\ revision' \in Rev \cup {Unknown} /\ requested' \in BOOLEAN
      /\ revision <= revision' /\ revision' <= rev /\ (requested => requested')
  BY <1>1, <1>2, <1>3, DeltaStep
<1>5. ScheduleTyped'
  BY <1>1, <1>3, <1>4 DEF ScheduleTyped
<1>6. ReadNews => ReadNews'
  BY <1>1, <1>4 DEF ReadNews
<1>. QED BY <1>1, <1>3, <1>4, <1>5, <1>6, ScheduleKeeps

LEMMA OpenedKeeps ==
  ASSUME LiveInvariant, Opened
  PROVE  LiveInvariant'
<1>1. LiveTypeOK /\ ServerTyped /\ ScheduleTyped /\ PageTyped
  BY TypeParts DEF LiveInvariant
<1>2. /\ socket = "opening" /\ socket' = "open" /\ correcting' = TRUE /\ reconciled' = FALSE
      /\ vector' = [at |-> "sent", client |-> revision, read |-> Unknown]
      /\ UNCHANGED <<protocol, rev, outrun, pipe, reply, revision, requested, reading, awaited,
                     reopening, active, outages>>
  BY DEF Opened, serverVars, scheduleVars
<1>3. pipe = <<>> /\ ~reopening
  BY <1>2 DEF LiveInvariant, SocketReplaced
<1>4. rev \in Nat \ {0} /\ revision \in Nat /\ revision <= rev
  BY BoundsNow
<1>5. /\ vector' \in [at : {"none", "sent", "read"}, client : Rev \cup {Unknown},
                      read : Rev \cup {Unknown}]
      /\ vector'.at = "sent" /\ vector'.client = revision /\ vector'.read = 0
  BY <1>1, <1>2 DEF ScheduleTyped, Unknown
<1>6. LiveTypeOK'
  <2>1. ServerTyped'
    BY <1>1, <1>2, <1>5 DEF ServerTyped
  <2>2. ScheduleTyped'
    BY <1>1, <1>2 DEF ScheduleTyped
  <2>3. PageTyped'
    BY <1>1, <1>2 DEF PageTyped
  <2>. QED BY <2>1, <2>2, <2>3, TypePartsNext
<1>7. SocketReplaced'
  <2>1. reopening' = FALSE
    BY <1>1, <1>2, <1>3 DEF PageTyped
  <2>. QED BY <1>2, <2>1 DEF SocketReplaced
<1>8. NothingAhead'
  BY <1>2, <1>4, <1>5 DEF LiveInvariant, NothingAhead
<1>9. VectorNews'
  <2>1. Corrections' = {}
    BY <1>2, <1>3 DEF Corrections
  <2>2. vector'.client <= revision'
    BY <1>2, <1>4, <1>5
  <2>. QED BY <1>2, <1>5, <2>1, <2>2 DEF VectorNews
<1>. QED BY <1>6, <1>7, <1>8, <1>9 DEF LiveInvariant, NewsComes

LEMMA FallbackKeeps ==
  ASSUME LiveInvariant, Fallback
  PROVE  LiveInvariant'
<1>1. LiveTypeOK /\ ServerTyped /\ ScheduleTyped /\ PageTyped
  BY TypeParts DEF LiveInvariant
<1>2. /\ reconciled' = TRUE /\ correcting' = FALSE /\ requested' = TRUE
      /\ UNCHANGED <<protocol, rev, outrun, pipe, vector, reply, revision, reading, awaited,
                     socket, reopening, active, outages>>
  BY DEF Fallback, Request, serverVars, wireVars
<1>3. LiveTypeOK'
  <2>1. ServerTyped'
    BY <1>1, <1>2 DEF ServerTyped
  <2>2. ScheduleTyped'
    BY <1>1, <1>2 DEF ScheduleTyped
  <2>3. PageTyped'
    BY <1>1, <1>2 DEF PageTyped
  <2>. QED BY <2>1, <2>2, <2>3, TypePartsNext
<1>4. SocketReplaced' /\ NothingAhead'
  BY <1>2 DEF LiveInvariant, SocketReplaced, NothingAhead
<1>5. NewsComes'
  BY <1>2 DEF NewsComes, ReadNews
<1>. QED BY <1>3, <1>4, <1>5 DEF LiveInvariant

\* An event is received, and what it brings is taken, known or asked for.
LEMMA ReceivedKeeps ==
  ASSUME LiveInvariant, pipe # <<>>, Received,
         UNCHANGED <<protocol, rev, vector, reply, reading, socket, reopening, active, outages>>,
         revision' \in Rev \cup {Unknown}, revision' <= rev,
         requested' \in BOOLEAN, awaited' \in Rev \cup {Unknown}, awaited' <= rev,
         reconciled' \in BOOLEAN, correcting' \in BOOLEAN, outrun' \in BOOLEAN,
         outrun => outrun', outrun' \/ revision <= revision',
         ReadNews => ReadNews',
         Head(pipe).type = "state-correction" \/ UNCHANGED correcting,
         (/\ Head(pipe).revision = rev
          /\ Head(pipe).type = "state-correction" => protocol = 1 /\ correcting)
         => revision' = rev \/ ReadNews'
  PROVE  LiveInvariant'
<1>1. LiveTypeOK /\ ServerTyped /\ ScheduleTyped /\ PageTyped
  BY TypeParts DEF LiveInvariant
<1>2. /\ pipe' \in Seq(Event) /\ Len(pipe') = Len(pipe) - 1
      /\ Len(pipe) \in Nat \ {0}
      /\ \A i \in 1 .. Len(pipe') : pipe'[i] = pipe[i + 1]
  BY <1>1, ReceivedStep DEF ServerTyped
<1>3. rev \in Nat \ {0} /\ revision \in Nat /\ revision <= rev /\ revision' \in Nat
  BY BoundsNow, RevType
<1>4. LiveTypeOK'
  <2>1. ServerTyped'
    BY <1>1, <1>2 DEF ServerTyped
  <2>2. ScheduleTyped'
    BY <1>1 DEF ScheduleTyped
  <2>3. PageTyped'
    BY <1>1 DEF PageTyped
  <2>. QED BY <2>1, <2>2, <2>3, TypePartsNext
<1>5. SocketReplaced'
  <2>1. socket = "open"
    BY DEF LiveInvariant, SocketReplaced
  <2>. QED BY <2>1 DEF LiveInvariant, SocketReplaced
<1>6. NothingAhead'
  <2>1. \A i \in 1 .. Len(pipe') : pipe'[i].revision <= rev
    <3>. SUFFICES ASSUME NEW i \in 1 .. Len(pipe') PROVE pipe'[i].revision <= rev
      OBVIOUS
    <3>1. i + 1 \in 1 .. Len(pipe) /\ pipe'[i] = pipe[i + 1]
      BY <1>2
    <3>. QED BY <3>1 DEF LiveInvariant, NothingAhead
  <2>. QED BY <2>1 DEF LiveInvariant, NothingAhead
<1>7. NewsComes'
  <2>1. VectorNews => outrun' \/ VectorNews'
    BY <1>1, <1>3, VectorNewsLeft
  <2>2. PipeNews => PipeNews' \/ revision' = rev \/ ReadNews'
    <3>. SUFFICES ASSUME PipeNews PROVE PipeNews' \/ revision' = rev \/ ReadNews'
      OBVIOUS
    <3>1. \/ PipeNews'
          \/ /\ Head(pipe).revision = rev
             /\ Head(pipe).type = "state-correction" => protocol = 1 /\ correcting
      BY <1>1, PipeNewsLeft
    <3>. QED BY <3>1
  <2>3. revision = rev => outrun' \/ revision' = rev
    BY <1>3
  <2>. QED BY <2>1, <2>2, <2>3 DEF LiveInvariant, NewsComes
<1>. QED BY <1>4, <1>5, <1>6, <1>7 DEF LiveInvariant

LEMMA HeadNow ==
  ASSUME LiveInvariant, NEW type, Receive(type)
  PROVE  /\ pipe # <<>> /\ Head(pipe).type = type
         /\ Head(pipe).revision \in Rev /\ Head(pipe).revision <= rev
<1>1. pipe \in Seq(Event) /\ pipe # <<>>
  BY DEF LiveInvariant, LiveTypeOK, Receive
<1>2. Head(pipe) \in Event /\ Head(pipe) = pipe[1] /\ 1 \in 1 .. Len(pipe)
  BY <1>1
<1>3. Head(pipe).revision <= rev
  BY <1>2 DEF LiveInvariant, NothingAhead
<1>. QED BY <1>1, <1>2, <1>3, EventType DEF Receive

LEMMA ReceiveDeltaKeeps ==
  ASSUME LiveInvariant, ReceiveDelta
  PROVE  LiveInvariant'
<1>1. /\ Receive("status-delta") /\ Received /\ ApplyDelta(Head(pipe).revision)
      /\ UNCHANGED <<protocol, rev, outrun, vector, reply, reading, awaited, socket, reconciled,
                     correcting, reopening, active, outages>>
  BY DEF ReceiveDelta, serverVars, connectionVars
<1>2. /\ pipe # <<>> /\ Head(pipe).type = "status-delta"
      /\ Head(pipe).revision \in Rev /\ Head(pipe).revision <= rev
  BY <1>1, HeadNow
<1>3. /\ revision' \in Rev \cup {Unknown} /\ requested' \in BOOLEAN
      /\ revision <= revision' /\ revision' <= rev
      /\ requested => requested'
      /\ Head(pipe).revision = rev => revision' = rev \/ requested'
  BY <1>1, <1>2, DeltaStep
<1>4. /\ awaited' \in Rev \cup {Unknown} /\ awaited' <= rev
      /\ reconciled' \in BOOLEAN /\ correcting' \in BOOLEAN /\ outrun' \in BOOLEAN
  BY <1>1, BoundsNow DEF LiveInvariant, LiveTypeOK
<1>5. ReadNews => ReadNews'
  BY <1>1, <1>3 DEF ReadNews
<1>6. Head(pipe).revision = rev => revision' = rev \/ ReadNews'
  BY <1>3 DEF ReadNews
<1>. QED BY <1>1, <1>2, <1>3, <1>4, <1>5, <1>6, ReceivedKeeps

LEMMA ReceiveReconcileKeeps ==
  ASSUME LiveInvariant, ReceiveReconcile
  PROVE  LiveInvariant'
<1>1. /\ Receive("status-reconcile")
      /\ UNCHANGED <<protocol, rev, outrun, reply, revision, reading, active, outages>>
  BY DEF ReceiveReconcile, serverVars
<1>2. /\ pipe # <<>> /\ Head(pipe).type = "status-reconcile"
      /\ Head(pipe).revision \in Rev /\ Head(pipe).revision <= rev
  BY <1>1, HeadNow
<1>3. /\ ScheduleTyped /\ rev \in Nat \ {0} /\ revision \in Nat /\ awaited \in Nat
      /\ outages \in 0 .. MaxOutages /\ outrun \in BOOLEAN
      /\ revision <= rev /\ awaited <= rev
  BY BoundsNow
<1>4. CASE protocol = 2
  <2>1. CloseSocket /\ reopening' = TRUE /\ UNCHANGED <<requested, awaited>>
    BY <1>4 DEF ReceiveReconcile
  <2>2. active' \in BOOLEAN
    BY <1>1 DEF LiveInvariant, LiveTypeOK
  <2>. QED BY <1>1, <1>3, <2>1, <2>2, ClosedKeeps
<1>5. CASE protocol # 2
  <2>. DEFINE to == Head(pipe).revision
  <2>1. /\ RequestRevision(to) /\ Received
        /\ UNCHANGED <<vector, socket, reconciled, correcting, reopening>>
    BY <1>5 DEF ReceiveReconcile
  <2>2. to \in Rev /\ to <= rev /\ to \in Nat
    BY <1>2, RevType
  <2>3. reading.at = "none" \/ reading.at = "asked" \/ reading.at = "answered"
    BY <1>3 DEF ScheduleTyped
  <2>4. /\ requested' \in BOOLEAN /\ awaited' \in Rev \cup {Unknown} /\ awaited' <= rev
        /\ ReadNews => ReadNews'
        /\ to = rev => revision = rev \/ ReadNews'
    <3>. HIDE DEF to
    <3>1. CASE revision >= to
      <4>1. UNCHANGED <<requested, awaited>>
        BY <2>1, <3>1 DEF RequestRevision
      <4>2. to = rev => revision = rev
        BY <1>3, <2>2, <3>1
      <4>. QED BY <1>1, <1>3, <4>1, <4>2 DEF ScheduleTyped, ReadNews
    <3>2. CASE ~(revision >= to) /\ reading # NotAsked
      <4>1. awaited' = (IF awaited < to THEN to ELSE awaited) /\ requested' = requested
        BY <2>1, <3>2 DEF RequestRevision
      <4>2. awaited' \in Rev \cup {Unknown} /\ awaited' <= rev
        BY <1>3, <2>2, <4>1 DEF ScheduleTyped
      <4>3. (awaited = rev => awaited' = rev) /\ (to = rev => awaited' = rev)
        BY <1>3, <2>2, <4>1
      <4>4. ReadNews => ReadNews'
        BY <1>1, <4>1, <4>3 DEF ReadNews
      <4>5. to = rev => ReadNews'
        <5>1. reading.at # "none"
          BY <3>2, BoundsNow
        <5>. QED BY <1>1, <2>3, <4>3, <5>1 DEF ReadNews
      <4>. QED BY <1>3, <4>1, <4>2, <4>4, <4>5 DEF ScheduleTyped
    <3>3. CASE ~(revision >= to) /\ reading = NotAsked
      <4>1. requested' = TRUE /\ awaited' = awaited
        BY <2>1, <3>3 DEF RequestRevision, Request
      <4>. QED BY <1>3, <4>1 DEF ScheduleTyped, ReadNews
    <3>. QED BY <3>1, <3>2, <3>3
  <2>5. /\ reconciled' \in BOOLEAN /\ correcting' \in BOOLEAN /\ outrun' \in BOOLEAN
        /\ revision' \in Rev \cup {Unknown} /\ revision' <= rev /\ revision <= revision'
    BY <1>1, <1>3, <2>1 DEF LiveInvariant, LiveTypeOK
  <2>. QED BY <1>1, <1>2, <2>1, <2>4, <2>5, ReceivedKeeps
<1>. QED BY <1>4, <1>5

LEMMA ReceiveSnapshotKeeps ==
  ASSUME LiveInvariant, ReceiveSnapshot
  PROVE  LiveInvariant'
<1>1. /\ Receive("status-snapshot") /\ Received
      /\ revision' = Head(pipe).revision
      /\ outrun' = (outrun \/ revision' < revision)
      /\ UNCHANGED <<protocol, rev, vector, reply, requested, reading, awaited, socket,
                     reconciled, correcting, reopening, active, outages>>
  BY DEF ReceiveSnapshot, connectionVars
<1>2. /\ pipe # <<>> /\ Head(pipe).type = "status-snapshot"
      /\ Head(pipe).revision \in Rev /\ Head(pipe).revision <= rev
  BY <1>1, HeadNow
<1>3. /\ ScheduleTyped /\ revision \in Nat /\ outrun \in BOOLEAN /\ awaited <= rev
  BY BoundsNow
<1>4. revision' \in Rev /\ revision' <= rev /\ revision' \in Nat
  BY <1>1, <1>2, RevType
<1>5. outrun' \in BOOLEAN /\ (outrun => outrun') /\ (outrun' \/ revision <= revision')
  <2>1. CASE revision' < revision
    BY <1>1, <2>1
  <2>2. CASE ~(revision' < revision)
    <3>1. outrun' = outrun /\ revision <= revision'
      BY <1>1, <1>3, <1>4, <2>2
    <3>. QED BY <1>3, <3>1
  <2>. QED BY <2>1, <2>2
<1>6. ReadNews => ReadNews'
  BY <1>1 DEF ReadNews
<1>7. /\ requested' \in BOOLEAN /\ awaited' \in Rev \cup {Unknown} /\ awaited' <= rev
      /\ reconciled' \in BOOLEAN /\ correcting' \in BOOLEAN
  BY <1>1, <1>3 DEF LiveInvariant, LiveTypeOK
<1>. QED BY <1>1, <1>2, <1>4, <1>5, <1>6, <1>7, ReceivedKeeps

LEMMA ReceiveCorrectionKeeps ==
  ASSUME LiveInvariant, ReceiveCorrection
  PROVE  LiveInvariant'
<1>1. /\ Receive("state-correction") /\ Received /\ correcting' = FALSE
      /\ reconciled' = (reconciled \/ correcting)
      /\ UNCHANGED <<protocol, rev, outrun, vector, reply, revision, reading, awaited, socket,
                     reopening, active, outages>>
  BY DEF ReceiveCorrection, serverVars
<1>2. /\ pipe # <<>> /\ Head(pipe).type = "state-correction"
      /\ Head(pipe).revision \in Rev /\ Head(pipe).revision <= rev
  BY <1>1, HeadNow
<1>3. /\ ScheduleTyped /\ rev \in Nat /\ revision \in Nat /\ outrun \in BOOLEAN
      /\ revision <= rev /\ awaited <= rev
  BY BoundsNow
<1>4. /\ requested' \in BOOLEAN /\ (requested => requested')
      /\ protocol = 1 /\ correcting /\ Head(pipe).revision = rev => revision = rev \/ requested'
  <2>1. CASE protocol = 1 /\ correcting
    <3>1. PICK again \in BOOLEAN :
            requested' = (requested \/ revision < Head(pipe).revision
                            \/ (again /\ revision = Head(pipe).revision))
      BY <2>1 DEF ReceiveCorrection
    <3>2. requested' \in BOOLEAN /\ (requested => requested')
      BY <3>1
    <3>3. revision < Head(pipe).revision => requested'
      BY <3>1
    <3>. QED BY <1>3, <3>2, <3>3
  <2>2. CASE ~(protocol = 1 /\ correcting)
    <3>1. requested' = requested
      BY <2>2 DEF ReceiveCorrection
    <3>. QED BY <1>3, <2>2, <3>1 DEF ScheduleTyped
  <2>. QED BY <2>1, <2>2
<1>5. ReadNews => ReadNews'
  BY <1>1, <1>4 DEF ReadNews
<1>6. protocol = 1 /\ correcting /\ Head(pipe).revision = rev => revision' = rev \/ ReadNews'
  BY <1>1, <1>4 DEF ReadNews
<1>7. /\ revision' \in Rev \cup {Unknown} /\ revision' <= rev /\ revision <= revision'
      /\ awaited' \in Rev \cup {Unknown} /\ awaited' <= rev
      /\ reconciled' \in BOOLEAN /\ correcting' \in BOOLEAN /\ outrun' \in BOOLEAN
  <2>1. revision' \in Rev \cup {Unknown} /\ awaited' \in Rev \cup {Unknown}
    BY <1>1, <1>3 DEF ScheduleTyped
  <2>2. revision' <= rev /\ revision <= revision' /\ awaited' <= rev
    BY <1>1, <1>3
  <2>3. reconciled' \in BOOLEAN
    BY <1>1
  <2>4. correcting' \in BOOLEAN /\ outrun' \in BOOLEAN
    BY <1>1, <1>3
  <2>. QED BY <2>1, <2>2, <2>3, <2>4
<1>. QED BY <1>1, <1>2, <1>4, <1>5, <1>6, <1>7, ReceivedKeeps

LEMMA LiveStutterKeeps ==
  ASSUME LiveInvariant, UNCHANGED liveVars
  PROVE  LiveInvariant'
<1>1. UNCHANGED <<protocol, rev, pipe, vector, reply, revision, requested, reading, awaited,
                  socket, reconciled, correcting, reopening, active, outages, outrun>>
  BY DEF liveVars
<1>. QED BY <1>1, BoundsNow, ScheduleKeeps DEF ScheduleTyped, ReadNews

LEMMA LiveStepKeeps ==
  ASSUME LiveInvariant, [LiveNext]_liveVars
  PROVE  LiveInvariant'
<1>1. CASE Broadcast \/ ReconcileQuietly \/ ReadSnapshot \/ SendSnapshot
  BY <1>1, BroadcastKeeps, QuietKeeps, ReadSnapshotKeeps, SendSnapshotKeeps
<1>2. CASE Sweep \/ Poll \/ Answer \/ ApplyRead \/ FailRead \/ Reply
  BY <1>2, AskKeeps, AnswerKeeps, ReadEndKeeps, ReplyKeeps
<1>3. CASE Opened \/ LoseSocket \/ Reopen \/ Fallback \/ Hide \/ Show
  BY <1>3, OpenedKeeps, LoseSocketKeeps, PageKeeps, FallbackKeeps
<1>4. CASE ReceiveDelta \/ ReceiveReconcile \/ ReceiveSnapshot \/ ReceiveCorrection
  BY <1>4, ReceiveDeltaKeeps, ReceiveReconcileKeeps, ReceiveSnapshotKeeps, ReceiveCorrectionKeeps
<1>5. CASE UNCHANGED liveVars
  BY <1>5, LiveStutterKeeps
<1>. QED BY <1>1, <1>2, <1>3, <1>4, <1>5 DEF LiveNext

LEMMA LiveInductive == LiveSpec => []LiveInvariant
<1>. QED BY LiveInitial, LiveStepKeeps, PTL DEF LiveSpec

-----------------------------------------------------------------------------
(* The theorems.                                                           *)

\* Everything the client, the server and the wire hold has its type.
THEOREM LiveTypeCorrect == LiveSpec => []LiveTypeOK
<1>1. LiveInvariant => LiveTypeOK
  BY DEF LiveInvariant
<1>. QED BY <1>1, LiveInductive, PTL

\* A client that is behind has news coming, for any number of revisions, gaps,
\* lost sockets, failed reads and times the page is hidden.
THEOREM BehindIsTemporary == LiveSpec => []BehindHasNews
<1>1. LiveInvariant => BehindHasNews
  <2>. SUFFICES ASSUME LiveInvariant PROVE BehindHasNews
    OBVIOUS
  <2>1. socket # "open" => Coming
    BY DEF LiveInvariant, LiveTypeOK, SocketReplaced, Coming
  <2>2. VectorNews => Coming
    BY DEF VectorNews, NoVector, Coming
  <2>3. PipeNews => Coming
    BY DEF PipeNews, Coming
  <2>4. ReadNews => Coming
    BY DEF ReadNews, NotAsked, Coming
  <2>. QED BY <2>1, <2>2, <2>3, <2>4 DEF LiveInvariant, NewsComes, BehindHasNews
<1>. QED BY <1>1, LiveInductive, PTL

\* What the client shows goes back by the snapshot of version 2 alone.
THEOREM RevisionsAdvance == LiveSpec => NeverGoesBack
<1>1. ASSUME LiveInvariant, [LiveNext]_liveVars
      PROVE  [revision' >= revision \/ ReceiveSnapshot]_liveVars
  <2>1. revision \in Nat
    BY <1>1, BoundsNow
  <2>2. CASE ApplyRead
    <3>1. /\ reading.at = "answered"
          /\ revision' = IF revision = reading.started THEN reading.answer ELSE revision
      BY <2>2 DEF ApplyRead
    <3>2. reading.started <= reading.answer
      BY <1>1, <3>1, BoundsNow
    <3>. QED BY <2>1, <3>1, <3>2
  <2>3. CASE Reply
    <3>1. reply \in Rev /\ reply <= rev /\ ApplyDelta(reply)
      BY <1>1, <2>3, BoundsNow DEF Reply, LiveInvariant, LiveTypeOK
    <3>. QED BY <1>1, <2>1, <3>1, DeltaStep
  <2>4. CASE ReceiveDelta
    <3>1. /\ ApplyDelta(Head(pipe).revision)
          /\ Head(pipe).revision \in Rev /\ Head(pipe).revision <= rev
      BY <1>1, <2>4, HeadNow DEF ReceiveDelta
    <3>. QED BY <1>1, <2>1, <3>1, DeltaStep
  <2>5. CASE Broadcast \/ ReconcileQuietly \/ ReadSnapshot \/ SendSnapshot \/ Opened
             \/ LoseSocket \/ Hide
    <3>1. revision' = revision
      BY <2>5 DEF Broadcast, ReconcileQuietly, ReadSnapshot, SendSnapshot, Opened, LoseSocket,
                  Hide, scheduleVars
    <3>. QED BY <2>1, <3>1
  <2>6. CASE Sweep \/ Poll \/ Answer \/ FailRead \/ Reopen \/ Fallback \/ ReceiveReconcile
             \/ ReceiveCorrection \/ Show
    <3>1. revision' = revision
      BY <2>6 DEF Sweep, Poll, Answer, FailRead, Reopen, Fallback, ReceiveReconcile,
                  ReceiveCorrection, Show, scheduleVars
    <3>. QED BY <2>1, <3>1
  <2>. QED BY <1>1, <2>2, <2>3, <2>4, <2>5, <2>6 DEF LiveNext
<1>. QED BY <1>1, LiveInductive, PTL DEF LiveSpec, NeverGoesBack
=============================================================================
