----------------------------- MODULE LiveClient -----------------------------
(***************************************************************************)
(* userscript/src/server-sync-coordinator.ts with the status resource of   *)
(* userscript/src/telemetry.ts, and its peer, the status socket of         *)
(* backend/src/status-coordinator.ts: how ONE userscript keeps up with the *)
(* template statuses of one server it knows.                               *)
(*                                                                         *)
(* A status snapshot is its revision (StatusProjection: a revision names   *)
(* one content).  The server's sockets keep the order of what is sent;     *)
(* reads and responses are separate requests.  Timers are nondeterministic.*)
(***************************************************************************)
EXTENDS Naturals, Sequences

CONSTANTS
    MaxRevisions,  \* bound: revisions that the server makes
    MaxOutages     \* bound: failed reads, lost sockets, and times the page is hidden

ASSUME LiveClientAssumption == MaxRevisions \in Nat /\ MaxOutages \in Nat

VARIABLES
    protocol,   \* the live protocol that the two negotiate: 1 or 2
    rev,        \* the server's projection: its revision
    pipe,       \* events under way on the socket, the oldest first
    vector,     \* server: what it does with the client's state vector
    reply,      \* the delta in the response to the client's last report, while under way
    revision,   \* client: the schedule's revision of the status
    requested,  \* requestedResources names the status
    reading,    \* the sweep's GET of the status
    awaited,    \* pendingLiveRevisions
    socket,     \* LiveConnection.socket
    reconciled, \* LiveConnection.reconciled
    correcting, \* stateRequestId is set: the state vector is not answered
    reopening,  \* reconnectTimer is armed
    active,     \* activeDocument
    outages,
    outrun      \* history: since the last broadcast, the projection moved without
                \* one, or a read that was ahead failed or was dropped, or a
                \* snapshot replaced what was ahead of it

liveVars == <<protocol, rev, pipe, vector, reply, revision, requested, reading, awaited, socket,
              reconciled, correcting, reopening, active, outages, outrun>>

Rev == 1 .. MaxRevisions + 1
Unknown == 0
Delta(to) == [type |-> "status-delta", revision |-> to]
Event == [type : {"status-delta", "status-reconcile", "status-snapshot", "state-correction"},
          revision : Rev]
NoVector == [at |-> "none", client |-> Unknown, read |-> Unknown]
NotAsked == [at |-> "none", started |-> Unknown, answer |-> Unknown]

LiveTypeOK ==
    /\ protocol \in {1, 2} /\ rev \in Rev
    /\ pipe \in Seq(Event)
    /\ vector \in [at : {"none", "sent", "read"}, client : Rev \cup {Unknown},
                   read : Rev \cup {Unknown}]
    /\ reply \in Rev \cup {Unknown}
    /\ revision \in Rev \cup {Unknown}
    /\ requested \in BOOLEAN
    /\ reading \in [at : {"none", "asked", "answered"}, started : Rev \cup {Unknown},
                    answer : Rev \cup {Unknown}]
    /\ awaited \in Rev \cup {Unknown}
    /\ socket \in {"none", "opening", "open"}
    /\ reconciled \in BOOLEAN /\ correcting \in BOOLEAN /\ reopening \in BOOLEAN
    /\ active \in BOOLEAN /\ outages \in 0 .. MaxOutages /\ outrun \in BOOLEAN

\* installServerSyncCoordinator: the socket opens; the status is not asked for
\* until it is healthy, or has failed to be.
LiveInit ==
    /\ protocol \in {1, 2} /\ rev = 1
    /\ pipe = <<>> /\ vector = NoVector /\ reply = Unknown
    /\ revision = Unknown /\ requested = FALSE /\ reading = NotAsked /\ awaited = Unknown
    /\ socket = "opening" /\ reconciled = FALSE /\ correcting = FALSE /\ reopening = FALSE
    /\ active = TRUE /\ outages = 0 /\ outrun = FALSE

serverVars == <<rev, outrun>>
wireVars == <<pipe, vector>>
scheduleVars == <<revision, requested, reading, awaited>>
connectionVars == <<socket, reconciled, correcting, reopening>>
Outage == outages < MaxOutages /\ outages' = outages + 1

-----------------------------------------------------------------------------
(* The server.                                                             *)

\* Subscribed: the socket was accepted, which is before the client knows.
Send(event) == pipe' = IF socket = "open" THEN Append(pipe, event) ELSE pipe

\* applyCommittedChange; a delta that is too large, or a projection that had no
\* predecessor, is announced as status-reconcile.
Broadcast ==
    /\ rev <= MaxRevisions
    /\ rev' = rev + 1
    /\ \/ Send(Delta(rev'))
       \/ Send([type |-> "status-reconcile", revision |-> rev'])
    /\ reply' \in {reply, rev'}
    /\ outrun' = FALSE
    /\ UNCHANGED <<protocol, vector, scheduleVars, connectionVars, active, outages>>

\* reconcileSnapshot of a projection that is too old: nothing is broadcast.
ReconcileQuietly ==
    /\ rev <= MaxRevisions
    /\ rev' = rev + 1
    /\ outrun' = TRUE
    /\ UNCHANGED <<protocol, wireVars, reply, scheduleVars, connectionVars, active, outages>>

\* reconcileLiveState reads the snapshot, waits for the projections' versions ...
ReadSnapshot ==
    /\ vector.at = "sent"
    /\ vector' = [vector EXCEPT !.at = "read", !.read = rev]
    /\ UNCHANGED <<protocol, rev, outrun, pipe, reply, scheduleVars, connectionVars, active,
                   outages>>

\* Mutant: the snapshot is not waited for.
VectorTaken == vector.at # "none"
SnapshotRead == vector.at = "read"

\* ... and sends what it had read.
SendSnapshot ==
    /\ SnapshotRead
    /\ LET correction == [type |-> "state-correction", revision |-> vector.read]
           snapshot == [type |-> "status-snapshot", revision |-> vector.read]
           needed == protocol = 2 /\ vector.client # vector.read
       IN pipe' = pipe \o (IF needed THEN <<snapshot, correction>> ELSE <<correction>>)
    /\ vector' = NoVector
    /\ UNCHANGED <<protocol, serverVars, reply, scheduleVars, connectionVars, active, outages>>

-----------------------------------------------------------------------------
(* The client's full reads: sweep, runResource, refreshStatus.             *)

Healthy == socket = "open" /\ reconciled
SocketOnly == protocol = 2

\* requestServerSync
Request == requested' = TRUE

\* runRequestedSweep: one sweep at a time.
Sweep ==
    /\ active /\ requested /\ reading = NotAsked
    /\ requested' = FALSE
    /\ reading' = [at |-> "asked", started |-> revision, answer |-> Unknown]
    /\ UNCHANGED <<protocol, serverVars, wireVars, reply, revision, awaited, connectionVars,
                   active, outages>>

\* The schedule is due: an interval sweep, of what is not left to the socket.
Poll ==
    /\ active /\ ~SocketOnly /\ ~requested /\ reading = NotAsked
    /\ reading' = [at |-> "asked", started |-> revision, answer |-> Unknown]
    /\ UNCHANGED <<protocol, serverVars, wireVars, reply, revision, requested, awaited,
                   connectionVars, active, outages>>

Answer ==
    /\ reading.at = "asked"
    /\ reading' = [reading EXCEPT !.at = "answered", !.answer = rev]
    /\ UNCHANGED <<protocol, serverVars, wireVars, reply, revision, requested, awaited,
                   connectionVars, active, outages>>

\* Mutant: what arrived during the read is forgotten.
FinishReadOnly == reading' = NotAsked /\ awaited' = Unknown /\ UNCHANGED requested
\* finishPendingLiveRevision
FinishRead ==
    /\ reading' = NotAsked
    /\ awaited' = Unknown
    /\ requested' = (requested \/ revision' < awaited)

\* Mutant: a full read is applied whatever happened since it began.
ApplyAnyRead ==
    /\ reading.at = "answered"
    /\ revision' = reading.answer
    /\ FinishRead
    /\ UNCHANGED <<protocol, serverVars, wireVars, reply, connectionVars, active, outages>>
\* applyServerSyncSnapshot: only if nothing advanced the resource meanwhile.
ApplyRead ==
    /\ reading.at = "answered"
    /\ revision' = IF revision = reading.started THEN reading.answer ELSE revision
    /\ outrun' = (outrun \/ revision' < reading.answer)
    /\ FinishRead
    /\ UNCHANGED <<protocol, rev, wireVars, reply, connectionVars, active, outages>>

\* A read that fails is scheduled again, for the interval sweep.
FailRead ==
    /\ reading # NotAsked /\ Outage
    /\ UNCHANGED revision
    /\ FinishRead
    /\ outrun' = TRUE
    /\ UNCHANGED <<protocol, rev, wireVars, reply, connectionVars, active>>

\* applyServerSyncDelta: exactly the base, or a gap.
ApplyDelta(to) ==
    IF revision = to - 1
    THEN revision' = to /\ UNCHANGED requested
    ELSE /\ UNCHANGED revision
         /\ requested' = (requested \/ revision # to)

\* The response to an own report may carry its delta.
Reply ==
    /\ reply # Unknown /\ reply' = Unknown
    /\ ApplyDelta(reply)
    /\ UNCHANGED <<protocol, serverVars, wireVars, reading, awaited, connectionVars, active, outages>>

-----------------------------------------------------------------------------
(* The client's socket: openLiveConnection, handleLiveEvent.               *)

\* Everything under way on a socket goes with it.
CloseSocket ==
    /\ socket' = "none" /\ reconciled' = FALSE /\ correcting' = FALSE
    /\ pipe' = <<>> /\ vector' = NoVector

\* 'open': the state vector.
Opened ==
    /\ socket = "opening"
    /\ socket' = "open" /\ correcting' = TRUE /\ reconciled' = FALSE
    /\ vector' = [at |-> "sent", client |-> revision, read |-> Unknown]
    /\ UNCHANGED <<protocol, serverVars, pipe, reply, scheduleVars, reopening, active, outages>>

\* 'close', for any reason, or a message that the server fails to handle.
LoseSocket ==
    /\ socket # "none" /\ Outage
    /\ CloseSocket
    /\ reopening' = TRUE
    /\ UNCHANGED <<protocol, serverVars, reply, scheduleVars, active>>

\* The reconnect timer fires; a hidden page opens nothing.
Reopen ==
    /\ reopening
    /\ reopening' = FALSE
    /\ socket' = IF active /\ socket = "none" THEN "opening" ELSE socket
    /\ UNCHANGED <<protocol, serverVars, wireVars, reply, scheduleVars, reconciled, correcting,
                   active, outages>>

\* armLiveBootstrapFallback, of version 1.
Fallback ==
    /\ protocol = 1 /\ ~reconciled /\ (socket # "none" \/ reopening)
    /\ reconciled' = TRUE /\ correcting' = FALSE
    /\ Request
    /\ UNCHANGED <<protocol, serverVars, wireVars, reply, revision, reading, awaited, socket,
                   reopening, active, outages>>

\* requestLiveRevision
RequestRevision(to) ==
    IF revision >= to THEN UNCHANGED <<requested, awaited>>
    ELSE IF reading # NotAsked
    THEN awaited' = (IF awaited < to THEN to ELSE awaited) /\ UNCHANGED requested
    ELSE Request /\ UNCHANGED awaited

Receive(type) == pipe # <<>> /\ Head(pipe).type = type
Received == pipe' = Tail(pipe)

ReceiveDelta ==
    /\ Receive("status-delta")
    /\ Received
    /\ ApplyDelta(Head(pipe).revision)
    /\ UNCHANGED <<protocol, serverVars, vector, reply, reading, awaited, connectionVars, active,
                   outages>>

\* Version 2 replaces the socket, for the snapshot that a state vector brings.
ReceiveReconcile ==
    /\ Receive("status-reconcile")
    /\ IF protocol = 2
       THEN /\ CloseSocket /\ reopening' = TRUE
            /\ UNCHANGED <<requested, awaited>>
       ELSE /\ RequestRevision(Head(pipe).revision)
            /\ Received
            /\ UNCHANGED <<vector, socket, reconciled, correcting, reopening>>
    /\ UNCHANGED <<protocol, serverVars, reply, revision, reading, active, outages>>

\* applyLiveStatusSnapshot reads the started revision itself: it always fits.
ReceiveSnapshot ==
    /\ Receive("status-snapshot")
    /\ Received
    /\ revision' = Head(pipe).revision
    /\ outrun' = (outrun \/ revision' < revision)
    /\ UNCHANGED <<protocol, rev, vector, reply, requested, reading, awaited,
                   connectionVars, active, outages>>

\* A client that held nothing, or lacks a projection's version, is in mode
\* "snapshot", and reads even what it has.
ReceiveCorrection ==
    /\ Receive("state-correction")
    /\ Received
    /\ correcting' = FALSE
    /\ reconciled' = (reconciled \/ correcting)
    /\ LET to == Head(pipe).revision
       IN IF protocol = 1 /\ correcting
          THEN \E again \in BOOLEAN :
                 requested' = (requested \/ revision < to \/ (again /\ revision = to))
          ELSE UNCHANGED requested
    /\ UNCHANGED <<protocol, serverVars, vector, reply, revision, reading, awaited, socket,
                   reopening, active, outages>>

-----------------------------------------------------------------------------
(* The page.                                                               *)

\* Hidden, or offline, which retires the socket and keeps its timer.
Hide ==
    /\ active /\ Outage
    /\ active' = FALSE
    /\ \/ UNCHANGED <<socket, reconciled, correcting, pipe, vector>>
       \/ CloseSocket
    /\ UNCHANGED <<protocol, serverVars, reply, scheduleVars, reopening>>

\* recover
Show ==
    /\ ~active
    /\ active' = TRUE
    /\ socket' = IF socket = "none" /\ ~reopening THEN "opening" ELSE socket
    /\ requested' = (requested \/ (~SocketOnly /\ ~Healthy))
    /\ UNCHANGED <<protocol, serverVars, wireVars, reply, revision, reading, awaited,
                   reconciled, correcting, reopening, outages>>

LiveNext ==
    \/ Broadcast \/ ReconcileQuietly \/ ReadSnapshot \/ SendSnapshot
    \/ Sweep \/ Poll \/ Answer \/ ApplyRead \/ FailRead \/ Reply
    \/ Opened \/ LoseSocket \/ Reopen \/ Fallback
    \/ ReceiveDelta \/ ReceiveReconcile \/ ReceiveSnapshot \/ ReceiveCorrection
    \/ Hide \/ Show

LiveSpec == LiveInit /\ [][LiveNext]_liveVars

-----------------------------------------------------------------------------
(* Properties.                                                             *)

\* What the client shows never goes back to an older revision, whatever read,
\* response, delta or socket overtakes another.  Excepted: the snapshot of
\* version 2, which may be read before a delta leaves and be sent after it.
NeverGoesBack == [][revision' >= revision \/ ReceiveSnapshot]_liveVars

\* What will move the client without a poll: an event or a state vector under
\* way, a read that is asked for, a socket to come, the page to be shown.
Coming ==
    \/ pipe # <<>> \/ vector # NoVector
    \/ requested \/ reading # NotAsked
    \/ socket = "opening" \/ reopening \/ ~active

\* A client that is behind has something coming, after any gap, lost socket,
\* overlapping read or hidden page.  Excepted, until the next broadcast: a
\* change that nobody broadcast, one whose read failed or was dropped because
\* something older arrived during it, and one that an older snapshot replaced.
\* A poll repairs these in version 1, and nothing does in version 2.
BehindHasNews == revision = rev \/ Coming \/ outrun
=============================================================================
