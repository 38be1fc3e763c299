-------------------------- MODULE MCTelemetryState --------------------------
(* Four components that share no variable, next to each other: the stored   *)
(* bytes of a tile, the cache of its generation, the projection of the      *)
(* statuses and the client that follows it.  One of them moves in a         *)
(* behaviour, the others stay in their initial states.                      *)
EXTENDS TileBlobs, TileGenerationCache, StatusProjection, LiveClient

CONSTANTS r1, r2, isolate, sweep

VARIABLE part

MCReporter == {r1, r2}
MCRuntime == {isolate}
MCRuntimeOf == [r \in MCReporter |-> isolate]
MCSweeper == {sweep}

allVars == <<part, blobVars, cacheVars, statusVars, liveVars>>

Init ==
    /\ part \in {"blobs", "cache", "status", "live"}
    /\ BlobsInit /\ CacheInit /\ StatusInit /\ LiveInit
    /\ part # "blobs" => stored = {} /\ ~referenced
    /\ part # "live" => protocol = 1

Next ==
    /\ \/ part = "blobs" /\ BlobsNext /\ UNCHANGED <<cacheVars, statusVars, liveVars>>
       \/ part = "cache" /\ CacheNext /\ UNCHANGED <<blobVars, statusVars, liveVars>>
       \/ part = "status" /\ StatusNext /\ UNCHANGED <<blobVars, cacheVars, liveVars>>
       \/ part = "live" /\ LiveNext /\ UNCHANGED <<blobVars, cacheVars, statusVars>>
    /\ UNCHANGED part

\* BlobsFair and StatusFair, each while its component is the one.
Fair ==
    /\ \A r \in Reporter : WF_blobVars(part = "blobs" /\ (ReporterStep(r) \/ ReclaimStep(r)))
    /\ \A g \in Sweeper : WF_blobVars(part = "blobs" /\ (SweeperStep(g) \/ ReclaimStep(g)))
    /\ WF_blobVars(part = "blobs" /\ Lapse)
    /\ WF_statusVars(part = "status" /\ ReconcileStep)
    /\ WF_statusVars(part = "status" /\ ReadStale)

Spec == Init /\ [][Next]_allVars /\ Fair

\* The variables of all four hold values of their types.
TypesOK == BlobsTypeOK /\ CacheTypeOK /\ StatusTypeOK /\ LiveTypeOK

\* StatusProjection's ProjectionCatchesUp: lost reports, failed reconciliations
\* and restarts leave no projection behind that is read.
StatusCatchesUp == part = "status" => ProjectionCatchesUp
=============================================================================
