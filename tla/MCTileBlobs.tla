---------------------------- MODULE MCTileBlobs ----------------------------
(* One runtime, one request after the other, one sweep: enough for a commit *)
(* that meets the deletion of another generation of its hash.               *)
EXTENDS TileBlobs

CONSTANTS r1, isolate, sweep

MCReporter == {r1}
MCRuntime == {isolate}
MCRuntimeOf == [r \in MCReporter |-> isolate]
MCSweeper == {sweep}
=============================================================================
