------------------------ MODULE MCTelemetryCounters ------------------------
(* TLC values for TelemetryCounters.  A unit of time is 30 seconds: buckets *)
(* of two, a grace of one, and a retention shortened to one bucket.         *)
EXTENDS TelemetryCounters, TLC

CONSTANTS r1, r2, e1, e2, e3

OneBucket == [e \in Event |-> 1]
\* The end of one bucket and the start of the next.
TwoBuckets == e1 :> 1 @@ e2 :> 2

CallSymmetry == Permutations(Request) \cup Permutations(Event)
===========================================================================
