------------------------- MODULE MCDurableScheduler -------------------------
(* TLC values for DurableScheduler: two processes and two coordinators.     *)
EXTENDS DurableScheduler

CONSTANTS o1, o2, a1, a2
=============================================================================
