---------------------------- MODULE AlarmPromise ----------------------------
(***************************************************************************)
(* What a durable alarm promises the coordinator that sets it, whatever    *)
(* runs it: a wakeup that was asked for is consumed only by a handler run  *)
(* that started after it was asked for and succeeded.  Anything else that  *)
(* removes it is the coordinator's own deleteAlarm.                        *)
(***************************************************************************)
EXTENDS Naturals

CONSTANT Actor

VARIABLES
    asked,   \* how often each actor asked for a wakeup
    fate,    \* what became of the last one: "none", "wanted", "forgotten", "settled"
    served   \* actors whose wakeup a handler run is working for

vars == <<asked, fate, served>>

Init == asked = [a \in Actor |-> 0] /\ fate = [a \in Actor |-> "none"] /\ served = {}

\* Asking again, also while a run is under way: that run does not count for it.
Want(a) ==
    /\ asked' = [asked EXCEPT ![a] = @ + 1]
    /\ fate' = [fate EXCEPT ![a] = "wanted"]
    /\ served' = served \ {a}

Forget(a) ==
    /\ fate[a] = "wanted"
    /\ fate' = [fate EXCEPT ![a] = "forgotten"]
    /\ served' = served \ {a}
    /\ UNCHANGED asked

Serve(a) ==
    /\ fate[a] = "wanted"
    /\ served' = served \cup {a}
    /\ UNCHANGED <<asked, fate>>

\* Runs that fail, or whose process dies, leave the wakeup wanted.
Lapse ==
    /\ served' \in SUBSET served
    /\ UNCHANGED <<asked, fate>>

Settle(a) ==
    /\ a \in served
    /\ fate' = [fate EXCEPT ![a] = "settled"]
    /\ served' = served \ {a}
    /\ UNCHANGED asked

Next ==
    \/ \E a \in Actor : Want(a) \/ Forget(a) \/ Serve(a) \/ Settle(a)
    \/ Lapse

Spec == Init /\ [][Next]_vars
=============================================================================
