----------------------------- MODULE MCImports -----------------------------
(* Work that an alarm must carry to its end: the deliveries of the durable  *)
(* scheduler, and a template's backfill, next to each other; one of them    *)
(* moves in a behaviour.                                                    *)
EXTENDS MCDurableScheduler, TemplateBackfill

VARIABLE part

importVars == <<part, vars, backfillVars>>

\* A second request; a change; an export, a move and a fault.
Budgets == {
    [requests |-> 2, changes |-> 0, exports |-> 0, throws |-> 0],
    [requests |-> 1, changes |-> 1, exports |-> 0, throws |-> 0],
    [requests |-> 1, changes |-> 0, exports |-> 1, throws |-> 1] }

ImportsInit ==
    /\ part \in {"scheduler", "imports"}
    /\ Init /\ BackfillInit
    /\ part = "scheduler" => left.requests = 2

ImportsNext ==
    /\ \/ part = "scheduler" /\ Next /\ UNCHANGED backfillVars
       \/ part = "imports" /\ BackfillNext /\ UNCHANGED vars
    /\ UNCHANGED part

\* FairSpec's and BackfillFair, each while its component is the part.
ImportsFair ==
    /\ \A a \in Actor :
         /\ WF_vars(part = "scheduler" /\ BecomeDue(a))
         /\ WF_vars(part = "scheduler" /\ Expire(a))
         /\ SF_vars(part = "scheduler" /\ \E o \in Owner : Taken(o, a))
    /\ \A o \in Owner :
         /\ WF_vars(part = "scheduler" /\ Poll(o))
         /\ WF_vars(part = "scheduler" /\ Start(o))
         /\ \A a \in Actor : WF_vars(/\ part = "scheduler"
                                     /\ HandlerEnds(o, a) \/ Complete(o, a)
                                        \/ Retry(o, a) \/ Release(o, a))
    /\ WF_backfillVars(part = "imports" /\ StepBegins)
    /\ WF_backfillVars(part = "imports" /\ CommandStep)

ImportsSpec == ImportsInit /\ [][ImportsNext]_importVars /\ ImportsFair
=============================================================================
