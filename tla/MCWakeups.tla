----------------------------- MODULE MCWakeups -----------------------------
(* The durable scheduler, and the alarm watcher that its wakeups drive on   *)
(* the portable runtime: next to each other, one of them moves in a         *)
(* behaviour.  The template's alarm is checked with two changes of its      *)
(* pixels, with a fault, and with a version that replaces it, each from a   *)
(* state with what is left of the bounds for it.                            *)
EXTENDS MCDurableScheduler, TemplateAlarms

CONSTANTS c1, t1

VARIABLE part

wakeupVars == <<part, vars, alarmVars>>

WakeupsInit ==
    /\ part \in {"scheduler", "changes", "faults", "versions"}
    /\ Init /\ AlarmsInit
    /\ part \in {"scheduler", "versions"} => (state = NoRow) = (part = "scheduler")
    /\ flips = IF part = "changes" THEN 0 ELSE 1
    /\ breaks = IF part = "faults" THEN 0 ELSE MaxBreaks
    /\ version = IF part = "versions" THEN 1 ELSE MaxVersions
    /\ clock = IF part = "versions" THEN 3 ELSE 2

WakeupsNext ==
    /\ \/ part = "scheduler" /\ Next /\ UNCHANGED alarmVars
       \/ part # "scheduler" /\ AlarmsNext /\ UNCHANGED vars
    /\ UNCHANGED part

\* AlarmsFair, while the alarms are the part.
WakeupsFair ==
    /\ WF_alarmVars(part # "scheduler" /\ Tick)
    /\ WF_alarmVars(part # "scheduler" /\ WatcherStep)
    /\ WF_alarmVars(part # "scheduler" /\ ScanStep)

WakeupsSpec == WakeupsInit /\ [][WakeupsNext]_wakeupVars /\ WakeupsFair
=============================================================================
