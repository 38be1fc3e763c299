----------------------------- MODULE MCReports -----------------------------
(* What a userscript reports on its way: the offers of observed tiles in the *)
(* page, and the contributions in the counter coordinator.  The two share no *)
(* variable; one of them moves in a behaviour.  The offers are checked with  *)
(* three manifests, with two connections and two tiles, and with two         *)
(* observations of one tile, each from a state with what is left of the      *)
(* bounds for it.                                                            *)
EXTENDS MCTelemetryCounters, OfferDelivery

CONSTANTS
    t1, t2,
    Part    \* what moves: the counters, or the offers in one of three settings

VARIABLE part

MCTileOf == [d \in Delivery |-> IF d = 3 THEN t2 ELSE t1]
\* What is still to be observed in each part.
Fresh == [counters |-> {}, manifests |-> {1}, connections |-> {1, 3}, repeats |-> {1, 2}]

reportVars == <<part, vars, offerVars>>

ReportsInit ==
    /\ part \in Part
    /\ Init /\ OffersInit
    /\ observed = Delivery \ Fresh[part]
    /\ server.owner = IF part = "connections" THEN 1 ELSE MaxOwners
    /\ served.revision = IF part = "manifests" THEN 1 ELSE MaxManifests
    /\ expiries = IF part = "manifests" THEN 0 ELSE MaxExpiries
    /\ part = "counters" => served.tiles = {} /\ account = "known"
    /\ part = "repeats" => served.tiles = {t1}

\* With one connection left, nothing can be delivered once it is dropped: the
\* repeats, which are about what is delivered, keep it.
ReportsNext ==
    /\ \/ part = "counters" /\ Next /\ UNCHANGED offerVars
       \/ part # "counters" /\ OffersNext /\ UNCHANGED vars
    /\ part = "repeats" => server'.up
    /\ UNCHANGED part

\* The fairness of FairSpec and OffersFair, each while it is its part.
ReportsFair ==
    /\ WF_vars(part = "counters" /\ Tick)
    /\ WF_vars(part = "counters" /\ Fire)
    /\ WF_vars(part = "counters" /\ Initialize)
    /\ WF_vars(part = "counters" /\ Flush)
    /\ SF_vars(part = "counters" /\ AppendRows)
    /\ \A r \in Request : WF_vars(part = "counters" /\ Proceed(r))
    /\ WF_offerVars(part = "repeats" /\ FlushBegins)
    /\ WF_offerVars(part = "repeats" /\ FlushStep)

ReportsSpec == ReportsInit /\ [][ReportsNext]_reportVars
ReportsFairSpec == ReportsSpec /\ ReportsFair

\* The variables of both hold values of their types.
ReportsTypesOK == TypeOK /\ OffersTypeOK

\* OfferDelivery's OfferedAtLast, for two observations of one tile, which are
\* never crowded.
OffersArrive == part = "repeats" => OfferedAtLast
=============================================================================
