------------------------------ MODULE MCDesks ------------------------------
(***************************************************************************)
(* Three services that answer to the outside world, side by side: each     *)
(* behaviour is one of theirs, and which is chosen at the start.           *)
(***************************************************************************)
EXTENDS Operator, Harvest, Enrichment, TLC

\* Two providers know the one kind of entity there is, and rate it differently.
Listed == ("cve" :> <<"nvd", "circl">>)
Knows == ("cve" :> {"nvd", "circl"})
Rates == ("nvd" :> 98) @@ ("circl" :> 75)
BaseOfKind == ("cve" :> 55)

VARIABLE part

vars == <<operatorVars, harvestVars, enrichVars, part>>

Init ==
    /\ part \in {"operator", "harvest", "enrichment"}
    /\ OperatorInit /\ HarvestInit /\ EnrichmentInit
    /\ part # "operator" => stored = "unset"

Next ==
    /\ UNCHANGED part
    /\ \/ /\ part = "operator" /\ OperatorNext
          /\ UNCHANGED <<harvestVars, enrichVars>>
       \/ /\ part = "harvest" /\ HarvestNext
          /\ UNCHANGED <<operatorVars, enrichVars>>
       \/ /\ part = "enrichment" /\ EnrichmentNext
          /\ UNCHANGED <<operatorVars, harvestVars>>

\* Each part keeps the fairness of its own specification.
OperatorPart ==
    LET in == part = "operator"
    IN  /\ WF_operatorVars(in /\ AnswerStep)
        /\ WF_operatorVars(in /\ FetchSettings(Batch))
        /\ SF_operatorVars(in /\ FillCache(Batch))

HarvestPart ==
    LET in == part = "harvest"
    IN  /\ WF_harvestVars(in /\ Begin(Nightly)) /\ WF_harvestVars(in /\ Tick)
        /\ \A r \in Runs :
             /\ WF_harvestVars(in /\ CommitFeeds(r))
             /\ \A f \in Feeds : WF_harvestVars(in /\ (Skip(r, f) \/ Visit(r, f)))

EnrichmentPart ==
    LET in == part = "enrichment"
    IN  /\ \A q \in Lookups : WF_enrichVars(in /\ Fetch(q)) /\ WF_enrichVars(in /\ Respond(q))
        /\ \A v \in Entities :
             /\ SF_enrichVars(in /\ (ServeCached(Asked, v) \/ Enrich(Asked, v)))
             /\ WF_enrichVars(in /\ Expire(v))

Spec == Init /\ [][Next]_vars /\ OperatorPart /\ HarvestPart /\ EnrichmentPart
=============================================================================
