------------------------------ MODULE MCRounds ------------------------------
(***************************************************************************)
(* Two workers that go through a list and may die on the way: the graph    *)
(* worker, event after event, beside the rebuild script, and the digest    *)
(* worker of one sending host, recipient after recipient.  They share no   *)
(* table; each behaviour is one of theirs.                                 *)
(***************************************************************************)
EXTENDS MCGraph, MCDelivery

VARIABLE part

Init ==
    /\ part \in {"graph", "delivery"}
    /\ GraphInit /\ DeliveryInit

Next ==
    /\ UNCHANGED part
    /\ \/ part = "graph" /\ GraphNext /\ UNCHANGED vars
       \/ part = "delivery" /\ DeliveryNext /\ UNCHANGED graphVars

\* Each part keeps the fairness of its own specification.
GraphPart ==
    LET in == part = "graph"
    IN  /\ \A w \in Runners : WF_graphVars(in /\ RunStep(w))
        /\ WF_graphVars(in /\ (RebuildRead \/ RebuildDelete \/ RebuildSource \/ RebuildEnd))

DeliveryPart == \A h \in Hosts : WF_vars(part = "delivery" /\ DigestStep(h))

Spec == Init /\ [][Next]_<<graphVars, vars, part>> /\ GraphPart /\ DeliveryPart
=============================================================================
