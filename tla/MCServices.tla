----------------------------- MODULE MCServices -----------------------------
(***************************************************************************)
(* The services that share no table with one another, side by side: each   *)
(* behaviour is one of theirs, and which is chosen at the start.           *)
(***************************************************************************)
EXTENDS MCSignals, Tenancy, Plans, Advice, Register, Travel, Readers

Kinds == [e \in Reports |-> IF e = "r1" THEN "cluster" ELSE IF e = "r2" THEN "official" ELSE "osint"]

Site(e, n, c) == [eid |-> e, name |-> n, country |-> c, value |-> "v"]
Sent == {<<Site("X", "A", "c")>>, <<Site("X", "A", "c"), Site("X", "B", "d")>>,
         <<Site(NoId, "A", "c"), Site("X", "B", "c")>>, <<Site("Y", "A", "d"), Site("X", "A", "c")>>,
         <<Site("X", "A", "c"), Site("X", "A", "d")>>}
ByHand == {Site("X", "A", "c"), Site("X", "B", "d"), Site(NoId, "A", "c")}

VARIABLE part

\* Every variable in groups, so that a step can leave all but one group alone.
desks == <<registerVars, travelVars, readersVars, adviceVars>>
accounts == <<tenancyVars, plansVars>>
vars == <<signalVars, desks, accounts, part>>

Init ==
    /\ part \in {"signals", "tenancy", "plans", "advice", "register",
                 "travel", "readers"}
    /\ SignalsInit /\ TenancyInit /\ PlansInit /\ AdviceInit
    /\ RegisterInit /\ TravelInit /\ ReadersInit
    \* Elsewhere nothing is stored at the start, and nobody has an account yet.
    /\ part # "signals" => DOMAIN rows = {}
    /\ account = [a \in Accounts |-> "none"]

Next ==
    /\ UNCHANGED part
    /\ \/ /\ part = "signals" /\ SignalsNext
          /\ UNCHANGED <<desks, accounts>>
       \/ /\ part = "tenancy" /\ TenancyNext
          /\ UNCHANGED <<signalVars, desks, plansVars>>
       \/ /\ part = "plans" /\ PlansNext
          /\ UNCHANGED <<signalVars, desks, tenancyVars>>
       \/ /\ part = "advice" /\ AdviceNext
          /\ UNCHANGED <<signalVars, registerVars, travelVars, readersVars, accounts>>
       \/ /\ part = "register" /\ RegisterNext
          /\ UNCHANGED <<signalVars, adviceVars, travelVars, readersVars, accounts>>
       \/ /\ part = "travel" /\ TravelNext
          /\ UNCHANGED <<signalVars, adviceVars, registerVars, readersVars, accounts>>
       \/ /\ part = "readers" /\ ReadersNext
          /\ UNCHANGED <<signalVars, adviceVars, registerVars, travelVars, accounts>>

Spec == Init /\ [][Next]_vars
=============================================================================
