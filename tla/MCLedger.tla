------------------------------ MODULE MCLedger ------------------------------
(* Two forecasts of one event and one of a market question; the mutants.   *)
EXTENDS Ledger
CONSTANTS m1, m2, x1, x2, e1

MCEventOf == [m \in Maps |-> e1]
MCScoreOf == [m \in Maps |-> IF m = m1 THEN 60 ELSE 90]
MCQuestion == [r \in Maps \cup Markets |-> IF r \in Maps THEN e1 ELSE "rain"]
MCClosing == {<<x1, "yes">>, <<x1, "void">>, <<x2, "no">>}
=============================================================================
