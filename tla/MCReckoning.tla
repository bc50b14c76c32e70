----------------------------- MODULE MCReckoning ----------------------------
(***************************************************************************)
(* Inputs for what is computed rather than served: exposure scores and     *)
(* traces of a graph, skill and calibration of graded forecasts, and the   *)
(* reading of model answers.                                               *)
(***************************************************************************)
EXTENDS Exposure, Calibration, MCReading

\* Four events and the links they may get.
MCBase == [e \in Nodes |-> IF e = 1 THEN 3 ELSE 1]
MCEmits == [e \in Nodes |-> CASE e = 1 -> {<<"oil", 2, 1>>} [] e = 2 -> {<<"oil", 1, -1>>, <<"ships", 2, 1>>} [] OTHER -> {<<"ships", 1, 1>>}]
MCFeed == [e \in Nodes |-> CASE e = 1 -> NoFeed [] e = 2 -> "usgs" [] OTHER -> "gdacs"]
MCStress == [t \in {"oil", "ships", "chips"} |-> CASE t = "chips" -> 1 [] t = "oil" -> 2 [] OTHER -> 0]
L(a, b, d, s, g) == [a |-> a, b |-> b, direction |-> d, step |-> s, grounded |-> g]
MCMenu == {L(1,2,"a_to_b",1,TRUE), L(1,2,"none",1,TRUE), L(2,3,"a_to_b",1,FALSE), L(2,3,"none",1,TRUE), L(1,3,"a_to_b",3,TRUE),
           L(1,3,"b_to_a",1,TRUE), L(3,4,"a_to_b",1,TRUE), L(3,4,"none",2,FALSE), L(2,4,"none",1,TRUE), L(1,4,"a_to_b",2,TRUE)}
MCGain == <<3, 2, 1>>
MCConv == {{1,2},{2,3}}
=============================================================================
