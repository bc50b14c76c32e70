------------------------------ MODULE MCGraph ------------------------------
(* Three events: the second is kin to both others, the first and the third *)
(* by their tags, and it is older than they are.                           *)
EXTENDS EventGraph
CONSTANTS e1, e2, e3
MCFirst == [e \in Stories |-> IF e = e3 THEN 2 ELSE IF e = e2 THEN 1 ELSE 2]
MCKin == {{e1, e2}, {e2, e3}}
MCTagKin == {{e1, e2}, {e1, e3}}
============================================================================
