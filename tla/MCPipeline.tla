----------------------------- MODULE MCPipeline -----------------------------
(* The whole pipeline on one article and two events, one of which can be   *)
(* folded into the other, with two mapping runs.  Liveness is checked: no  *)
(* symmetry.                                                               *)
EXTENDS Pipeline, TLC
=============================================================================
