----------------------------- MODULE MCHistories ----------------------------
(***************************************************************************)
(* The two tables that are only ever added to, each written by several     *)
(* workers at once: the delivery log by two hosts, the consequence maps by *)
(* the mapping and evolution workers.  And what is computed from tables    *)
(* and answers without a step of its own: exposure, calibration, reading.  *)
(* Each behaviour is one of the five.                                      *)
(***************************************************************************)
EXTENDS MCDelivery, Synthesis, MCReckoning

Symmetry == Permutations(Articles) \cup Permutations(Events)

VARIABLE part

synthesisVars == <<corpusVars, synthVars>>
reckoningVars == <<exposureVars, graded, readingVars>>

\* While another part is at work the graph has no events and one answer stands
\* for all.
Init ==
    /\ part \in {"delivery", "synthesis", "exposure", "calibration", "reading"}
    /\ DeliveryInit /\ SynthInit
    /\ IF part = "exposure" THEN ExposureInit ELSE links = {} /\ unbacked = Nodes
    /\ CalibrationInit /\ ReadingInit
    /\ part # "reading" => before = <<>> /\ meant = ADocument /\ saying = ADocument

Reckon ==
    \/ part = "exposure" /\ ExposureNext /\ UNCHANGED <<graded, readingVars>>
    \/ part = "calibration" /\ CalibrationNext /\ UNCHANGED <<exposureVars, readingVars>>
    \/ part = "reading" /\ ReadingNext /\ UNCHANGED <<exposureVars, graded>>

Next ==
    /\ UNCHANGED part
    /\ \/ part = "delivery" /\ DeliveryNext /\ UNCHANGED <<synthesisVars, reckoningVars>>
       \/ part = "synthesis" /\ SynthNext /\ UNCHANGED <<vars, reckoningVars>>
       \/ Reckon /\ UNCHANGED <<vars, synthesisVars>>

Spec == Init /\ [][Next]_<<vars, synthesisVars, reckoningVars, part>>
=============================================================================
