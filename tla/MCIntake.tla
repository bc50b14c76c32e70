------------------------------ MODULE MCIntake ------------------------------
(***************************************************************************)
(* What brings articles in: the intake workers with a handful of rows, and *)
(* the redirects of Google News that an ingest resolves.  Each behaviour   *)
(* is of one of the two, and which is chosen at the start.                 *)
(***************************************************************************)
EXTENDS Intake, MCLinks

VARIABLE part

rows == <<corpusVars, intakeVars>>
vars == <<rows, linksVars, part>>

Init == part \in {"intake", "links"} /\ IntakeInit /\ LinksInit

Next ==
    /\ UNCHANGED part
    /\ \/ part = "intake" /\ IntakeNext /\ UNCHANGED linksVars
       \/ part = "links" /\ LinksNext /\ UNCHANGED rows

\* Each part keeps the fairness of its own specification.
IntakePart ==
    LET in == part = "intake"
    IN  /\ WF_rows(in /\ EmbedSelect) /\ SF_rows(in /\ EmbedCommit)
        /\ \A c \in Clusterers : /\ WF_rows(in /\ ClusterSelect(c))
                                 /\ SF_rows(in /\ ClusterCommit(c))

LinksPart ==
    LET in == part = "links"
    IN  /\ WF_linksVars(in /\ \E news \in News : Offer(Scheduled, news))
        /\ \A f \in Fetches :
             /\ \A i \in Links : /\ WF_linksVars(in /\ AskGoogle(f, i))
                                 /\ WF_linksVars(in /\ \E found \in BOOLEAN : Answer(f, i, found))
             /\ WF_linksVars(in /\ \E kept \in SUBSET Links : Ingest(f, kept))

Spec == Init /\ [][Next]_vars /\ IntakePart /\ LinksPart
=============================================================================
