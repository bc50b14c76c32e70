------------------------------ MODULE Pipeline ------------------------------
(***************************************************************************)
(* The article pipeline as the scheduler runs it: the workers of Intake and*)
(* of Synthesis side by side on the tables of Corpus.  A step is a step of *)
(* one worker; the ingest of a feed signal writes to both halves at once.  *)
(***************************************************************************)
EXTENDS Intake, Synthesis

PipelineInit == CorpusInit /\ IntakeOwnInit /\ SynthOwnInit

IntakeWorkerStep ==
    \/ \E a \in Articles : Scrape(a)
    \/ EmbedSelect \/ EmbedCommit \/ EmbedFail
    \/ \E c \in Clusterers :
         ClusterSelect(c) \/ ClusterCommit(c) \/ ClusterFail(c)
    \/ Age \/ Archive

FeedStep ==
    \/ \E e \in Events : \/ FeedEvent(e) /\ FeedNew(e)
                         \/ FeedAgain(e) /\ FeedRefresh(e)
    \/ \E d, e \in Events : FeedFold(d, e) /\ FeedFoldInto(d, e)

PipelineNext ==
    \/ IntakeWorkerStep /\ UNCHANGED synthVars
    \/ FeedStep
    \/ WorkerStep /\ UNCHANGED intakeVars

pipelineVars == <<corpusVars, intakeVars, synthVars>>

PipelineSpec == PipelineInit /\ [][PipelineNext]_pipelineVars

PipelineLiveSpec == PipelineSpec /\ WorkerFairness /\ MappingFairness

-----------------------------------------------------------------------------
(* Intake is an environment Synthesis allows: to the mapping and evolution *)
(* workers the other workers only attach articles without an event, create *)
(* events that have articles, and touch embeddings.                        *)
IntakeIsTheEnvironment == SynthSpec

(* While nothing expires, every article that reaches the table ends up in  *)
(* an event that has been through the mapping worker.                      *)
EveryArticleReachesAMap ==
    [](aged = 0) => \A a \in Articles :
                       (a \in Rows) ~> (home[a] \in mapped)
=============================================================================
