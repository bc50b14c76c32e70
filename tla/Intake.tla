------------------------------- MODULE Intake -------------------------------
(***************************************************************************)
(* From a scraped article to a member of an event: scrape, embed, cluster  *)
(* and archive, the first workers the scheduler runs.  Every worker reads  *)
(* its batch in one statement and writes it back at the commit, and any    *)
(* other worker may commit in between; a crash or an exception before the  *)
(* commit leaves the tables as they were (database.py: one transaction per *)
(* run).                                                                   *)
(***************************************************************************)
EXTENDS Corpus, Sequences

CONSTANTS
    Clusterers,     \* concurrent runs of the cluster worker
    EmbedLimit,     \* LIMIT 500 of the embed worker's query
    ClusterLimit    \* LIMIT 500 of the cluster worker's query

ASSUME IntakeAssumption ==
    /\ EmbedLimit \in Nat \ {0}
    /\ ClusterLimit \in Nat \ {0}

VARIABLES
    scraped,      \* the article rows, in the order of scraped_at
    embedded,     \* is_embedded
    clustered,    \* is_clustered
    fed,          \* events a feed signal created (their source is not NULL)
    archived,     \* is_archived
    aged,         \* how many of the oldest rows are past hot_data_days
    embedBatch,   \* rows the embed run holds
    clusterBatch, \* rows each cluster run holds
    loaded        \* those of them whose embedding it loaded

intakeVars == <<scraped, embedded, clustered, fed, archived, aged,
                embedBatch, clusterBatch, loaded>>

Rows == {scraped[i] : i \in DOMAIN scraped}

IntakeTypeOK ==
    /\ CorpusTypeOK
    /\ scraped \in Seq(Articles)
    /\ embedded \subseteq Articles
    /\ clustered \subseteq Articles
    /\ fed \subseteq events
    /\ archived \subseteq Articles
    /\ aged \in 0..Len(scraped)
    /\ embedBatch \subseteq Articles
    /\ clusterBatch \in [Clusterers -> SUBSET Articles]
    /\ loaded \in [Clusterers -> SUBSET Articles]
    /\ \A c \in Clusterers : loaded[c] \subseteq clusterBatch[c]

IntakeOwnInit ==
    /\ scraped = <<>>
    /\ embedded = {} /\ clustered = {} /\ archived = {} /\ fed = {}
    /\ aged = 0
    /\ embedBatch = {}
    /\ clusterBatch = [c \in Clusterers |-> {}]
    /\ loaded = [c \in Clusterers |-> {}]

IntakeInit == CorpusInit /\ IntakeOwnInit

-----------------------------------------------------------------------------
Earlier(a, b) ==
    \E i, j \in DOMAIN scraped : i < j /\ scraped[i] = a /\ scraped[j] = b

(* ORDER BY scraped_at ASC LIMIT n *)
Oldest(S, n) == {a \in S : Cardinality({b \in S : Earlier(b, a)}) < n}

(* scrape_source: a new article is inserted with every flag down.  A url   *)
(* already stored is skipped (ON CONFLICT url_hash DO NOTHING).            *)
Scrape(a) ==
    /\ a \notin Rows
    /\ scraped' = Append(scraped, a)
    /\ UNCHANGED <<embedded, clustered, fed, archived, aged,
                   embedBatch, clusterBatch, loaded>>
    /\ UNCHANGED corpusVars

StoreUnclustered(a, e) == \* mutant: the row is left to the cluster worker
    /\ a \notin Rows
    /\ scraped' = Append(scraped, a)
    /\ home' = [home EXCEPT ![a] = e]
    /\ UNCHANGED clustered

(* _persist_evidence: the document a signal came with is stored already    *)
(* attached to e, clustered and not embedded.                              *)
StoreEvidence(a, e) ==
    /\ a \notin Rows
    /\ scraped' = Append(scraped, a)
    /\ home' = [home EXCEPT ![a] = e]
    /\ clustered' = clustered \cup {a}

(* It is not when the signal has no evidence_url, or when an article with  *)
(* that url is stored, wherever that article belongs.                      *)
Evidence(e) ==
    \/ \E a \in Articles : StoreEvidence(a, e)
    \/ UNCHANGED <<scraped, home, clustered>>

FeedUntouched == UNCHANGED <<embedded, archived, aged, embedBatch,
                             clusterBatch, loaded, vectors>>

(* _upsert of a signal that is a new event: e.                             *)
FeedEvent(e) ==
    /\ e \notin events
    /\ events' = events \cup {e}
    /\ fed' = fed \cup {e}
    /\ Evidence(e)
    /\ FeedUntouched /\ UNCHANGED merged

(* One that tells the story of e again: d is stored for its provenance,    *)
(* merged into e, and the document goes to e.                              *)
FeedFold(d, e) ==
    /\ d \notin events /\ e \in events \ merged
    /\ events' = events \cup {d}
    /\ merged' = merged \cup {d}
    /\ fed' = fed \cup {d}
    /\ Evidence(e)
    /\ FeedUntouched

(* One that was seen before and refreshes e, the event it made or was      *)
(* merged into.                                                            *)
FeedAgain(e) ==
    /\ e \in events \ merged
    /\ Evidence(e)
    /\ FeedUntouched
    /\ UNCHANGED <<events, merged, fed>>

-----------------------------------------------------------------------------
EmbedSelect ==
    /\ embedBatch = {}
    /\ embedBatch' = Oldest((Rows \ embedded) \ archived, EmbedLimit)
    /\ embedBatch' # {}
    /\ UNCHANGED <<scraped, embedded, clustered, fed, archived, aged,
                   clusterBatch, loaded>>
    /\ UNCHANGED corpusVars

EmbedCommit ==
    /\ embedBatch # {}
    /\ embedded' = embedded \cup embedBatch
    /\ vectors' = vectors \cup embedBatch
    /\ embedBatch' = {}
    /\ UNCHANGED <<scraped, clustered, fed, archived, aged, clusterBatch,
                   loaded, events, merged, home>>

EmbedFailMarks == \* mutant: the flag is set before the embedder answers
    /\ embedBatch # {}
    /\ embedded' = embedded \cup embedBatch
    /\ embedBatch' = {}
    /\ UNCHANGED <<scraped, clustered, fed, archived, aged, clusterBatch,
                   loaded>>
    /\ UNCHANGED corpusVars

(* The embedder raised, or the process died: nothing is written.           *)
EmbedFail ==
    /\ embedBatch # {}
    /\ embedBatch' = {}
    /\ UNCHANGED <<scraped, embedded, clustered, fed, archived, aged,
                   clusterBatch, loaded>>
    /\ UNCHANGED corpusVars

-----------------------------------------------------------------------------
EveryEmbedded == embedded \* mutant: no is_clustered filter

(* The query of cluster_unprocessed_articles asks neither for an embedding *)
(* nor for is_archived.                                                    *)
Unclustered == embedded \ clustered

ClusterSelect(c) ==
    /\ clusterBatch[c] = {}
    /\ Unclustered # {}
    /\ clusterBatch' = [clusterBatch EXCEPT
                          ![c] = Oldest(Unclustered, ClusterLimit)]
    /\ loaded' = [loaded EXCEPT
                    ![c] = Oldest(Unclustered, ClusterLimit) \cap vectors]
    /\ UNCHANGED <<scraped, embedded, clustered, fed, archived, aged,
                   embedBatch>>
    /\ UNCHANGED corpusVars

(* cluster_article for every row of the batch, and the commit.  A row      *)
(* loaded without an embedding is skipped and keeps its flags; every other *)
(* one is attached to an event of the table, or to one it (or an earlier   *)
(* row of the batch) spawned.                                              *)
ClusterCommit(c) ==
    /\ clusterBatch[c] # {}
    /\ \E choice \in [loaded[c] -> Events] :
         /\ home' = [a \in Articles |->
                       IF a \in loaded[c] THEN choice[a] ELSE home[a]]
         /\ events' = events \cup {choice[a] : a \in loaded[c]}
    /\ clustered' = clustered \cup loaded[c]
    /\ clusterBatch' = [clusterBatch EXCEPT ![c] = {}]
    /\ loaded' = [loaded EXCEPT ![c] = {}]
    /\ UNCHANGED <<scraped, embedded, fed, archived, aged, embedBatch,
                   vectors, merged>>

ClusterFail(c) ==
    /\ clusterBatch[c] # {}
    /\ clusterBatch' = [clusterBatch EXCEPT ![c] = {}]
    /\ loaded' = [loaded EXCEPT ![c] = {}]
    /\ UNCHANGED <<scraped, embedded, clustered, fed, archived, aged,
                   embedBatch>>
    /\ UNCHANGED corpusVars

-----------------------------------------------------------------------------
(* Time passes: one more of the oldest rows is older than hot_data_days.   *)
Age ==
    /\ aged < Len(scraped)
    /\ aged' = aged + 1
    /\ UNCHANGED <<scraped, embedded, clustered, fed, archived,
                   embedBatch, clusterBatch, loaded>>
    /\ UNCHANGED corpusVars

Expired == {scraped[i] : i \in 1..aged} \ archived

(* One UPDATE: the row is marked and its content and embedding are dropped,*)
(* whatever stage it has reached.                                          *)
Archive ==
    /\ Expired # {}
    /\ archived' = archived \cup Expired
    /\ vectors' = vectors \ Expired
    /\ UNCHANGED <<scraped, embedded, clustered, fed, aged,
                   embedBatch, clusterBatch, loaded, events, merged, home>>

-----------------------------------------------------------------------------
IntakeNext ==
    \/ \E a \in Articles : Scrape(a)
    \/ \E e \in Events : FeedEvent(e) \/ FeedAgain(e)
    \/ \E d, e \in Events : FeedFold(d, e)
    \/ EmbedSelect \/ EmbedCommit \/ EmbedFail
    \/ \E c \in Clusterers :
         ClusterSelect(c) \/ ClusterCommit(c) \/ ClusterFail(c)
    \/ Age \/ Archive

IntakeSpec == IntakeInit /\ [][IntakeNext]_<<corpusVars, intakeVars>>

(* The scheduler starts every worker again on its interval, whatever       *)
(* became of the last run (scheduler._run_with_interval), and a run that   *)
(* is tried for ever is not refused for ever.                              *)
WorkerFairness ==
    /\ WF_<<corpusVars, intakeVars>>(EmbedSelect)
    /\ SF_<<corpusVars, intakeVars>>(EmbedCommit)
    /\ \A c \in Clusterers :
         /\ WF_<<corpusVars, intakeVars>>(ClusterSelect(c))
         /\ SF_<<corpusVars, intakeVars>>(ClusterCommit(c))

IntakeLiveSpec == IntakeSpec /\ WorkerFairness

-----------------------------------------------------------------------------
(* One scheduler process never runs the cluster worker twice at once: the  *)
(* loop awaits a run before it sleeps (scheduler.py:27-38).                *)
OneClusterer == \A c, d \in Clusterers : c = d

(* An article belongs to an event that exists, exactly when it is marked   *)
(* clustered: no run may leave a row half attached, and the flag is what   *)
(* every later reader goes by.                                             *)
AttachedIffClustered ==
    \A a \in Articles : (a \in clustered) <=> (home[a] \in events)

(* Every event the cluster worker spawned has an article: an empty one     *)
(* would be scored and marked mapped with nothing to show for it           *)
(* (importance_worker.py:59-62, mapping_worker.py:72-75).                  *)
EveryEventHasEvidence == \A e \in events \ fed : Members(e) # {}

(* An article is never moved from one event to another: with one run of    *)
(* the cluster worker, neither a batch in flight nor an evidence row the   *)
(* feed ingest attached is clustered again.                                *)
NeverRehomed ==
    [][\A a \in Articles : home[a] # NoEvent => home'[a] = home[a]]_home

(* While nothing expires, every article that reaches the table is          *)
(* clustered: no failing run and no batch limit keeps it waiting for ever. *)
NoArticleLeftBehind ==
    [](aged = 0) => \A a \in Articles : (a \in Rows) ~> (a \in clustered)
=============================================================================
