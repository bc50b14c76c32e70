----------------------------- MODULE Synthesis ------------------------------
(***************************************************************************)
(* From an event to its consequence maps: the importance, mapping and      *)
(* evolution workers, and the feed ingest that writes an event and its     *)
(* first map at once.  The mapping and evolution workers read an event,    *)
(* wait for a language model in a thread, and only then read the latest    *)
(* version and write; every other worker runs meanwhile.  The mapping      *)
(* worker commits event by event, the evolution worker once, at the end.   *)
(* The tables of Corpus change under these workers' feet: Attach and       *)
(* Revector say how, and Pipeline shows that Intake does no more than that.*)
(***************************************************************************)
EXTENDS Corpus, Sequences

CONSTANTS
    Mappers,     \* concurrent runs of the mapping worker
    Evolvers,    \* concurrent runs of the evolution worker
    ScoreLimit,  \* LIMIT 200 of the importance worker's query
    MapLimit,    \* MAX_EVENTS_PER_RUN of the mapping worker
    EvolveLimit, \* MAX_EVENTS_PER_RUN of the evolution worker
    RowLimit,    \* MAX_ARTICLES_PER_CLUSTER of both
    MaxVersion   \* bound of the model: versions an event may reach

ASSUME SynthesisAssumption ==
    /\ {ScoreLimit, MapLimit, EvolveLimit, RowLimit} \subseteq Nat \ {0}
    /\ MaxVersion \in Nat

VARIABLES
    importance, \* articles.importance_score: 1 from 80 up, 0 below
    processed,  \* articles.is_processed
    scored,     \* events: is_importance_scored
    mapped,     \* events: is_mapped
    score,      \* global_importance_score: 0 not worth a map, 1 light, 2 deep
    active,     \* events whose status is developing or escalating
    maps,       \* versions of each event's maps, in the order of insertion
    revisions,  \* how many revisions each event has
    mapTodo,    \* events a mapping run has still to do
    mapCur,     \* the event whose answer it waits for
    mapRows,    \* the articles it sent
    mapNext,    \* the version it is about to write, 0 before it is known
    evoTodo,    \* events an evolution run has still to do
    evoCur,     \* the event whose answer it waits for
    evoRows,    \* the articles it sent
    evoDraft,   \* uncommitted map version of each event, 0 for none
    evoMarks    \* articles it will mark processed at the commit

mapRunVars == <<mapTodo, mapCur, mapRows, mapNext>>
evoRunVars == <<evoTodo, evoCur, evoRows, evoDraft, evoMarks>>
eventVars  == <<scored, mapped, score, active>>
tableVars  == <<importance, processed, eventVars, maps, revisions>>
synthVars  == <<tableVars, mapRunVars, evoRunVars>>

Depths == 0..2

SynthTypeOK ==
    /\ CorpusTypeOK
    /\ importance \in [Articles -> 0..1]
    /\ processed \subseteq Articles
    /\ scored \subseteq events
    /\ mapped \subseteq events
    /\ score \in [Events -> Depths]
    /\ active \subseteq Events
    /\ maps \in [Events -> Seq(Nat)]
    /\ revisions \in [Events -> Nat]
    /\ mapTodo \in [Mappers -> SUBSET events]
    /\ mapCur \in [Mappers -> events \cup {NoEvent}]
    /\ mapRows \in [Mappers -> SUBSET Articles]
    /\ mapNext \in [Mappers -> Nat]
    /\ evoTodo \in [Evolvers -> SUBSET mapped]
    /\ evoCur \in [Evolvers -> mapped \cup {NoEvent}]
    /\ evoRows \in [Evolvers -> SUBSET Articles]
    /\ evoDraft \in [Evolvers -> [Events -> Nat]]
    /\ evoMarks \in [Evolvers -> SUBSET Articles]

NoDraft == [e \in Events |-> 0]

SynthOwnInit ==
    /\ importance = [a \in Articles |-> 0]
    /\ processed = {}
    /\ scored = {} /\ mapped = {}
    /\ score = [e \in Events |-> 0]
    /\ active = Events
    /\ maps = [e \in Events |-> <<>>]
    /\ revisions = [e \in Events |-> 0]
    /\ mapTodo = [m \in Mappers |-> {}]
    /\ mapCur = [m \in Mappers |-> NoEvent]
    /\ mapRows = [m \in Mappers |-> {}]
    /\ mapNext = [m \in Mappers |-> 0]
    /\ evoTodo = [v \in Evolvers |-> {}]
    /\ evoCur = [v \in Evolvers |-> NoEvent]
    /\ evoRows = [v \in Evolvers |-> {}]
    /\ evoDraft = [v \in Evolvers |-> NoDraft]
    /\ evoMarks = [v \in Evolvers |-> {}]

SynthInit == CorpusInit /\ SynthOwnInit

(* The next version is one above the highest committed one, or 1.          *)
LatestVersion(e) == Max({0} \cup Range(maps[e]))

-----------------------------------------------------------------------------
(* The environment: rows of Corpus that other workers commit.              *)

(* The cluster worker gives articles without an event their event.         *)
Attach ==
    /\ \E A \in SUBSET {a \in Articles : home[a] = NoEvent} :
         \E choice \in [A -> Events] :
           /\ home' = [a \in Articles |-> IF a \in A THEN choice[a]
                                                     ELSE home[a]]
           /\ events' = events \cup {choice[a] : a \in A}
    /\ UNCHANGED <<vectors, merged>>
    /\ UNCHANGED synthVars

(* Embeddings come (embed worker) and go (archive worker).                 *)
Revector ==
    /\ vectors' \in SUBSET Articles
    /\ UNCHANGED <<events, merged, home>>
    /\ UNCHANGED synthVars

(* _upsert, with its document or without: the document it stores, attached *)
(* to e, carries the importance of the signal.                             *)
FeedAttach(e) ==
    /\ \/ UNCHANGED <<home, importance>>
       \/ \E a \in Articles, i \in 0..1 :
            /\ home[a] = NoEvent
            /\ home' = [home EXCEPT ![a] = e]
            /\ importance' = [importance EXCEPT ![a] = i]
    /\ UNCHANGED <<vectors, processed, revisions, mapRunVars, evoRunVars>>

(* A new event is born mapped and scored.                                  *)
Born(e) ==
    /\ e \notin events
    /\ events' = events \cup {e}
    /\ scored' = scored \cup {e}
    /\ mapped' = mapped \cup {e}

(* Its first map comes with it.                                            *)
FeedNew(e) ==
    /\ Born(e)
    /\ \E s \in Depths : score' = [score EXCEPT ![e] = s]
    /\ \E quiet \in SUBSET {e} : active' = active \ quiet
    /\ maps' = [maps EXCEPT ![e] = <<1>>]
    /\ FeedAttach(e)
    /\ UNCHANGED merged

(* Events the ingest can find again: those with a category, which it wrote *)
(* itself or the mapping worker has mapped, and no merged ones.            *)
Findable == {e \in mapped \ merged : maps[e] # <<>>}

(* A duplicate of e is stored as d, mapped but without a map, and e is     *)
(* corroborated: its importance and status only rise.                      *)
FeedFoldInto(d, e) ==
    /\ e \in Findable
    /\ Born(d)
    /\ merged' = merged \cup {d}
    /\ \E s, t \in Depths :
         t >= score[e] /\ score' = [score EXCEPT ![d] = s, ![e] = t]
    /\ \E quiet \in SUBSET {d}, louder \in SUBSET {e} :
         active' = (active \ quiet) \cup louder
    /\ FeedAttach(e)
    /\ UNCHANGED maps

(* A signal seen before: importance and status of e follow it.             *)
FeedRefresh(e) ==
    /\ e \in Findable
    /\ \E s \in Depths : score' = [score EXCEPT ![e] = s]
    /\ \/ active' = active \cup {e}
       \/ active' = active \ {e}
    /\ FeedAttach(e)
    /\ UNCHANGED <<events, merged, scored, mapped, maps>>

-----------------------------------------------------------------------------
(* score_unscored_events: an event without articles is scored in name only;*)
(* the articles the others have now get their score, later ones never do.  *)
Score ==
    /\ \E S \in SUBSET ((events \ scored) \ mapped) :
         /\ S # {} /\ Cardinality(S) <= ScoreLimit
         /\ scored' = scored \cup S
         /\ \E grade \in [{e \in S : Members(e) # {}} -> Depths] :
              score' = [e \in Events |-> IF e \in DOMAIN grade THEN grade[e]
                                                               ELSE score[e]]
         /\ \E grade \in [UNION {Members(e) : e \in S} -> 0..1] :
              importance' = [a \in Articles |->
                               IF a \in DOMAIN grade THEN grade[a]
                                                     ELSE importance[a]]
    /\ UNCHANGED <<processed, mapped, active, maps, revisions>>
    /\ UNCHANGED <<mapRunVars, evoRunVars, corpusVars>>

-----------------------------------------------------------------------------

(* run_mapping_worker: the highest-scored events waiting, then one session *)
(* for each.  A run whose llm_allowed is false ends before this.           *)
MapSelect(m) ==
    /\ mapTodo[m] = {} /\ mapCur[m] = NoEvent
    /\ \E S \in TopSets(scored \ mapped, MapLimit, score) :
         S # {} /\ mapTodo' = [mapTodo EXCEPT ![m] = S]
    /\ UNCHANGED <<mapCur, mapRows, mapNext, evoRunVars, tableVars, corpusVars>>

NextInPlan(m, e) ==
    /\ mapCur[m] = NoEvent
    /\ e \in mapTodo[m]
    /\ mapTodo' = [mapTodo EXCEPT ![m] = @ \ {e}]

MapSkipUnmarked(m, e) == \* mutant: a skipped event is not marked
    /\ NextInPlan(m, e)
    /\ e \in mapped \/ score[e] = 0 \/ Members(e) = {}
    /\ UNCHANGED <<mapCur, mapRows, mapNext, evoRunVars, tableVars, corpusVars>>

(* Left alone because another run mapped it since (`if not event or        *)
(* event.is_mapped`), or marked without a map: depth "none" or no articles.*)
MapSkip(m, e) ==
    /\ NextInPlan(m, e)
    /\ e \in mapped \/ score[e] = 0 \/ Members(e) = {}
    /\ mapped' = mapped \cup {e}
    /\ UNCHANGED <<mapCur, mapRows, mapNext, evoRunVars, importance, processed,
                   scored, score, active, maps, revisions, corpusVars>>

MapAsk(m, e) ==
    /\ NextInPlan(m, e)
    /\ e \notin mapped
    /\ score[e] # 0 /\ Members(e) # {}
    /\ mapCur' = [mapCur EXCEPT ![m] = e]
    /\ \E R \in TopSets(Members(e), RowLimit, importance) :
         mapRows' = [mapRows EXCEPT ![m] = R]
    /\ UNCHANGED <<mapNext, evoRunVars, tableVars, corpusVars>>

(* The answer is there: the version is read ...                            *)
MapAnswer(m) ==
    LET e == mapCur[m] IN
    /\ e # NoEvent /\ mapNext[m] = 0
    /\ LatestVersion(e) < MaxVersion
    /\ mapNext' = [mapNext EXCEPT ![m] = LatestVersion(e) + 1]
    /\ UNCHANGED <<mapTodo, mapCur, mapRows, evoRunVars, tableVars, corpusVars>>

MapDone(m) ==
    /\ mapCur' = [mapCur EXCEPT ![m] = NoEvent]
    /\ mapRows' = [mapRows EXCEPT ![m] = {}]
    /\ mapNext' = [mapNext EXCEPT ![m] = 0]

(* ... and everything the answer says of the event is committed at once.   *)
MapCommit(m) ==
    LET e == mapCur[m] IN
    /\ e # NoEvent /\ mapNext[m] # 0
    /\ maps' = [maps EXCEPT ![e] = Append(@, mapNext[m])]
    /\ mapped' = mapped \cup {e}
    /\ \E s \in Depths : score' = [score EXCEPT ![e] = s]
    /\ \/ active' = active \cup {e}
       \/ active' = active \ {e}
    /\ processed' = processed \cup mapRows[m]
    /\ MapDone(m)
    /\ UNCHANGED <<mapTodo, importance, scored, revisions, evoRunVars,
                   corpusVars>>

MapFailMarks(m) == \* mutant: the event leaves the queue all the same
    /\ mapCur[m] # NoEvent
    /\ mapped' = mapped \cup {mapCur[m]}
    /\ MapDone(m)
    /\ UNCHANGED <<mapTodo, evoRunVars, importance, processed, scored, score,
                   active, maps, revisions, corpusVars>>

(* The model raised (map_event returns None) or the session did: the event *)
(* stays as it was and a later run finds it again.                         *)
MapFail(m) ==
    /\ mapCur[m] # NoEvent
    /\ MapDone(m)
    /\ UNCHANGED <<mapTodo, evoRunVars, tableVars, corpusVars>>

-----------------------------------------------------------------------------

(* run_evolution_worker: up to EvolveLimit mapped events that are still    *)
(* developing, in no particular order, all in one transaction.             *)
EvolveSelect(v) ==
    /\ evoTodo[v] = {} /\ evoCur[v] = NoEvent /\ evoDraft[v] = NoDraft
    /\ \E S \in SUBSET (mapped \cap active) :
         /\ Cardinality(S) = Min({EvolveLimit, Cardinality(mapped \cap active)})
         /\ S # {}
         /\ evoTodo' = [evoTodo EXCEPT ![v] = S]
    /\ UNCHANGED <<evoCur, evoRows, evoDraft, evoMarks, mapRunVars,
                   tableVars, corpusVars>>

Fresh(e) == Members(e) \ processed

(* check_for_evolution can only be true if something new presses: a fresh  *)
(* article of high importance, or one with an embedding to drift from.     *)
Pressed(e) == \E a \in Fresh(e) : importance[a] = 1 \/ a \in vectors

EvolveSkip(v, e) ==
    /\ evoCur[v] = NoEvent
    /\ e \in evoTodo[v]
    /\ evoTodo' = [evoTodo EXCEPT ![v] = @ \ {e}]
    /\ UNCHANGED <<evoCur, evoRows, evoDraft, evoMarks, mapRunVars,
                   tableVars, corpusVars>>

EvolveAsk(v, e) ==
    /\ evoCur[v] = NoEvent
    /\ e \in evoTodo[v]
    /\ Pressed(e)
    /\ evoTodo' = [evoTodo EXCEPT ![v] = @ \ {e}]
    /\ evoCur' = [evoCur EXCEPT ![v] = e]
    /\ \E R \in TopSets(Members(e), RowLimit, importance) :
         evoRows' = [evoRows EXCEPT ![v] = R]
    /\ UNCHANGED <<evoDraft, evoMarks, mapRunVars, tableVars, corpusVars>>

(* The next version and the revision are flushed, the articles that were   *)
(* sent are marked; nothing is committed yet.                              *)
EvolveAnswer(v) ==
    LET e == evoCur[v] IN
    /\ e # NoEvent
    /\ LatestVersion(e) < MaxVersion
    /\ evoDraft' = [evoDraft EXCEPT ![v][e] = LatestVersion(e) + 1]
    /\ evoMarks' = [evoMarks EXCEPT ![v] = @ \cup evoRows[v]]
    /\ evoCur' = [evoCur EXCEPT ![v] = NoEvent]
    /\ evoRows' = [evoRows EXCEPT ![v] = {}]
    /\ UNCHANGED <<evoTodo, mapRunVars, tableVars, corpusVars>>

(* The model raised: the error is counted and the next event is taken.     *)
EvolveFail(v) ==
    /\ evoCur[v] # NoEvent
    /\ evoCur' = [evoCur EXCEPT ![v] = NoEvent]
    /\ evoRows' = [evoRows EXCEPT ![v] = {}]
    /\ UNCHANGED <<evoTodo, evoDraft, evoMarks, mapRunVars, tableVars,
                   corpusVars>>

Drafted(v) == {e \in Events : evoDraft[v][e] # 0}

EvolveEndKeepsDrafts(v) == \* mutant: the drafts outlive the session
    /\ evoTodo' = [evoTodo EXCEPT ![v] = {}]
    /\ evoCur' = [evoCur EXCEPT ![v] = NoEvent]
    /\ evoRows' = [evoRows EXCEPT ![v] = {}]
    /\ evoMarks' = [evoMarks EXCEPT ![v] = {}]
    /\ UNCHANGED evoDraft


EvolveEnd(v) ==
    /\ evoTodo' = [evoTodo EXCEPT ![v] = {}]
    /\ evoCur' = [evoCur EXCEPT ![v] = NoEvent]
    /\ evoRows' = [evoRows EXCEPT ![v] = {}]
    /\ evoDraft' = [evoDraft EXCEPT ![v] = NoDraft]
    /\ evoMarks' = [evoMarks EXCEPT ![v] = {}]

EvolveCommitOneRevision(v) == \* mutant: one revision for the whole run
    /\ evoTodo[v] = {} /\ evoCur[v] = NoEvent
    /\ Drafted(v) # {}
    /\ maps' = [e \in Events |-> IF e \in Drafted(v)
                                 THEN Append(maps[e], evoDraft[v][e])
                                 ELSE maps[e]]
    /\ \E e \in Drafted(v) : revisions' = [revisions EXCEPT ![e] = @ + 1]
    /\ \E A \in SUBSET Drafted(v) : active' = (active \ Drafted(v)) \cup A
    /\ processed' = processed \cup evoMarks[v]
    /\ EvolveEnd(v)
    /\ UNCHANGED <<importance, scored, mapped, score, mapRunVars, corpusVars>>

EvolveCommit(v) ==
    /\ evoTodo[v] = {} /\ evoCur[v] = NoEvent
    /\ Drafted(v) # {}
    /\ maps' = [e \in Events |-> IF e \in Drafted(v)
                                 THEN Append(maps[e], evoDraft[v][e])
                                 ELSE maps[e]]
    /\ revisions' = [e \in Events |-> IF e \in Drafted(v)
                                      THEN revisions[e] + 1
                                      ELSE revisions[e]]
    /\ \E A \in SUBSET Drafted(v) : active' = (active \ Drafted(v)) \cup A
    /\ processed' = processed \cup evoMarks[v]
    /\ EvolveEnd(v)
    /\ UNCHANGED <<importance, scored, mapped, score, mapRunVars, corpusVars>>

-----------------------------------------------------------------------------
(* The process dies, or the commit fails: a run loses what it holds.       *)
MapCrash(m) ==
    /\ mapTodo[m] # {} \/ mapCur[m] # NoEvent
    /\ mapTodo' = [mapTodo EXCEPT ![m] = {}]
    /\ MapDone(m)
    /\ UNCHANGED <<evoRunVars, tableVars, corpusVars>>

EvolveCrash(v) ==
    /\ evoTodo[v] # {} \/ evoCur[v] # NoEvent \/ evoDraft[v] # NoDraft
    /\ EvolveEnd(v)
    /\ UNCHANGED <<mapRunVars, tableVars, corpusVars>>

-----------------------------------------------------------------------------
MapNextStep(m) ==
    \/ MapSelect(m) \/ MapAnswer(m) \/ MapCommit(m) \/ MapFail(m) \/ MapCrash(m)
    \/ \E e \in Events : MapSkip(m, e) \/ MapAsk(m, e)

EvolveNextStep(v) ==
    \/ EvolveSelect(v) \/ EvolveAnswer(v) \/ EvolveFail(v)
    \/ EvolveCommit(v) \/ EvolveCrash(v)
    \/ \E e \in Events : EvolveSkip(v, e) \/ EvolveAsk(v, e)

WorkerStep ==
    \/ Score
    \/ \E m \in Mappers : MapNextStep(m)
    \/ \E v \in Evolvers : EvolveNextStep(v)

SynthNext ==
    \/ WorkerStep
    \/ Attach \/ Revector
    \/ \E e \in Events : FeedNew(e) \/ FeedRefresh(e)
    \/ \E d, e \in Events : FeedFoldInto(d, e)

SynthSpec == SynthInit /\ [][SynthNext]_<<corpusVars, synthVars>>

OneWriterEach ==
    /\ \A m, n \in Mappers : m = n
    /\ \A v, w \in Evolvers : v = w
-----------------------------------------------------------------------------
(* The maps of an event are numbered 1, 2, 3 ... in the order they were    *)
(* committed.  The version is read long before the commit, by two workers  *)
(* that do not know of each other, and no unique index backs it up.        *)
VersionsContiguous ==
    \A e \in Events : \A i \in DOMAIN maps[e] : maps[e][i] = i

(* Every map but the first has its revision, and no revision stands for a  *)
(* map that was lost: an event's first map comes from the mapping worker   *)
(* or the ingest (no revision) or from the evolution worker (one).         *)
RevisionsFollowMaps ==
    \A e \in Events : revisions[e] \in {Len(maps[e]), Len(maps[e]) - 1}

(* An article is only ever marked processed for an event whose map was     *)
(* committed with it: no failing or dying run consumes an article.         *)
ProcessedWasMapped ==
    \A a \in processed : home[a] \in mapped /\ maps[home[a]] # <<>>

(* An event leaves the mapping queue without a map only if it was not worth*)
(* one: a failing model, a crash or another worker's commit never costs an *)
(* event its map.  (A merged duplicate never was in the queue.)            *)
MapNotLost ==
    \A e \in mapped \ merged : maps[e] = <<>> => score[e] = 0

History == INSTANCE MapHistory WITH history <- maps

(* The workers together keep the promise of MapHistory.                    *)
KeepsHistory == History!HistorySpec

(* The mapping worker's runs are repeated for ever, and a run that is tried*)
(* for ever neither always dies nor always gets an error for an answer.    *)
MappingFairness ==
    /\ WF_<<corpusVars, synthVars>>(Score)
    /\ \A m \in Mappers :
         /\ WF_<<corpusVars, synthVars>>(MapSelect(m))
         /\ SF_<<corpusVars, synthVars>>(MapAnswer(m))
         /\ SF_<<corpusVars, synthVars>>(MapCommit(m))
         /\ SF_<<corpusVars, synthVars>>(
                \E e \in Events :
                    MapSkip(m, e) \/ MapAsk(m, e))
=============================================================================
