------------------------------- MODULE Ledger -------------------------------
(***************************************************************************)
(* The forward prediction ledger: scripts/publish_ledger.py and            *)
(* scripts/publish_external_forecasts.py enter forecasts and anchor each   *)
(* day's set in a manifest; workers/outcome_worker.py grades the engine's  *)
(* own forecasts and workers/external_resolution_worker.py those on market *)
(* questions; workers/benchmark_worker.py caches the score that            *)
(* api/routes/benchmark.py also computes live; and                         *)
(* scripts/backfill_prediction_outcomes.py relabels events.                *)
(*                                                                         *)
(* The publishers commit each statement on its own; the graders commit     *)
(* once, at the end of a run.  A hash is the tuple it is computed from.    *)
(***************************************************************************)
EXTENDS Naturals, Sequences, SequencesExt, FiniteSets

CONSTANTS Maps,          \* consequence maps
          EventOf,       \* [Maps -> events]
          ScoreOf,       \* [Maps -> 0..100], prediction_score
          Markets,       \* questions of an outside market
          Question,      \* [maps and markets -> texts], what is forecast
          Chances,       \* the forecasts the engine makes of them
          Inside,        \* hosts that run the benchmark worker
          Enabled,       \* those of them with benchmark_publish_enabled
          Outside,       \* processes that publish external forecasts
          Graders,       \* processes that run the outcome worker
          PublishLimit, GradeLimit, PollLimit,
          MinScore,      \* MIN_PREDICTION_SCORE
          MinPoints,     \* MIN_CALIBRATION_POINTS
          Verdicts,      \* "materialized", "failed", and "partial" where it matters
          Old,           \* events already old enough to grade
          Newsworthy,    \* events that get articles
          Closing,       \* pairs: a question, and how it may close
          Relabelled,    \* events the back-fill is run for
          MaxDay, MaxOutsideRuns, MaxIncidents,  \* bounds
          Idle

Events == {EventOf[m] : m \in Maps}
Refs == Maps \cup Markets
Publishers == Inside \cup Outside
Days == 1..MaxDay
Ungraded == "ungraded"

ASSUME LedgerAssumption ==
    /\ Maps \cap Markets = {} /\ IsFiniteSet(Maps) /\ IsFiniteSet(Markets)
    /\ Inside \cap Outside = {}
    /\ Enabled \subseteq Inside
    /\ PublishLimit \in Nat /\ GradeLimit \in Nat /\ PollLimit \in Nat
    /\ MaxDay \in Nat /\ MaxDay >= 1 /\ MaxOutsideRuns \in Nat
    /\ MaxIncidents \in Nat /\ MinPoints \in Nat
    /\ {"materialized", "failed"} \subseteq Verdicts
    /\ Verdicts \subseteq {"materialized", "partial", "failed"}
    /\ Old \cup Relabelled \subseteq Events /\ Idle \notin Graders \cup Maps \cup Events
    /\ Closing \subseteq Markets \X {"yes", "no", "void"}
    /\ ScoreOf \in [Maps -> 0..100] /\ Chances \subseteq 0..100

VARIABLES
    made,      \* the maps, oldest first
    aged,      \* events first detected more than EVALUATION_LOOKBACK_DAYS ago
    later,     \* maps whose event has an article published after them
    market,    \* per question: "open", "yes", "no", "void"
    day,
    ledger,    \* benchmark_ledger: rows [ref, said, stamp, day]
    grade,     \* the resolution columns of the row of each ref
    outcomes,  \* prediction_outcomes: rows [event, map, verdict, by]
    manifest,  \* benchmark_manifests: per day, the hashes under the root
    anchor,    \* docs/benchmark/manifest-<date>.txt: per day, its hashes
    pub,       \* per publisher, its run
    runs,      \* how many external runs have begun
    grader,    \* per grader, its transaction
    poll,      \* the external resolver's transaction
    cached,    \* the newest benchmark_runs row
    relabel,   \* the event the back-fill has deleted and not yet labelled
    incidents, \* failed statements, dead runs and relabellings so far
    dirty      \* history: days with a row that no run has rolled up alone

vars == <<made, aged, later, market, day, ledger, grade, outcomes, manifest,
          anchor, pub, runs, grader, poll, cached, relabel, incidents, dirty>>

world == <<made, aged, later, market, day>>
book == <<ledger, grade, outcomes>>
roots == <<manifest, anchor, dirty>>
\* What the publishers leave alone, and what the graders do.
notPublishing == <<world, grade, outcomes, grader, poll, relabel>>
notGrading == <<world, ledger, roots, pub, runs, cached>>
-----------------------------------------------------------------------------
Row(ref, said, stamp, d) == [ref |-> ref, said |-> said, stamp |-> stamp, day |-> d]
Rows == [ref : Refs, said : 0..100, stamp : Nat, day : Days]

\* compute_content_hash(question_text, prediction_score, created_at)
Hash(row) == <<Question[row.ref], row.said, row.stamp>>
Hashes == {Question[r] : r \in Refs} \X (0..100) \X Nat
Published == {row.ref : row \in ledger}
\* compute_root_hash of the day: a root depends on the set of hashes only.
DayHashes(d) == {Hash(row) : row \in {r \in ledger : r.day = d}}

Made == Range(made)
Confident(m) == ScoreOf[m] >= MinScore

Stamp(m) == CHOOSE i \in DOMAIN made : made[i] = m

\* The batch of a set: its oldest maps, oldest first.
OldestFirst(due) ==
    {s \in SetToSeqs({m \in due : Cardinality({n \in due : Stamp(n) < Stamp(m)}) < PublishLimit}) :
        \A i, j \in DOMAIN s : i < j => Stamp(s[i]) < Stamp(s[j])}

UnpublishedAll == \* mutant: published maps stay in the batch
    OldestFirst({m \in Made : Confident(m)})

\* _fetch_unpublished: confident maps with no ledger row.
Unpublished == OldestFirst({m \in Made : Confident(m) /\ m \notin Published})

BuildEntries(maps, d) ==
    [i \in DOMAIN maps |-> Row(maps[i], ScoreOf[maps[i]], Stamp(maps[i]), d)]

\* Events with an outcome somebody evaluated are graded no more.
Evaluated == {o.event : o \in outcomes}
\* The outcome worker's selection, best score first.
Gradable ==
    {m \in Made : /\ Confident(m)
                  /\ EventOf[m] \in aged
                  /\ EventOf[m] \notin Evaluated}
BestFirst(set) ==
    {s \in SetToSeqs(set) : \A i, j \in DOMAIN s : i < j => ScoreOf[s[i]] >= ScoreOf[s[j]]}
ToGrade == {SubSeq(s, 1, IF Len(s) < GradeLimit THEN Len(s) ELSE GradeLimit) :
              s \in BestFirst(Gradable)}

\* The rows that have a grade, whatever their source.
Resolved == {r \in Published : grade[r] # Ungraded}
-----------------------------------------------------------------------------
NoRun == [pc |-> "idle", day |-> 1, left |-> <<>>, seen |-> {}, alone |-> FALSE]
ToScore(d) == [NoRun EXCEPT !.pc = "score", !.day = d]
NoTxn == [pc |-> "idle", todo |-> <<>>, judged |-> {}]

LedgerInit ==
    /\ made = <<>> /\ aged = Old /\ later = {} /\ day = 1
    /\ market = [x \in Markets |-> "open"]
    /\ ledger = {} /\ outcomes = {}
    /\ grade = [r \in Refs |-> Ungraded]
    /\ manifest = [d \in Days |-> {}] /\ anchor = [d \in Days |-> {}]
    /\ pub = [p \in Publishers |-> NoRun] /\ runs = 0
    /\ grader = [g \in Graders |-> NoTxn]
    /\ poll = [pc |-> "idle", todo |-> {}, found |-> {}]
    /\ cached = [n |-> 0, shown |-> FALSE]
    /\ relabel = Idle /\ incidents = 0 /\ dirty = {}
-----------------------------------------------------------------------------
(* The world: maps are made, events age, articles come, markets close.     *)

MapMade(m) ==
    /\ m \notin Made
    /\ made' = Append(made, m)
    /\ UNCHANGED <<aged, later, market, day, book, roots, pub, runs, grader, poll,
                   cached, relabel, incidents>>

Ripen(e) ==
    /\ e \notin aged
    /\ aged' = aged \cup {e}
    /\ UNCHANGED <<made, later, market, day, book, roots, pub, runs, grader, poll,
                   cached, relabel, incidents>>

\* An article of event e appears: it is later than every map e has by now.
ArticleArrives(e) ==
    /\ later' = later \cup {m \in Made : EventOf[m] = e}
    /\ later' # later
    /\ UNCHANGED <<made, aged, market, day, book, roots, pub, runs, grader, poll,
                   cached, relabel, incidents>>

MarketCloses(x, how) ==
    /\ market[x] = "open"
    /\ market' = [market EXCEPT ![x] = how]
    /\ UNCHANGED <<made, aged, later, day, book, roots, pub, runs, grader, poll,
                   cached, relabel, incidents>>

Midnight ==
    /\ day < MaxDay
    /\ day' = day + 1
    /\ UNCHANGED <<made, aged, later, market, book, roots, pub, runs, grader, poll,
                   cached, relabel, incidents>>
-----------------------------------------------------------------------------
(* Publishing.                                                             *)

\* The runs in progress on day d, and pub when p joins those of today with its rows.
Entering == {"insert", "upsert", "file"}
On(d, p) == {q \in Publishers \ {p} : pub[q].pc \in Entering /\ pub[q].day = d}
Joined(p, rows) ==
    [q \in Publishers |->
        IF q = p THEN [pc |-> "insert", day |-> day, left |-> rows, seen |-> {}, alone |-> On(day, p) = {}]
        ELSE IF q \in On(day, p) THEN [pub[q] EXCEPT !.alone = FALSE] ELSE pub[q]]

\* The benchmark worker, or the command line: read the batch, stamp the day.
\* A host that may not publish goes straight to its score.
StartInside(p) ==
    /\ pub[p].pc = "idle"
    /\ \E batch \in Unpublished :
         pub' = IF p \in Enabled THEN Joined(p, BuildEntries(batch, day))
                ELSE [pub EXCEPT ![p] = ToScore(day)]
    /\ UNCHANGED <<notPublishing, ledger, roots, runs, cached, incidents>>

\* The external publisher forecasts questions that are open now; every entry
\* of a run has the same created_at.
StartOutside(p, said) ==
    /\ pub[p].pc = "idle" /\ runs < MaxOutsideRuns
    /\ \A x \in DOMAIN said : market[x] = "open"
    /\ runs' = runs + 1
    /\ \E order \in SetToSeqs(DOMAIN said) :
         pub' = Joined(p, [i \in DOMAIN order |-> Row(order[i], said[order[i]], runs', day)])
    /\ UNCHANGED <<notPublishing, ledger, roots, cached, incidents>>

\* The row is new by its reference, but its hash is in the table.
Clashes(row) ==
    row.ref \notin Published /\ \E old \in ledger : Hash(old) = Hash(row)

\* INSERT ... ON CONFLICT DO NOTHING, committed at once.
Insert(p) ==
    /\ pub[p].pc = "insert" /\ pub[p].left # <<>>
    /\ ~Clashes(Head(pub[p].left))
    /\ LET row == Head(pub[p].left)
           new == row.ref \notin Published
       IN  /\ ledger' = IF new THEN ledger \cup {row} ELSE ledger
           /\ dirty' = IF new THEN dirty \cup {row.day} ELSE dirty
    /\ pub' = [pub EXCEPT ![p].left = Tail(@)]
    /\ UNCHANGED <<notPublishing, manifest, anchor, runs, cached, incidents>>

\* The day's hashes are read, the manifest row is written, then the file.
ReadDay(p) ==
    /\ pub[p].pc = "insert" /\ pub[p].left = <<>>
    /\ pub' = [pub EXCEPT ![p] = [@ EXCEPT !.pc = "upsert", !.seen = DayHashes(pub[p].day)]]
    /\ UNCHANGED <<notPublishing, ledger, roots, runs, cached, incidents>>

UpsertToday(p) == \* mutant: the root goes under the day it is by now
    /\ pub[p].pc = "upsert"
    /\ manifest' = [manifest EXCEPT ![day] = pub[p].seen]
    /\ pub' = [pub EXCEPT ![p].pc = "file"]
    /\ UNCHANGED <<notPublishing, ledger, anchor, dirty, runs, cached, incidents>>

Upsert(p) ==
    /\ pub[p].pc = "upsert"
    /\ manifest' = [manifest EXCEPT ![pub[p].day] = pub[p].seen]
    /\ pub' = [pub EXCEPT ![p].pc = "file"]
    /\ UNCHANGED <<notPublishing, ledger, anchor, dirty, runs, cached, incidents>>

WriteManifestFile(p) ==
    /\ pub[p].pc = "file"
    /\ anchor' = [anchor EXCEPT ![pub[p].day] = pub[p].seen]
    /\ dirty' = IF pub[p].alone THEN dirty \ {pub[p].day} ELSE dirty
    /\ pub' = IF p \in Inside THEN [pub EXCEPT ![p].pc = "score"]
              ELSE [pub EXCEPT ![p] = NoRun]
    /\ UNCHANGED <<notPublishing, ledger, manifest, runs, cached, incidents>>

\* A statement fails or the disk does: the rows entered so far stay.  The
\* benchmark worker marks its run as an error and goes on to the score.
GivenUp(p) ==
    [pub EXCEPT ![p] = IF p \in Inside THEN ToScore(pub[p].day) ELSE NoRun]

\* The unique index on content_hash is not the one ON CONFLICT names.
HashClash(p) ==
    /\ pub[p].pc = "insert" /\ pub[p].left # <<>>
    /\ Clashes(Head(pub[p].left))
    /\ pub' = GivenUp(p)
    /\ UNCHANGED <<notPublishing, ledger, roots, runs, cached, incidents>>

PublishFails(p) ==
    /\ pub[p].pc \in Entering /\ incidents < MaxIncidents
    /\ incidents' = incidents + 1
    /\ pub' = GivenUp(p)
    /\ UNCHANGED <<notPublishing, ledger, roots, runs, cached>>

\* _engine_skill over every resolved row, whatever its source.
Score(p) ==
    /\ pub[p].pc = "score"
    /\ cached' = [n |-> Cardinality(Resolved),
                  shown |-> Cardinality(Resolved) >= MinPoints]
    /\ pub' = [pub EXCEPT ![p] = NoRun]
    /\ UNCHANGED <<notPublishing, ledger, roots, runs, incidents>>
-----------------------------------------------------------------------------
(* Grading the engine's own forecasts: one transaction per run.            *)

GradeSelect(g) ==
    /\ grader[g].pc = "idle"
    /\ \E batch \in ToGrade :
         /\ batch # <<>>
         /\ grader' = [grader EXCEPT ![g] = [pc |-> "judge", todo |-> batch, judged |-> {}]]
    /\ UNCHANGED <<notGrading, grade, outcomes, poll, relabel, incidents>>

Wrote(g) == {j.map : j \in {k \in grader[g].judged : k.wrote}}

\* The first map of the transaction is done with, and what became of it.
Note(g, judgement) ==
    grader' = [grader EXCEPT ![g] = [pc |-> "judge", todo |-> Tail(grader[g].todo),
                                     judged |-> grader[g].judged \cup {judgement}]]

JudgeAgain(g, verdict) == \* mutant: without resolved_at IS NULL
    /\ grader[g].pc = "judge" /\ grader[g].todo # <<>>
    /\ LET m == Head(grader[g].todo) IN
       /\ m \in later
       /\ Note(g, [map |-> m, verdict |-> verdict, wrote |-> m \in Published])
    /\ UNCHANGED <<notGrading, grade, outcomes, poll, relabel, incidents>>

\* The model finds the forecast borne out or not; the outcome row is added and
\* the ledger row, if there is one without a grade, updated.  The update waits
\* for another run's uncommitted update of the same row.
Judge(g, verdict) ==
    /\ grader[g].pc = "judge" /\ grader[g].todo # <<>>
    /\ LET m == Head(grader[g].todo) IN
       /\ m \in later
       /\ \A h \in Graders \ {g} : m \notin Wrote(h)
       /\ Note(g, [map |-> m, verdict |-> verdict, wrote |-> m \in Published /\ grade[m] = Ungraded])
    /\ UNCHANGED <<notGrading, grade, outcomes, poll, relabel, incidents>>

\* No later evidence, too early, an unknown label or a failed call: no row.
LeavePending(g) ==
    /\ grader[g].pc = "judge" /\ grader[g].todo # <<>>
    /\ grader' = [grader EXCEPT ![g].todo = Tail(@)]
    /\ UNCHANGED <<notGrading, grade, outcomes, poll, relabel, incidents>>

GradeCommitOnce(g) == \* mutant: an event another run evaluated gets no second row
    /\ grader[g].pc = "judge" /\ grader[g].todo = <<>>
    /\ outcomes' = outcomes \cup
         {[event |-> EventOf[j.map], map |-> j.map, verdict |-> j.verdict, by |-> g] :
            j \in {k \in grader[g].judged : EventOf[k.map] \notin Evaluated}}
    /\ grade' = [r \in Refs |->
         IF r \in Wrote(g) THEN (CHOOSE j \in grader[g].judged : j.map = r).verdict ELSE grade[r]]
    /\ grader' = [grader EXCEPT ![g] = NoTxn]
    /\ UNCHANGED <<notGrading, poll, relabel, incidents>>

GradeCommit(g) ==
    /\ grader[g].pc = "judge" /\ grader[g].todo = <<>>
    /\ outcomes' = outcomes \cup
         {[event |-> EventOf[j.map], map |-> j.map, verdict |-> j.verdict, by |-> g] :
            j \in grader[g].judged}
    /\ grade' = [r \in Refs |->
         IF r \in Wrote(g)
         THEN (CHOOSE j \in grader[g].judged : j.map = r).verdict
         ELSE grade[r]]
    /\ grader' = [grader EXCEPT ![g] = NoTxn]
    /\ UNCHANGED <<notGrading, poll, relabel, incidents>>

GraderDies(g) ==
    /\ grader[g].pc = "judge" /\ incidents < MaxIncidents
    /\ grader' = [grader EXCEPT ![g] = NoTxn]
    /\ incidents' = incidents + 1
    /\ UNCHANGED <<notGrading, grade, outcomes, poll, relabel>>
-----------------------------------------------------------------------------
(* Grading forecasts on market questions: at most PollLimit rows a run, in *)
(* no order the query states.                                              *)

Polled == {x \in Markets \cap Published : grade[x] = Ungraded}

PollSelect ==
    /\ poll.pc = "idle"
    /\ \E some \in SUBSET Polled :
         /\ some # {}
         /\ Cardinality(some) <= PollLimit
         /\ some = Polled \/ Cardinality(some) = PollLimit
         /\ poll' = [pc |-> "poll", todo |-> some, found |-> {}]
    /\ UNCHANGED <<notGrading, grade, outcomes, grader, relabel, incidents>>

PollOneYes(x, answered) == \* mutant: NO is not a resolution
    /\ poll.pc = "poll" /\ x \in poll.todo
    /\ poll' = [poll EXCEPT !.todo = @ \ {x},
                            !.found = IF answered /\ market[x] = "yes"
                                      THEN @ \cup {[ref |-> x, verdict |-> "materialized"]} ELSE @]
    /\ UNCHANGED <<notGrading, grade, outcomes, grader, relabel, incidents>>

\* One market is asked; a network error or an open question leaves the row.
PollOne(x, answered) ==
    /\ poll.pc = "poll" /\ x \in poll.todo
    /\ poll' = [poll EXCEPT !.todo = @ \ {x},
                            !.found = IF answered /\ market[x] \in {"yes", "no"}
                                      THEN @ \cup {[ref |-> x, verdict |->
                                             IF market[x] = "yes" THEN "materialized" ELSE "failed"]}
                                      ELSE @]
    /\ UNCHANGED <<notGrading, grade, outcomes, grader, relabel, incidents>>

PollCommit ==
    /\ poll.pc = "poll" /\ poll.todo = {}
    /\ grade' = [r \in Refs |->
         IF \E f \in poll.found : f.ref = r /\ grade[r] = Ungraded
         THEN (CHOOSE f \in poll.found : f.ref = r).verdict
         ELSE grade[r]]
    /\ poll' = [pc |-> "idle", todo |-> {}, found |-> {}]
    /\ UNCHANGED <<notGrading, outcomes, grader, relabel, incidents>>

PollerDies ==
    /\ poll.pc = "poll" /\ incidents < MaxIncidents
    /\ poll' = [pc |-> "idle", todo |-> {}, found |-> {}]
    /\ incidents' = incidents + 1
    /\ UNCHANGED <<notGrading, grade, outcomes, grader, relabel>>
-----------------------------------------------------------------------------
(* The back-fill with --replace deletes an event's outcomes, then inserts  *)
(* the label it was given, each statement committed on its own.            *)

RelabelDelete(e) ==
    /\ relabel = Idle /\ incidents < MaxIncidents
    /\ relabel' = e /\ incidents' = incidents + 1
    /\ outcomes' = {o \in outcomes : o.event # e}
    /\ UNCHANGED <<world, ledger, grade, roots, pub, runs, grader, poll, cached>>

RelabelInsert(verdict) ==
    /\ relabel # Idle
    /\ outcomes' = outcomes \cup {[event |-> relabel, map |-> Idle, verdict |-> verdict, by |-> Idle]}
    /\ relabel' = Idle
    /\ UNCHANGED <<notGrading, grade, grader, poll, incidents>>
-----------------------------------------------------------------------------
Forecasts == UNION {[some -> Chances] : some \in SUBSET Markets}

PublishStep(p) ==
    \/ Insert(p) \/ HashClash(p) \/ ReadDay(p)
    \/ Upsert(p) \/ WriteManifestFile(p) \/ Score(p)
GradeStep(g) ==
    LeavePending(g) \/ GradeCommit(g) \/ \E v \in Verdicts : Judge(g, v)
PollStep ==
    PollCommit \/ \E x \in Markets, answered \in BOOLEAN : PollOne(x, answered)

LedgerNext ==
    \/ \E m \in Maps : MapMade(m)
    \/ \E e \in Events : Ripen(e)
    \/ \E e \in Relabelled : RelabelDelete(e)
    \/ \E e \in Newsworthy : ArticleArrives(e)
    \/ \E c \in Closing : MarketCloses(c[1], c[2])
    \/ Midnight
    \/ \E p \in Inside : StartInside(p)
    \/ \E p \in Outside, said \in Forecasts : StartOutside(p, said)
    \/ \E p \in Publishers : PublishStep(p) \/ PublishFails(p)
    \/ \E g \in Graders : GradeSelect(g) \/ GradeStep(g) \/ GraderDies(g)
    \/ PollSelect \/ PollStep \/ PollerDies
    \/ \E v \in Verdicts : RelabelInsert(v)

LedgerSpec == LedgerInit /\ [][LedgerNext]_vars

\* The scheduler starts each worker again and again and a started run goes on;
\* a question that is asked again and again is answered some time.
LedgerFairness ==
    /\ \A p \in Inside : WF_vars(StartInside(p))
    /\ \A p \in Publishers : WF_vars(PublishStep(p))
    /\ WF_vars(PollSelect) /\ WF_vars(PollStep)
    /\ \A x \in Markets : SF_vars(PollOne(x, TRUE))
LiveLedgerSpec == LedgerSpec /\ LedgerFairness
-----------------------------------------------------------------------------
(* What must hold.                                                         *)

Runs == [pc : {"idle", "insert", "upsert", "file", "score"}, day : Days,
         left : Seq(Rows), seen : SUBSET Hashes, alone : BOOLEAN]
Judgements == [map : Maps, verdict : Verdicts, wrote : BOOLEAN]

\* Types.
LedgerTypeOK ==
    /\ made \in Seq(Maps) /\ aged \subseteq Events /\ later \subseteq Maps
    /\ market \in [Markets -> {"open", "yes", "no", "void"}] /\ day \in Days
    /\ ledger \subseteq Rows /\ grade \in [Refs -> Verdicts \cup {Ungraded}]
    /\ outcomes \subseteq [event : Events, map : Maps \cup {Idle},
                           verdict : Verdicts, by : Graders \cup {Idle}]
    /\ manifest \in [Days -> SUBSET Hashes] /\ anchor \in [Days -> SUBSET Hashes]
    /\ pub \in [Publishers -> Runs] /\ runs \in Nat
    /\ grader \in [Graders -> [pc : {"idle", "judge"}, todo : Seq(Maps), judged : SUBSET Judgements]]
    /\ poll \in [pc : {"idle", "poll"}, todo : SUBSET Markets,
                 found : SUBSET [ref : Markets, verdict : Verdicts]]
    /\ relabel \in Events \cup {Idle} /\ incidents \in Nat
    /\ dirty \subseteq Days /\ cached \in [n : Nat, shown : BOOLEAN]

\* The table implements the book: an entry is made once, never altered or
\* removed, and graded once (the unique keys and WHERE resolved_at IS NULL).
Book == INSTANCE LedgerBook WITH Grades <- Verdicts, entries <- ledger, result <- grade
BookSpec == Book!BookSpec

\* No root and no committed file ever names a hash that is not in the table
\* under that day, however publishers interleave, fail or pass midnight.
ManifestTellsTruth ==
    \A d \in Days : manifest[d] \cup anchor[d] \subseteq DayHashes(d)

\* A day some run rolled up from start to end without another publisher is
\* anchored completely: root and file name every entry stamped with the day,
\* unless another run has entered one since.
ManifestComplete ==
    \A d \in Days \ dirty : manifest[d] = DayHashes(d) /\ anchor[d] = DayHashes(d)

\* A forecast is graded by what was found: the engine's own with the outcome
\* row of the same transaction, a market question with what the market says.
GradeIsEarned ==
    [][/\ \A m \in Maps : grade'[m] # grade[m] =>
            \E o \in outcomes' \ outcomes : o.map = m /\ o.verdict = grade'[m]
       /\ \A x \in Markets : grade'[x] # grade[x] =>
            grade'[x] = CASE market[x] = "yes" -> "materialized"
                          [] market[x] = "no" -> "failed"
                          [] OTHER -> Ungraded]_vars

\* A cached score is never shown for fewer resolved forecasts than the gate
\* asks for, then or at any later time.
GateHolds ==
    /\ cached.n <= Cardinality(Resolved)
    /\ cached.shown => Cardinality(Resolved) >= MinPoints

\* What the ledger shows the public: roots and files that name exactly what was
\* entered, and a score only where enough of it has been graded.
LedgerIsSound == ManifestTellsTruth /\ ManifestComplete /\ GateHolds

\* A host that may publish enters every confident forecast, batch by batch.
EveryForecastPublished ==
    \A m \in Maps : Confident(m) => (m \in Made ~> m \in Published)

Settled(x) == market[x] \in {"yes", "no"}

\* Rows the resolver asks about in vain: their question is open or void.
Waiting == {x \in Polled : ~Settled(x)}

\* A published forecast on a question the market settles gets its grade, though
\* calls fail, runs die and batches are taken in no order, as long as the rows
\* that wait in vain do not for ever suffice to fill a batch.
EveryMarketGraded ==
    \A x \in Markets : <>[](Cardinality(Waiting) < PollLimit) =>
        ((x \in Published /\ Settled(x)) ~> grade[x] # Ungraded)
=============================================================================
