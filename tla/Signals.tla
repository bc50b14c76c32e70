------------------------------ MODULE Signals ------------------------------
(***************************************************************************)
(* How feed items become events.  workers/hazard_ingest_worker.py upserts  *)
(* structured feeds, one savepoint an item; workers/osint_ingest_worker.py *)
(* triages posts (services/osint_agent.py) and upserts them through the    *)
(* same function with no savepoint.  admin/merge_duplicate_events.py folds *)
(* what is already stored.  A run is one transaction: its rows are unseen  *)
(* by the others until it commits, and with autoflush off its own queries  *)
(* do not see what it has added and not flushed.                           *)
(***************************************************************************)
EXTENDS Naturals, FiniteSets, SequencesExt

CONSTANTS
    Items,       \* (source, external_id) pairs, one per feed document
    OsintItems,  \* those whose source starts with "osint"
    Doc,         \* [Items -> Documents], the item's evidence_url
    Outlet,      \* [Items -> outlet names]
    Category,    \* [Items -> categories]
    Alike,       \* sets {i, j} of items whose titles the source's rule matches
    HazardBatches, OsintBatches, \* what a poll may bring, sequences of items
    Ingests,     \* processes that run an ingest worker
    Starts,      \* sets of items that may be stored already, each as an event
    Grades,      \* [Items -> sets of importances] an item may be given
    MaxIngests, MaxMerges, MaxLost \* bounds: runs; merge scripts; deaths and failures

Canonical == "canonical" \* merged_into_id is NULL

ASSUME SignalsAssumption ==
    /\ OsintItems \subseteq Items /\ Canonical \notin Items
    /\ DOMAIN Doc = Items /\ DOMAIN Outlet = Items /\ DOMAIN Category = Items
    /\ \A i \in Items : Doc[i] \notin Items \* keys of two tables
    /\ \A p \in Alike : p \subseteq Items
    /\ HazardBatches \subseteq Seq(Items \ OsintItems) /\ OsintBatches \subseteq Seq(OsintItems)
    /\ Grades \in [Items -> SUBSET Nat]
    /\ \A s \in Starts : /\ s \subseteq Items /\ IsFiniteSet(s)
                         /\ \A i, j \in s : Doc[i] = Doc[j] => i = j

VARIABLES
    rows,     \* committed events: item -> [grade, into]
    docs,     \* committed articles: [doc, at], at the item whose event holds it
    outlets,  \* committed source rows
    stale,    \* events older than DEDUP_WINDOW_DAYS
    judged,   \* committed triage decisions: [item, kept, method]
    cooling,  \* the breaker of osint_agent is tripped (per process, shared here)
    ingest,   \* per process: the run's session
    merger,   \* the merge script: its step and plan
    ingests, merges, lost

signalVars == <<rows, docs, outlets, stale, judged, cooling, ingest, merger, ingests, merges, lost>>

NewRun == [pc |-> "idle", kind |-> "hazard", todo |-> <<>>, taken |-> {}, llm |-> FALSE,
          added |-> <<>>, grades |-> <<>>, docs |-> {}, outs |-> {}, \* its writes
          raw |-> {}, dirty |-> {}, due |-> {}, held |-> {},          \* and how far they got
          clash |-> FALSE, dead |-> FALSE, judged |-> {}, beaten |-> {},
          before |-> [added |-> <<>>, grades |-> <<>>, docs |-> {}, outs |-> {}]]
NoMerger == [pc |-> "idle", plan |-> {}, was |-> <<>>]

Visible(set) == {i \in DOMAIN set : set[i].into = Canonical}
-----------------------------------------------------------------------------
(* What a session sees: committed rows under its own writes, without the   *)
(* rows and articles it has not flushed.                                   *)

Mine(s) ==
    [i \in DOMAIN rows \cup DOMAIN s.added |->
        LET r == IF i \in DOMAIN s.added THEN s.added[i] ELSE rows[i]
        IN  IF i \in DOMAIN s.grades THEN [r EXCEPT !.grade = s.grades[i]] ELSE r]

Found(s) == (DOMAIN rows \cup DOMAIN s.added) \ s.raw
DocsFound(s) == ({d.doc : d \in docs} \cup {d.doc : d \in s.docs}) \ s.raw

SameRegime(i, j) == (i \in OsintItems) = (j \in OsintItems)

\* _find_duplicate: the most important recent canonical event of the regime and
\* category whose title matches (ties are ordered as the database pleases).
FindDuplicate(s, i) ==
    LET like == {j \in Found(s) : /\ Mine(s)[j].into = Canonical /\ j \notin stale
                                  /\ SameRegime(i, j) /\ Category[i] = Category[j]
                                  /\ {i, j} \in Alike}
    IN  {j \in like : \A k \in like : Mine(s)[k].grade =< Mine(s)[j].grade}

Put(f, i, v) == [j \in DOMAIN f \cup {i} |-> IF j = i THEN v ELSE f[j]]
Higher(a, b) == IF a < b THEN b ELSE a
Graded(s, i, g) == [s EXCEPT !.grades = Put(@, i, g), !.dirty = @ \cup {i}]
Corroborate(s, i, g) == Graded(s, i, Higher(Mine(s)[i].grade, g))

Flushing(s) == [s EXCEPT !.due = @ \cup s.raw \cup s.dirty, !.raw = {}, !.dirty = {}]

\* _persist_evidence: one article per document; a new outlet is flushed before it.
PersistEvidence(s, i, at) ==
    IF Doc[i] \in DocsFound(s) THEN s
    ELSE LET t == IF Outlet[i] \in outlets \cup s.outs THEN s ELSE Flushing(s)
         IN  [t EXCEPT !.docs = @ \cup {[doc |-> Doc[i], at |-> at]},
                       !.outs = @ \cup {Outlet[i]},
                       !.clash = @ \/ Doc[i] \in s.raw,
                       !.raw = @ \cup {Doc[i]}]

AddRow(s, i, r) == [s EXCEPT !.added = Put(@, i, r), !.clash = @ \/ i \in DOMAIN s.added,
                             !.raw = @ \cup {i}]

\* _upsert: what the session may become.
Upsert(s, i, g) ==
    IF i \in Found(s)
    THEN LET c == Mine(s)[i].into
         IN  IF c = Canonical THEN {PersistEvidence(Graded(s, i, g), i, i)}
             ELSE {PersistEvidence(Corroborate(s, c, g), i, c)}
    ELSE IF FindDuplicate(s, i) # {}
    THEN {AddRow(PersistEvidence(Corroborate(s, c, g), i, c), i, [grade |-> g, into |-> c]) :
            c \in FindDuplicate(s, i)}
    ELSE {PersistEvidence(Flushing(AddRow(s, i, [grade |-> g, into |-> Canonical])), i, i)}

\* The hazard worker flushes at the end of each savepoint.
Upserted(s, i, g) ==
    LET ends(t) == IF s.kind = "hazard" THEN Flushing(t) ELSE t
    IN  {[ends(t) EXCEPT !.pc = IF ends(t).due = {} THEN "items" ELSE "flush"] :
            t \in Upsert(s, i, g)}
-----------------------------------------------------------------------------
\* Alike events may stand side by side from the start: what was stored before
\* ingest looked for duplicates, by two runs at a time or too far apart.
SignalsInit ==
    /\ \E start \in Starts : \E g \in [start -> UNION Range(Grades)] :
         /\ \A i \in start : g[i] \in Grades[i]
         /\ rows = [i \in start |-> [grade |-> g[i], into |-> Canonical]]
         /\ docs = {[doc |-> Doc[i], at |-> i] : i \in start}
         /\ outlets = {Outlet[i] : i \in start}
         /\ ingests = IF start = {} THEN 0 ELSE 1 \* a run stored them
    /\ stale = {} /\ judged = {}
    /\ cooling = FALSE
    /\ ingest = [w \in Ingests |-> NewRun]
    /\ merger = NoMerger
    /\ merges = 0 /\ lost = 0

\* A run polls its feeds, then opens its transaction.  A batch has the items that
\* _upsert does not turn away at once for want of coordinates.
Poll(w) ==
    /\ ingest[w].pc = "idle" /\ ingests < MaxIngests
    /\ \E kind \in {"hazard", "osint"}, llm \in BOOLEAN :
       \E b \in IF kind = "hazard" THEN HazardBatches ELSE OsintBatches :
         /\ kind = "hazard" => ~llm
         /\ ingest' = [ingest EXCEPT ![w] =
              [NewRun EXCEPT !.pc = "items", !.kind = kind, !.llm = llm, !.todo = b]]
    /\ ingests' = ingests + 1
    /\ UNCHANGED <<rows, docs, outlets, stale, judged, cooling, merger, merges, lost>>

Next1(w) == Head(ingest[w].todo)
Begun(w) == [ingest[w] EXCEPT !.todo = Tail(@), !.taken = @ \cup {Next1(w)}]
Saved(s) == [s EXCEPT !.before = [added |-> s.added, grades |-> s.grades,
                                  docs |-> s.docs, outs |-> s.outs]]

\* seen: a key is taken once in a run.
TakeSignal(w) ==
    /\ ingest[w].pc = "items" /\ ingest[w].kind = "hazard" /\ ingest[w].todo # <<>>
    /\ IF Next1(w) \in ingest[w].taken THEN ingest' = [ingest EXCEPT ![w] = Begun(w)]
       ELSE \E g \in Grades[Next1(w)] : \E s \in Upserted(Saved(Begun(w)), Next1(w), g) :
              ingest' = [ingest EXCEPT ![w] = s]
    /\ UNCHANGED <<rows, docs, outlets, stale, judged, cooling, merger, ingests, merges, lost>>

\* triage_with_decision: the model's answer, or the heuristic's when there is none;
\* an error that will not go away trips the breaker.
Answers(w) == IF ingest[w].llm /\ ~cooling THEN {"read", "transient", "persistent"} ELSE {"none"}

TriagePost(w) ==
    /\ ingest[w].pc = "items" /\ ingest[w].kind = "osint" /\ ingest[w].todo # <<>>
    /\ \E answer \in Answers(w), kept \in BOOLEAN :
         LET fails == answer \in {"transient", "persistent"}
             s == [Begun(w) EXCEPT !.judged = @ \cup {[item |-> Next1(w), kept |-> kept,
                      method |-> IF answer = "read" THEN "llm" ELSE "heuristic"]}]
         IN  /\ fails => lost < MaxLost
             /\ lost' = IF fails THEN lost + 1 ELSE lost
             /\ cooling' = (cooling \/ answer = "persistent")
             \* a dead session refuses every later statement of the run
             /\ IF ~kept \/ s.dead THEN ingest' = [ingest EXCEPT ![w] = s]
                ELSE \E g \in Grades[Next1(w)] : \E t \in Upserted(s, Next1(w), g) :
                        ingest' = [ingest EXCEPT ![w] = t]
    /\ UNCHANGED <<rows, docs, outlets, stale, judged, merger, ingests, merges>>

CoolsDown ==
    /\ cooling /\ cooling' = FALSE
    /\ UNCHANGED <<rows, docs, outlets, stale, judged, ingest, merger, ingests, merges, lost>>

\* The database: another session's flushed rows are locked until it ends, a
\* key somebody committed is refused, and of two that wait for each other one fails.
Waits(w) == {v \in Ingests \ {w} : ingest[v].held \cap ingest[w].due # {}}
DocTaken(s) == s.due \cap {d.doc : d \in s.docs} \cap {d.doc : d \in docs} # {}
Refused(w) ==
    LET s == ingest[w]
    IN  s.clash \/ s.due \cap DOMAIN s.added \cap DOMAIN rows # {} \/ DocTaken(s)
Deadlocked(w) == \E v \in Waits(w) : ingest[v].pc \in {"flush", "commit"} /\ w \in Waits(v)

Flush(w) ==
    LET s == ingest[w] IN
    /\ s.pc = "flush" /\ Waits(w) = {} /\ ~Refused(w)
    /\ ingest' = [ingest EXCEPT ![w] = [s EXCEPT !.pc = "items", !.held = @ \cup s.due,
                                                 !.due = {}, !.before = NewRun.before]]
    /\ UNCHANGED <<rows, docs, outlets, stale, judged, cooling, merger, ingests, merges, lost>>

RollBackAll(s) == \* mutant: no savepoint, the items before fall with it
    [s EXCEPT !.added = <<>>, !.grades = <<>>, !.docs = {}, !.outs = {}, !.held = {}]

\* A rollback to the savepoint of the item.
RollBack(s) == [s EXCEPT !.added = s.before.added, !.grades = s.before.grades,
                         !.docs = s.before.docs, !.outs = s.before.outs]

\* The statement fails.  In the hazard worker the item falls alone; the OSINT
\* session is dead, its later posts are still judged, and its commit will fail.
FlushFails(w) ==
    /\ ingest[w].pc = "flush"
    /\ (Waits(w) = {} /\ Refused(w)) \/ Deadlocked(w)
    /\ LET s == ingest[w] IN
       ingest' = [ingest EXCEPT ![w] =
         IF s.kind = "hazard"
         THEN [RollBack(s) EXCEPT !.pc = "items", !.due = {}, !.clash = FALSE, !.before = NewRun.before,
                  !.beaten = IF Deadlocked(w) \/ DocTaken(s)
                             THEN @ \cup (DOMAIN s.added \ DOMAIN s.before.added) ELSE @]
         ELSE [s EXCEPT !.pc = "items", !.due = {}, !.held = {}, !.dead = TRUE]]
    /\ UNCHANGED <<rows, docs, outlets, stale, judged, cooling, merger, ingests, merges, lost>>

\* The commit of the run, which first flushes what is left.
StartCommit(w) ==
    /\ ingest[w].pc = "items" /\ ingest[w].todo = <<>>
    /\ ingest' = [ingest EXCEPT ![w] = [Flushing(@) EXCEPT !.pc = "commit"]]
    /\ UNCHANGED <<rows, docs, outlets, stale, judged, cooling, merger, ingests, merges, lost>>

Written(s) ==
    [i \in DOMAIN rows \cup DOMAIN s.added |->
        LET r == IF i \in DOMAIN rows THEN rows[i] ELSE s.added[i]
        IN  IF i \in DOMAIN s.grades THEN [r EXCEPT !.grade = s.grades[i]] ELSE r]

Commit(w) ==
    /\ ingest[w].pc = "commit" /\ ~ingest[w].dead /\ Waits(w) = {} /\ ~Refused(w)
    /\ rows' = Written(ingest[w])
    /\ docs' = docs \cup ingest[w].docs
    /\ outlets' = outlets \cup ingest[w].outs
    /\ ingest' = [ingest EXCEPT ![w] =
         IF @.kind = "osint" THEN [NewRun EXCEPT !.pc = "log", !.judged = ingest[w].judged] ELSE NewRun]
    /\ UNCHANGED <<stale, judged, cooling, merger, ingests, merges, lost>>

\* The commit raises: the run ends, and its decisions are not logged.
CommitFails(w) ==
    /\ ingest[w].pc = "commit"
    /\ ingest[w].dead \/ (Waits(w) = {} /\ Refused(w)) \/ Deadlocked(w)
    /\ ingest' = [ingest EXCEPT ![w] = NewRun]
    /\ UNCHANGED <<rows, docs, outlets, stale, judged, cooling, merger, ingests, merges, lost>>

\* _log_decisions, in a session of its own; a failure loses them and nothing else.
LogDecisions(w) ==
    /\ ingest[w].pc = "log"
    /\ \/ judged' = judged \cup ingest[w].judged /\ lost' = lost
       \/ lost < MaxLost /\ lost' = lost + 1 /\ judged' = judged
    /\ ingest' = [ingest EXCEPT ![w] = NewRun]
    /\ UNCHANGED <<rows, docs, outlets, stale, cooling, merger, ingests, merges>>

IngestDies(w) ==
    /\ ingest[w].pc # "idle" /\ lost < MaxLost
    /\ lost' = lost + 1
    /\ ingest' = [ingest EXCEPT ![w] = NewRun]
    /\ UNCHANGED <<rows, docs, outlets, stale, judged, cooling, merger, ingests, merges>>

WindowPasses ==
    /\ DOMAIN rows # stale /\ lost < MaxLost
    /\ stale' = DOMAIN rows /\ lost' = lost + 1
    /\ UNCHANGED <<rows, docs, outlets, judged, cooling, ingest, merger, ingests, merges>>
-----------------------------------------------------------------------------
(* The merge script reads the canonical events, plans, and commits.        *)

\* Highest importance first; earlier detection breaks ties.
Orders(set) == {q \in SetToSeqs(DOMAIN set) :
    \A a, b \in DOMAIN q : a < b => set[q[a]].grade >= set[q[b]].grade}

Matches(i, j) == SameRegime(i, j) /\ Category[i] = Category[j] /\ {i, j} \in Alike

PlanAny(order) == \* mutant: any match will do, canonical or not
    {p \in ToSet(order) \X ToSet(order) : p[1] # p[2] /\ Matches(p[1], p[2])}

\* _plan_merges: an event that no canonical before it matches is one itself, and
\* every other joins the first canonical that it matches.
Canonicals(order) == CHOOSE set \in SUBSET DOMAIN order : \A n \in DOMAIN order :
    n \in set <=> \A k \in set : k < n => ~Matches(order[n], order[k])

PlanMerges(order) ==
    LET match(n) == {k \in Canonicals(order) : Matches(order[n], order[k])}
        first(n) == CHOOSE k \in match(n) : \A m \in match(n) : k =< m
    IN  {<<order[n], order[first(n)]>> : n \in DOMAIN order \ Canonicals(order)}

ScanEvents ==
    /\ merger.pc = "idle" /\ merges < MaxMerges
    /\ \E order \in Orders([i \in Visible(rows) |-> rows[i]]) :
         /\ PlanMerges(order) # {}
         /\ merger' = [pc |-> "planned", plan |-> PlanMerges(order), was |-> rows]
    /\ merges' = merges + 1
    /\ UNCHANGED <<rows, docs, outlets, stale, judged, cooling, ingest, ingests, lost>>

\* Its updates wait for rows an ingest has flushed; the articles are moved by one
\* statement that sees what is committed by then.
ApplyMerges ==
    LET canon(i) == CHOOSE c \in Items : <<i, c>> \in merger.plan
        dups == {p[1] : p \in merger.plan}
        canons == {p[2] : p \in merger.plan}
        best(c) == {merger.was[i].grade : i \in {c} \cup {d \in dups : canon(d) = c}}
        raised(c) == CHOOSE g \in best(c) : \A h \in best(c) : h =< g
    IN
    /\ merger.pc = "planned"
    /\ \A w \in Ingests : ingest[w].held \cap (dups \cup canons) = {}
    /\ rows' = [i \in DOMAIN rows |->
         IF i \in dups THEN [rows[i] EXCEPT !.into = canon(i)]
         ELSE IF i \in canons /\ raised(i) # merger.was[i].grade
         THEN [rows[i] EXCEPT !.grade = raised(i)] ELSE rows[i]]
    /\ docs' = {[d EXCEPT !.at = IF d.at \in dups THEN canon(d.at) ELSE d.at] : d \in docs}
    /\ merger' = NoMerger
    /\ UNCHANGED <<outlets, stale, judged, cooling, ingest, ingests, merges, lost>>

IngestStep(w) ==
    \/ TakeSignal(w) \/ TriagePost(w) \/ Flush(w) \/ FlushFails(w)
    \/ StartCommit(w) \/ Commit(w) \/ CommitFails(w) \/ LogDecisions(w)

SignalsNext ==
    \/ \E w \in Ingests : Poll(w) \/ IngestStep(w) \/ IngestDies(w)
    \/ CoolsDown \/ WindowPasses \/ ScanEvents \/ ApplyMerges

SignalsSpec == SignalsInit /\ [][SignalsNext]_signalVars
-----------------------------------------------------------------------------
\* Where the merges from an event lead: the shown events in every set that has the
\* event and all that its members are merged into.  No code follows them beyond one
\* step: the invariants say that there is an end to follow them to.
Along(table, set) == \A k \in set : table[k].into \in set \cup {Canonical}
LeadsTo(table, i) ==
    {e \in Visible(table) : \A set \in SUBSET DOMAIN table : i \in set /\ Along(table, set) => e \in set}
Stands(i) == LeadsTo(rows, i)

\* No story disappears: whatever ingests fold while the script works on what it has
\* read, merges never run in a circle or into nothing, so that behind each hidden
\* event one is shown (hazard_ingest_worker.py:139-144).
EveryStoryIsShown == \A i \in DOMAIN rows : Stands(i) # {}

\* A document taken in stays on record with its story, although the script moves
\* articles while runs add more: the merges from where it is filed end where those
\* of an item that reported it do (hazard_ingest_worker.py:300-301).
EvidenceStaysWithStory ==
    \A i \in DOMAIN rows : \E d \in docs, j \in DOMAIN rows :
        d.doc = Doc[i] /\ Doc[j] = Doc[i] /\ Stands(d.at) = Stands(j)

\* Decisions are logged after the events: a post logged as kept has its event
\* (osint_ingest_worker.py:152-154).
KeptMeansStored == \A j \in judged : j.kept => j.item \in DOMAIN rows

\* workers/hazard_ingest_worker.py, osint_ingest_worker.py: no event, document or kept
\* post is lost between ingest runs and the merge script that works beside them.
StoriesStayWhole == EveryStoryIsShown /\ EvidenceStaysWithStory /\ KeptMeansStored

\* A bad item falls alone: when a hazard run commits, all it took is stored but what
\* lost a deadlock, or the race for its document (hazard_ingest_worker.py:325-328).
BadItemFallsAlone ==
    [][\A w \in Ingests : Commit(w) /\ ingest[w].kind = "hazard"
          => ingest[w].taken \subseteq DOMAIN rows' \cup ingest[w].beaten]_signalVars-----------------------------------------------------------------------------
(* What the sources say and the code does not do.                          *)

\* 007_event_merge.py:7, "the duplicates keep their row but point at the canonical":
\* the event a duplicate points at is one that is shown, so that what a refresh or a
\* re-upload pushes one step up reaches a reader.
DuplicatesPointAtCanonical ==
    \A i \in DOMAIN rows : rows[i].into # Canonical => rows[rows[i].into].into = Canonical
=============================================================================
