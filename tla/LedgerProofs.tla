----------------------------- MODULE LedgerProofs -----------------------------
(***************************************************************************)
(* Proofs about Ledger, for any maps, markets, publishers and graders: the *)
(* types; that roots, files and the cached score are sound; that a grade   *)
(* is earned; and that the table implements the book.                      *)
(*                                                                         *)
(* The publishers' part of the invariant (Anchoring) speaks of the ledger, *)
(* the roots and the runs; the graders' part (Grading, Polling) of the     *)
(* grades and of the two kinds of transaction that may write them.         *)
(***************************************************************************)
EXTENDS Ledger, FiniteSetTheorems, SequenceTheorems, TLAPS

DayRows(d) == {r \in Rows : r.day = d}

\* What a run enters is of its day, and what it has read is true of that day.  A run
\* that is alone has the day to itself; so has every run of a day that is complete.
RunIsSound(p) ==
    /\ pub[p].left \in Seq(DayRows(pub[p].day))
    /\ pub[p].pc \in {"upsert", "file"} => pub[p].seen \subseteq DayHashes(pub[p].day)
    /\ pub[p].pc \in Entering /\ pub[p].alone => On(pub[p].day, p) = {}
    /\ pub[p].pc \in {"upsert", "file"} /\ (pub[p].alone \/ pub[p].day \notin dirty) =>
         /\ pub[p].seen = DayHashes(pub[p].day)
         /\ pub[p].pc = "file" => manifest[pub[p].day] = pub[p].seen

Anchoring ==
    /\ ManifestTellsTruth /\ ManifestComplete
    /\ \A p \in Publishers : RunIsSound(p)

\* Maps whose event has no outcome of grader g.
Fresh(g) == {m \in Maps : \A o \in outcomes : o.by = g => o.event # EventOf[m]}

\* The rows a transaction has updated are entered, ungraded, and its alone.
Grading ==
    /\ \A g \in Graders :
         /\ \A r \in Wrote(g) : r \in Published /\ grade[r] = Ungraded
         /\ \A h \in Graders \ {g} : Wrote(g) \cap Wrote(h) = {}
         /\ grader[g].todo \in Seq(Fresh(g))
         /\ \A j \in grader[g].judged : j.map \in Fresh(g)

\* What the resolver has found is what the market says.
Polling ==
    /\ poll.todo \subseteq Published
    /\ \A f \in poll.found :
         /\ f.ref \in Published
         /\ market[f.ref] \in {"yes", "no"}
         /\ f.verdict = IF market[f.ref] = "yes" THEN "materialized" ELSE "failed"

LedgerInv == LedgerTypeOK /\ Anchoring /\ Grading /\ Polling /\ GateHolds

LEMMA RefsAreFinite == IsFiniteSet(Refs) /\ IsFiniteSet(Maps) /\ IsFiniteSet(Markets)
  BY LedgerAssumption, FS_Union DEF Refs

LEMMA FiniteSeqs ==
    ASSUME NEW S, IsFiniteSet(S), NEW T, T \subseteq S, NEW s \in SetToSeqs(T)
    PROVE  /\ s \in Seq(T) /\ DOMAIN s = 1..Cardinality(T) /\ Cardinality(T) \in Nat
<1>1. Cardinality(T) \in Nat
  BY FS_Subset, FS_CardinalityType
<1>2. s \in [1..Cardinality(T) -> T]
  BY DEF SetToSeqs
<1> QED BY <1>1, <1>2, SeqDef

LEMMA HashType == ASSUME NEW row \in Rows PROVE Hash(row) \in Hashes
  BY DEF Rows, Hash, Hashes

LEMMA DayHashesType == ASSUME LedgerTypeOK, NEW d PROVE DayHashes(d) \in SUBSET Hashes
  BY HashType DEF DayHashes, LedgerTypeOK

LEMMA NoRunType ==
    /\ NoRun \in Runs /\ NoRun.left = <<>> /\ NoRun.pc = "idle"
    /\ \A d \in Days : /\ ToScore(d) \in Runs /\ ToScore(d).left = <<>> /\ ToScore(d).day = d
                       /\ ToScore(d).pc = "score"
<1>1. <<>> \in Seq(Rows) /\ 1 \in Days
  BY LedgerAssumption DEF Days
<1>2. NoRun \in Runs
  BY <1>1 DEF NoRun, Runs
<1>3. ASSUME NEW d \in Days PROVE ToScore(d) \in Runs /\ ToScore(d).left = <<>> /\ ToScore(d).day = d /\ ToScore(d).pc = "score"
  BY <1>1, <1>3 DEF ToScore, NoRun, Runs
<1> QED BY <1>2, <1>3 DEF NoRun

LEMMA LedgerInvInit == ASSUME LedgerInit PROVE LedgerInv
<1>1. <<>> \in Seq(Maps) /\ 1 \in Days /\ {} \in SUBSET Hashes
  BY LedgerAssumption DEF Days
<1>2. LedgerTypeOK
  <2>1. grader \in [Graders -> [pc : {"idle", "judge"}, todo : Seq(Maps), judged : SUBSET Judgements]]
    BY <1>1 DEF LedgerInit, NoTxn
  <2>2. pub \in [Publishers -> Runs]
    BY NoRunType DEF LedgerInit
  <2>3. poll \in [pc : {"idle", "poll"}, todo : SUBSET Markets, found : SUBSET [ref : Markets, verdict : Verdicts]]
    BY DEF LedgerInit
  <2> QED BY <1>1, <2>1, <2>2, <2>3, LedgerAssumption DEF LedgerInit, LedgerTypeOK
<1>3. Anchoring
  <2>1. ASSUME NEW d \in Days PROVE manifest[d] = {} /\ anchor[d] = {} /\ DayHashes(d) = {}
    BY DEF LedgerInit, DayHashes
  <2>2. ASSUME NEW p \in Publishers PROVE pub[p].left \in Seq(DayRows(pub[p].day)) /\ pub[p].pc = "idle"
    BY <2>2, NoRunType, EmptySeq DEF LedgerInit
  <2> QED BY <2>1, <2>2 DEF Anchoring, RunIsSound, ManifestTellsTruth, ManifestComplete, Entering
<1>4. Grading
  <2>1. ASSUME NEW g \in Graders PROVE grader[g].todo = <<>> /\ grader[g].judged = {}
    BY DEF LedgerInit, NoTxn
  <2> QED BY <2>1, EmptySeq DEF Grading, Wrote
<1>5. Polling
  BY DEF LedgerInit, Polling
<1>6. GateHolds
  <2>1. Resolved = {} /\ Cardinality(Resolved) = 0
    BY FS_EmptySet DEF LedgerInit, Resolved, Published
  <2> QED BY <2>1 DEF LedgerInit, GateHolds
<1> QED BY <1>2, <1>3, <1>4, <1>5, <1>6 DEF LedgerInv
-----------------------------------------------------------------------------
(* What a step that leaves it alone keeps.                                 *)

LEMMA AnchoringFrame ==
    ASSUME Anchoring, UNCHANGED <<ledger, manifest, anchor, dirty, pub>>
    PROVE  Anchoring'
  BY DEF Anchoring, RunIsSound, ManifestTellsTruth, ManifestComplete, DayHashes, On

LEMMA GradingFrame ==
    ASSUME Grading, ledger \subseteq ledger', UNCHANGED <<grade, outcomes, grader>>
    PROVE  Grading'
<1>1. Published \subseteq Published'
  BY DEF Published
<1>2. \A g \in Graders : Wrote(g)' = Wrote(g) /\ Fresh(g)' = Fresh(g)
  BY DEF Wrote, Fresh
<1> QED BY <1>1, <1>2 DEF Grading

LEMMA PollingFrame ==
    ASSUME Polling, ledger \subseteq ledger', UNCHANGED <<poll, market>>
    PROVE  Polling'
<1>1. Published \subseteq Published'
  BY DEF Published
<1> QED BY <1>1 DEF Polling

\* Forecasts are never taken back and grades never either.
LEMMA GateFrame ==
    ASSUME LedgerTypeOK, LedgerTypeOK', GateHolds, ledger \subseteq ledger', UNCHANGED cached,
           \A r \in Refs : grade[r] # Ungraded => grade'[r] # Ungraded
    PROVE  GateHolds'
<1>1. Published \subseteq Refs /\ Published' \subseteq Refs /\ Published \subseteq Published'
  BY DEF Published, LedgerTypeOK, Rows
<1>2. Resolved \subseteq Resolved' /\ Resolved' \subseteq Refs
  BY <1>1 DEF Resolved
<1>3. IsFiniteSet(Resolved')
  BY <1>2, RefsAreFinite, FS_Subset
<1>4. Cardinality(Resolved) <= Cardinality(Resolved') /\ IsFiniteSet(Resolved)
  BY <1>2, <1>3, FS_Subset
<1>5. Cardinality(Resolved) \in Nat /\ Cardinality(Resolved') \in Nat
  BY <1>3, <1>4, FS_CardinalityType
<1>6. MinPoints \in Nat /\ cached.n \in Nat
  BY LedgerAssumption DEF LedgerTypeOK
<1> QED BY <1>4, <1>5, <1>6 DEF GateHolds
-----------------------------------------------------------------------------
(* Publishing.                                                             *)

\* A new run has its rows from today, and takes the day from those it joins.
LEMMA JoinedKeeps ==
    ASSUME LedgerInv, NEW p \in Publishers, NEW rows \in Seq(DayRows(day)), pub[p].pc = "idle",
           pub' = Joined(p, rows), UNCHANGED <<day, ledger, manifest, anchor, dirty>>
    PROVE  pub' \in [Publishers -> Runs] /\ Anchoring'
<1>1. day \in Days /\ pub \in [Publishers -> Runs] /\ rows \in Seq(Rows)
  BY SeqMonotonic DEF LedgerInv, LedgerTypeOK, DayRows
<1>2. /\ pub'[p].pc = "insert" /\ pub'[p].day = day /\ pub'[p].left = rows
      /\ pub'[p].alone <=> On(day, p) = {}
      /\ pub'[p] \in Runs
  <2>1. pub'[p] = [pc |-> "insert", day |-> day, left |-> rows, seen |-> {}, alone |-> On(day, p) = {}]
    BY DEF Joined
  <2> DEFINE first == On(day, p) = {}
  <2>2. pub'[p].alone <=> On(day, p) = {}
    <3>1. pub'[p] = [pc |-> "insert", day |-> day, left |-> rows, seen |-> {}, alone |-> first]
      BY <2>1
    <3> HIDE DEF first
    <3>2. pub'[p].alone = first
      BY <3>1
    <3> QED BY <3>2 DEF first
  <2>3. {} \in SUBSET Hashes /\ (On(day, p) = {}) \in BOOLEAN
    OBVIOUS
  <2>4. pub'[p] \in Runs
    BY <1>1, <2>1, <2>3 DEF Runs
  <2> QED BY <2>1, <2>2, <2>4
<1>3. ASSUME NEW q \in Publishers \ {p}
      PROVE  /\ pub'[q].pc = pub[q].pc /\ pub'[q].day = pub[q].day /\ pub'[q].left = pub[q].left
             /\ pub'[q].seen = pub[q].seen /\ pub'[q] \in Runs
             /\ pub'[q].alone => pub[q].alone /\ q \notin On(day, p)
  <2>1. CASE q \in On(day, p)
    <3>1. pub'[q] = [pub[q] EXCEPT !.alone = FALSE]
      BY <2>1 DEF Joined
    <3> QED BY <1>1, <3>1 DEF Runs
  <2>2. CASE q \notin On(day, p)
    <3>1. pub'[q] = pub[q]
      BY <2>2 DEF Joined
    <3> QED BY <1>1, <2>2, <3>1
  <2> QED BY <2>1, <2>2
<1>4. pub' \in [Publishers -> Runs]
  <2>1. pub' = [q \in Publishers |-> pub'[q]]
    BY DEF Joined
  <2> QED BY <1>2, <1>3, <2>1
<1>5. ASSUME NEW d PROVE DayHashes(d)' = DayHashes(d)
  BY DEF DayHashes
<1>6. ASSUME NEW q \in Publishers \ {p}, pub'[q].pc \in Entering, pub'[q].alone
      PROVE  On(pub[q].day, q)' = {}
  <2>1. pub[q].pc \in Entering /\ pub[q].alone /\ q \notin On(day, p)
    BY <1>3, <1>6
  <2>2. On(pub[q].day, q) = {} /\ pub[q].day # day
    BY <2>1 DEF LedgerInv, Anchoring, RunIsSound, On
  <2> QED BY <1>2, <1>3, <2>2 DEF On
<1>7. ASSUME pub'[p].alone PROVE On(day, p)' = {}
  <2>1. On(day, p) = {}
    BY <1>2, <1>7
  <2> QED BY <1>3, <2>1 DEF On
<1>8. ASSUME NEW q \in Publishers PROVE RunIsSound(q)'
  <2>1. CASE q = p
    <3>1. pub'[q].left \in Seq(DayRows(pub'[q].day)) /\ pub'[q].pc = "insert"
      BY <1>2, <2>1
    <3>2. pub'[q].alone => On(pub[q].day, q)' = {}
      BY <1>2, <1>7, <2>1
    <3> QED BY <3>1, <3>2 DEF RunIsSound
  <2>2. CASE q # p
    <3>1. RunIsSound(q)
      BY DEF LedgerInv, Anchoring
    <3>2. /\ pub'[q].pc = pub[q].pc /\ pub'[q].day = pub[q].day /\ pub'[q].left = pub[q].left
          /\ pub'[q].seen = pub[q].seen /\ (pub'[q].alone => pub[q].alone)
      BY <1>3, <2>2
    <3>3. pub'[q].pc \in Entering /\ pub'[q].alone => On(pub[q].day, q)' = {}
      BY <1>6, <2>2
    <3> QED BY <1>5, <3>1, <3>2, <3>3 DEF RunIsSound
  <2> QED BY <2>1, <2>2
<1>9. ManifestTellsTruth' /\ ManifestComplete'
  BY <1>5 DEF LedgerInv, Anchoring, ManifestTellsTruth, ManifestComplete
<1>10. Anchoring'
  BY <1>8, <1>9 DEF Anchoring
<1> QED BY <1>4, <1>10

LEMMA RowType ==
    ASSUME NEW r \in Refs, NEW said \in 0..100, NEW stamp \in Nat, NEW d \in Days
    PROVE  Row(r, said, stamp, d) \in DayRows(d)
  BY DEF Row, Rows, DayRows

\* A run that is over leaves the day to the others.
LEMMA LeavingKeeps ==
    ASSUME LedgerInv, NEW p \in Publishers, NEW run \in Runs, run.left = <<>>, run.pc \notin Entering,
           pub' = [pub EXCEPT ![p] = run], UNCHANGED <<ledger, manifest, anchor, dirty>>
    PROVE  pub' \in [Publishers -> Runs] /\ Anchoring'
<1>1. pub \in [Publishers -> Runs]
  BY DEF LedgerInv, LedgerTypeOK
<1>2. pub' \in [Publishers -> Runs] /\ pub'[p] = run /\ \A q \in Publishers \ {p} : pub'[q] = pub[q]
  BY <1>1
<1>3. ASSUME NEW d PROVE DayHashes(d)' = DayHashes(d)
  BY DEF DayHashes
<1>5. ManifestTellsTruth' /\ ManifestComplete'
  BY <1>3 DEF LedgerInv, Anchoring, ManifestTellsTruth, ManifestComplete
<1>6. run.left \in Seq(DayRows(run.day))
  BY EmptySeq
<1>7. ASSUME NEW q \in Publishers PROVE RunIsSound(q)'
  <2>1. CASE q = p
    <3>1. pub'[q].left \in Seq(DayRows(pub'[q].day)) /\ pub'[q].pc \notin Entering
      BY <1>2, <1>6, <2>1
    <3> QED BY <3>1 DEF RunIsSound, Entering
  <2>2. CASE q # p
    <3>1. RunIsSound(q) /\ pub'[q] = pub[q]
      BY <1>2, <2>2 DEF LedgerInv, Anchoring
    <3>2. On(pub[q].day, q)' \subseteq On(pub[q].day, q)
      BY <1>2, <2>2 DEF On
    <3> QED BY <1>3, <3>1, <3>2 DEF RunIsSound
  <2> QED BY <2>1, <2>2
<1> QED BY <1>2, <1>5, <1>7 DEF Anchoring

LEMMA StartInsideKeeps ==
    ASSUME LedgerInv, NEW p \in Inside, StartInside(p)
    PROVE  pub' \in [Publishers -> Runs] /\ Anchoring'
<1>1. PICK batch \in Unpublished :
        pub' = IF p \in Enabled THEN Joined(p, BuildEntries(batch, day))
               ELSE [pub EXCEPT ![p] = ToScore(day)]
  BY DEF StartInside
<1>2. /\ pub[p].pc = "idle" /\ p \in Publishers /\ UNCHANGED <<day, ledger, manifest, anchor, dirty>>
      /\ day \in Days /\ made \in Seq(Maps)
  BY DEF StartInside, Publishers, roots, notPublishing, world, LedgerInv, LedgerTypeOK
<1>3. CASE p \in Enabled
  <2>1. Made \subseteq Maps
    BY <1>2 DEF Made, Range
  <2>2. PICK T \in SUBSET Made : batch \in SetToSeqs(T)
    BY DEF Unpublished, OldestFirst
  <2>3. batch \in Seq(T) /\ DOMAIN batch = 1..Cardinality(T) /\ Cardinality(T) \in Nat
    BY <2>1, <2>2, RefsAreFinite, FiniteSeqs
  <2>4. ASSUME NEW i \in DOMAIN batch
        PROVE  Row(batch[i], ScoreOf[batch[i]], Stamp(batch[i]), day) \in DayRows(day)
    <3>1. batch[i] \in Made /\ batch[i] \in Maps
      BY <2>1, <2>3
    <3>2. \E k \in DOMAIN made : made[k] = batch[i]
      BY <3>1 DEF Made, Range
    <3>3. Stamp(batch[i]) \in DOMAIN made
      BY <3>2 DEF Stamp
    <3>4. Stamp(batch[i]) \in Nat
      BY <1>2, <3>3
    <3>5. ScoreOf[batch[i]] \in 0..100 /\ batch[i] \in Refs
      BY <3>1, LedgerAssumption DEF Refs
    <3> QED BY <1>2, <3>4, <3>5, RowType
  <2>5. BuildEntries(batch, day) \in [1..Cardinality(T) -> DayRows(day)]
    BY <2>3, <2>4 DEF BuildEntries
  <2>6. BuildEntries(batch, day) \in Seq(DayRows(day))
    BY <2>3, <2>5, SeqDef
  <2> QED BY <1>1, <1>2, <1>3, <2>6, JoinedKeeps
<1>4. CASE p \notin Enabled
  <2>1. ToScore(day) \in Runs /\ ToScore(day).left = <<>> /\ ToScore(day).pc = "score"
    BY <1>2, NoRunType
  <2> QED BY <1>1, <1>2, <1>4, <2>1, LeavingKeeps DEF Entering
<1> QED BY <1>3, <1>4

LEMMA StartOutsideKeeps ==
    ASSUME LedgerInv, NEW p \in Outside, NEW said \in Forecasts, StartOutside(p, said)
    PROVE  pub' \in [Publishers -> Runs] /\ Anchoring' /\ runs' \in Nat
<1>1. PICK order \in SetToSeqs(DOMAIN said) :
        pub' = Joined(p, [i \in DOMAIN order |-> Row(order[i], said[order[i]], runs', day)])
  BY DEF StartOutside
<1>2. /\ pub[p].pc = "idle" /\ p \in Publishers /\ UNCHANGED <<day, ledger, manifest, anchor, dirty>>
      /\ day \in Days /\ runs' \in Nat
  BY DEF StartOutside, Publishers, roots, notPublishing, world, LedgerInv, LedgerTypeOK
<1>3. DOMAIN said \subseteq Markets /\ \A x \in DOMAIN said : said[x] \in 0..100
  <2>1. PICK some \in SUBSET Markets : said \in [some -> Chances]
    BY DEF Forecasts
  <2> QED BY <2>1, LedgerAssumption
<1>4. order \in Seq(DOMAIN said) /\ DOMAIN order = 1..Cardinality(DOMAIN said) /\ Cardinality(DOMAIN said) \in Nat
  BY <1>3, RefsAreFinite, FiniteSeqs
<1> DEFINE rows == [i \in DOMAIN order |-> Row(order[i], said[order[i]], runs', day)]
<1>5. ASSUME NEW i \in DOMAIN order PROVE Row(order[i], said[order[i]], runs', day) \in DayRows(day)
  <2>1. order[i] \in DOMAIN said
    BY <1>4
  <2>2. order[i] \in Refs /\ said[order[i]] \in 0..100
    BY <1>3, <2>1 DEF Refs
  <2> QED BY <1>2, <2>2, RowType
<1>6. rows \in Seq(DayRows(day))
  <2>1. rows \in [1..Cardinality(DOMAIN said) -> DayRows(day)]
    BY <1>4, <1>5
  <2> QED BY <1>4, <2>1, SeqDef
<1> QED BY <1>1, <1>2, <1>6, JoinedKeeps

LEMMA InsertKeeps ==
    ASSUME LedgerInv, NEW p \in Publishers, Insert(p)
    PROVE  /\ pub' \in [Publishers -> Runs] /\ Anchoring'
           /\ ledger' \subseteq Rows /\ ledger \subseteq ledger' /\ dirty' \subseteq Days
<1>0. PICK row, d : row = Head(pub[p].left) /\ d = pub[p].day
  OBVIOUS
<1>1. /\ pub \in [Publishers -> Runs] /\ ledger \subseteq Rows /\ dirty \subseteq Days
      /\ RunIsSound(p) /\ pub[p].pc = "insert" /\ pub[p].left # <<>> /\ pub[p].left \in Seq(DayRows(d))
  BY <1>0 DEF LedgerInv, LedgerTypeOK, Anchoring, RunIsSound, Insert
<1>2. row \in DayRows(d) /\ Tail(pub[p].left) \in Seq(DayRows(d)) /\ d \in Days
  BY <1>0, <1>1, HeadTailProperties DEF Runs
<1>3. row \in Rows /\ row.day = d
  BY <1>2 DEF DayRows
<1>4. /\ (ledger' = ledger /\ dirty' = dirty) \/ (ledger' = ledger \cup {row} /\ dirty' = dirty \cup {d})
      /\ pub' = [pub EXCEPT ![p].left = Tail(@)] /\ UNCHANGED <<manifest, anchor>>
  <2>1. CASE row.ref \in Published
    BY <1>0, <2>1 DEF Insert
  <2>2. CASE row.ref \notin Published
    <3>1. ledger' = ledger \cup {row} /\ dirty' = dirty \cup {row.day}
      BY <1>0, <2>2 DEF Insert
    <3> QED BY <1>0, <1>3, <3>1 DEF Insert
  <2> QED BY <2>1, <2>2
<1>5. /\ pub'[p].pc = "insert" /\ pub'[p].day = d /\ pub'[p].left = Tail(pub[p].left)
      /\ pub'[p].alone = pub[p].alone
      /\ \A q \in Publishers \ {p} : pub'[q] = pub[q]
  BY <1>0, <1>1, <1>4 DEF Runs
<1>6. pub' \in [Publishers -> Runs]
  <2>1. Tail(pub[p].left) \in Seq(Rows)
    BY <1>2, SeqMonotonic DEF DayRows
  <2> QED BY <1>0, <1>1, <1>4, <2>1 DEF Runs
<1>7. ASSUME NEW e PROVE DayHashes(e) \subseteq DayHashes(e)'
  BY <1>4 DEF DayHashes
<1>8. ASSUME NEW e, e # d \/ (dirty' = dirty /\ ledger' = ledger) PROVE DayHashes(e)' = DayHashes(e)
  BY <1>3, <1>4, <1>8 DEF DayHashes
<1>9. ManifestTellsTruth' /\ ManifestComplete'
  <2>1. ManifestTellsTruth'
    BY <1>4, <1>7 DEF LedgerInv, Anchoring, ManifestTellsTruth
  <2>2. ASSUME NEW e \in Days \ dirty' PROVE manifest'[e] = DayHashes(e)' /\ anchor'[e] = DayHashes(e)'
    <3>1. e \notin dirty /\ (e # d \/ (dirty' = dirty /\ ledger' = ledger))
      BY <1>4, <2>2
    <3>2. manifest[e] = DayHashes(e) /\ anchor[e] = DayHashes(e)
      BY <2>2, <3>1 DEF LedgerInv, Anchoring, ManifestComplete
    <3> QED BY <1>4, <1>8, <3>1, <3>2
  <2>3. ManifestComplete'
    BY <2>2 DEF ManifestComplete
  <2> QED BY <2>1, <2>3
<1>10. ASSUME NEW q \in Publishers, NEW e PROVE On(e, q)' = On(e, q)
  BY <1>0, <1>1, <1>5 DEF On
<1>11. ASSUME NEW q \in Publishers PROVE RunIsSound(q)'
  <2>1. CASE q = p
    <3>1. pub'[q].left \in Seq(DayRows(pub'[q].day)) /\ pub'[q].pc = "insert"
      BY <1>2, <1>5, <2>1
    <3>2. pub'[q].alone => On(d, q)' = {}
      BY <1>0, <1>1, <1>5, <1>10, <2>1 DEF RunIsSound, Entering
    <3> QED BY <1>5, <2>1, <3>1, <3>2 DEF RunIsSound
  <2>2. CASE q # p
    <3>1. RunIsSound(q) /\ pub'[q] = pub[q]
      BY <1>5, <2>2 DEF LedgerInv, Anchoring
    <3>2. PICK e : e = pub[q].day
      OBVIOUS
    <3>3. pub[q].pc \in Entering /\ pub[q].alone => On(e, q)' = {}
      BY <1>10, <3>1, <3>2 DEF RunIsSound
    <3>4. pub[q].pc \in {"upsert", "file"} => pub[q].seen \subseteq DayHashes(e)'
      BY <1>7, <3>1, <3>2 DEF RunIsSound
    <3>5. ASSUME pub[q].pc \in {"upsert", "file"}, pub[q].alone \/ e \notin dirty'
          PROVE  DayHashes(e)' = DayHashes(e) /\ (pub[q].alone \/ e \notin dirty)
      <4>1. CASE pub[q].alone
        <5>1. On(e, q) = {}
          BY <3>1, <3>2, <3>5, <4>1 DEF RunIsSound, Entering
        <5>2. e # d
          BY <1>0, <1>1, <2>2, <5>1 DEF On, Entering
        <5> QED BY <1>8, <4>1, <5>2
      <4>2. CASE ~pub[q].alone
        <5>1. e \notin dirty' /\ e \notin dirty
          BY <1>4, <3>5, <4>2
        <5>2. e # d \/ (dirty' = dirty /\ ledger' = ledger)
          BY <1>4, <5>1
        <5> QED BY <1>8, <5>1, <5>2
      <4> QED BY <4>1, <4>2
    <3>6. pub'[q].pc \in {"upsert", "file"} /\ (pub'[q].alone \/ pub'[q].day \notin dirty') =>
            /\ pub'[q].seen = DayHashes(e)'
            /\ pub'[q].pc = "file" => manifest'[e] = pub'[q].seen
      BY <1>4, <3>1, <3>2, <3>5 DEF RunIsSound
    <3> QED BY <3>1, <3>2, <3>3, <3>4, <3>6 DEF RunIsSound
  <2> QED BY <2>1, <2>2
<1>12. ledger' \subseteq Rows /\ ledger \subseteq ledger' /\ dirty' \subseteq Days
  BY <1>1, <1>2, <1>3, <1>4
<1> QED BY <1>6, <1>9, <1>11, <1>12 DEF Anchoring

LEMMA ReadDayKeeps ==
    ASSUME LedgerInv, NEW p \in Publishers, ReadDay(p)
    PROVE  pub' \in [Publishers -> Runs] /\ Anchoring'
<1>1. /\ pub \in [Publishers -> Runs] /\ RunIsSound(p) /\ pub[p].pc = "insert"
      /\ DayHashes(pub[p].day) \in SUBSET Hashes
  BY DayHashesType DEF LedgerInv, LedgerTypeOK, Anchoring, ReadDay
<1>2. /\ pub' = [pub EXCEPT ![p] = [@ EXCEPT !.pc = "upsert", !.seen = DayHashes(pub[p].day)]]
      /\ UNCHANGED <<ledger, manifest, anchor, dirty>>
  BY DEF ReadDay, roots
<1>3. /\ pub' \in [Publishers -> Runs]
      /\ pub'[p].pc = "upsert" /\ pub'[p].seen = DayHashes(pub[p].day) /\ pub'[p].day = pub[p].day
      /\ pub'[p].left = pub[p].left /\ pub'[p].alone = pub[p].alone
      /\ \A q \in Publishers \ {p} : pub'[q] = pub[q]
  BY <1>1, <1>2 DEF Runs
<1>4. ASSUME NEW e PROVE DayHashes(e)' = DayHashes(e)
  BY <1>2 DEF DayHashes
<1>5. ManifestTellsTruth' /\ ManifestComplete'
  BY <1>2, <1>4 DEF LedgerInv, Anchoring, ManifestTellsTruth, ManifestComplete
<1>6. ASSUME NEW q \in Publishers PROVE On(pub[q].day, q)' = On(pub[q].day, q)
  BY <1>1, <1>3 DEF On, Entering
<1>7. ASSUME NEW q \in Publishers PROVE RunIsSound(q)'
  <2>1. RunIsSound(q)
    BY DEF LedgerInv, Anchoring
  <2>2. CASE q = p
    <3>1. pub'[p].pc \in Entering /\ pub'[p].alone => On(pub[p].day, p)' = {}
      BY <1>1, <1>3, <1>6 DEF RunIsSound, Entering
    <3> QED BY <1>1, <1>3, <1>4, <2>2, <3>1 DEF RunIsSound
  <2>3. CASE q # p
    BY <1>2, <1>3, <1>4, <1>6, <2>1, <2>3 DEF RunIsSound
  <2> QED BY <2>2, <2>3
<1> QED BY <1>3, <1>5, <1>7 DEF Anchoring

LEMMA UpsertKeeps ==
    ASSUME LedgerInv, NEW p \in Publishers, Upsert(p)
    PROVE  pub' \in [Publishers -> Runs] /\ manifest' \in [Days -> SUBSET Hashes] /\ Anchoring'
<1>1. /\ pub \in [Publishers -> Runs] /\ manifest \in [Days -> SUBSET Hashes]
      /\ RunIsSound(p) /\ pub[p].pc = "upsert"
  BY DEF LedgerInv, LedgerTypeOK, Anchoring, Upsert
<1>2. /\ manifest' = [manifest EXCEPT ![pub[p].day] = pub[p].seen]
      /\ pub' = [pub EXCEPT ![p].pc = "file"]
      /\ UNCHANGED <<ledger, anchor, dirty>>
  BY DEF Upsert
<1>3. /\ pub' \in [Publishers -> Runs]
      /\ pub'[p].pc = "file" /\ pub'[p].seen = pub[p].seen /\ pub'[p].day = pub[p].day
      /\ pub'[p].left = pub[p].left /\ pub'[p].alone = pub[p].alone
      /\ \A q \in Publishers \ {p} : pub'[q] = pub[q]
      /\ pub[p].day \in Days /\ pub[p].seen \in SUBSET Hashes
  BY <1>1, <1>2 DEF Runs
<1>4. /\ manifest' \in [Days -> SUBSET Hashes] /\ manifest'[pub[p].day] = pub[p].seen
      /\ \A d \in Days \ {pub[p].day} : manifest'[d] = manifest[d]
  BY <1>1, <1>2, <1>3
<1>5. ASSUME NEW e PROVE DayHashes(e)' = DayHashes(e)
  BY <1>2 DEF DayHashes
<1>6. ManifestTellsTruth'
  BY <1>1, <1>2, <1>4, <1>5 DEF LedgerInv, Anchoring, ManifestTellsTruth, RunIsSound
<1>7. ManifestComplete'
  BY <1>1, <1>2, <1>4, <1>5 DEF LedgerInv, Anchoring, ManifestComplete, RunIsSound
<1>8. ASSUME NEW q \in Publishers PROVE On(pub[q].day, q)' = On(pub[q].day, q)
  BY <1>1, <1>3 DEF On, Entering
<1>9. ASSUME NEW q \in Publishers PROVE RunIsSound(q)'
  <2>1. RunIsSound(q)
    BY DEF LedgerInv, Anchoring
  <2>2. CASE q = p
    <3>1. pub'[p].pc \in Entering /\ pub'[p].alone => On(pub[p].day, p)' = {}
      BY <1>1, <1>3, <1>8 DEF RunIsSound, Entering
    <3> QED BY <1>1, <1>2, <1>3, <1>4, <1>5, <2>2, <3>1 DEF RunIsSound
  <2>3. CASE q # p
    <3>1. ASSUME pub[q].pc = "file", pub[q].alone \/ pub[q].day \notin dirty
          PROVE  manifest'[pub[q].day] = pub[q].seen
      <4>1. manifest[pub[q].day] = pub[q].seen /\ pub[q].seen = DayHashes(pub[q].day) /\ pub[q].day \in Days
        BY <1>1, <2>1, <3>1 DEF RunIsSound, Runs
      <4>2. CASE pub[q].day # pub[p].day
        BY <1>4, <4>1, <4>2
      <4>3. CASE pub[q].day = pub[p].day
        <5>1. p \in On(pub[q].day, q)
          BY <1>1, <2>3, <4>3 DEF On, Entering
        <5>2. ~pub[q].alone
          BY <2>1, <3>1, <5>1 DEF RunIsSound, Entering
        <5>3. pub[p].seen = DayHashes(pub[p].day)
          BY <1>1, <3>1, <4>3, <5>2 DEF RunIsSound
        <5> QED BY <1>4, <4>1, <4>3, <5>3
      <4> QED BY <4>2, <4>3
    <3> QED BY <1>2, <1>3, <1>5, <1>8, <2>1, <2>3, <3>1 DEF RunIsSound
  <2> QED BY <2>2, <2>3
<1> QED BY <1>3, <1>4, <1>6, <1>7, <1>9 DEF Anchoring

LEMMA WriteManifestFileKeeps ==
    ASSUME LedgerInv, NEW p \in Publishers, WriteManifestFile(p)
    PROVE  /\ pub' \in [Publishers -> Runs] /\ anchor' \in [Days -> SUBSET Hashes]
           /\ dirty' \subseteq Days /\ Anchoring'
<1>1. /\ pub \in [Publishers -> Runs] /\ anchor \in [Days -> SUBSET Hashes] /\ dirty \subseteq Days
      /\ RunIsSound(p) /\ pub[p].pc = "file"
  BY DEF LedgerInv, LedgerTypeOK, Anchoring, WriteManifestFile
<1>0. PICK d : d = pub[p].day
  OBVIOUS
<1>2. /\ anchor' = [anchor EXCEPT ![d] = pub[p].seen]
      /\ dirty' = IF pub[p].alone THEN dirty \ {d} ELSE dirty
      /\ pub' = [pub EXCEPT ![p].pc = "score"] \/ pub' = [pub EXCEPT ![p] = NoRun]
      /\ UNCHANGED <<ledger, manifest>>
  BY <1>0 DEF WriteManifestFile
<1>3. /\ pub' \in [Publishers -> Runs]
      /\ pub'[p].pc \in {"score", "idle"} /\ \A q \in Publishers \ {p} : pub'[q] = pub[q]
      /\ pub'[p].left \in Seq(DayRows(pub'[p].day))
      /\ d \in Days /\ pub[p].seen \in SUBSET Hashes
  <2>1. CASE pub' = [pub EXCEPT ![p].pc = "score"]
    BY <1>0, <1>1, <2>1 DEF Runs, RunIsSound
  <2>2. CASE pub' = [pub EXCEPT ![p] = NoRun]
    <3>1. pub' \in [Publishers -> Runs] /\ pub'[p] = NoRun /\ \A q \in Publishers \ {p} : pub'[q] = pub[q]
      BY <1>1, <2>2, NoRunType
    <3>2. d \in Days /\ pub[p].seen \in SUBSET Hashes
      BY <1>0, <1>1 DEF Runs
    <3> QED BY <3>1, <3>2, NoRunType, EmptySeq
  <2> QED BY <1>2, <2>1, <2>2
<1>4. /\ anchor' \in [Days -> SUBSET Hashes] /\ anchor'[d] = pub[p].seen /\ dirty' \subseteq Days
      /\ \A e \in Days \ {d} : anchor'[e] = anchor[e]
  BY <1>1, <1>2, <1>3
<1>5. ASSUME NEW e PROVE DayHashes(e)' = DayHashes(e)
  BY <1>2 DEF DayHashes
<1>6. ManifestTellsTruth'
  BY <1>0, <1>1, <1>2, <1>4, <1>5 DEF LedgerInv, Anchoring, ManifestTellsTruth, RunIsSound
<1>7. ManifestComplete'
  <2>1. ASSUME NEW e \in Days \ dirty', e # d PROVE manifest'[e] = DayHashes(e)' /\ anchor'[e] = DayHashes(e)'
    <3>1. e \notin dirty
      BY <1>2, <2>1
    <3> QED BY <1>2, <1>4, <1>5, <2>1, <3>1 DEF LedgerInv, Anchoring, ManifestComplete
  <2>2. ASSUME d \notin dirty' PROVE manifest'[d] = DayHashes(d)' /\ anchor'[d] = DayHashes(d)'
    <3>1. pub[p].alone \/ d \notin dirty
      BY <1>2, <2>2
    <3>2. pub[p].seen = DayHashes(d) /\ manifest[d] = pub[p].seen
      BY <1>0, <1>1, <3>1 DEF RunIsSound
    <3> QED BY <1>2, <1>4, <1>5, <3>2
  <2> QED BY <2>1, <2>2 DEF ManifestComplete
<1>8. ASSUME NEW q \in Publishers PROVE RunIsSound(q)'
  <2>1. CASE q = p
    BY <1>3, <2>1 DEF RunIsSound, Entering
  <2>2. CASE q # p
    <3>1. RunIsSound(q) /\ pub'[q] = pub[q]
      BY <1>3, <2>2 DEF LedgerInv, Anchoring
    <3>2. On(pub[q].day, q)' \subseteq On(pub[q].day, q)
      BY <1>3, <3>1 DEF On, Entering
    <3>3. ASSUME pub[q].pc \in {"upsert", "file"}, pub[q].day \notin dirty' PROVE pub[q].day \notin dirty
      <4> SUFFICES ASSUME pub[q].day \in dirty PROVE FALSE
        OBVIOUS
      <4>1. pub[p].alone /\ pub[q].day = d
        BY <1>2, <3>3
      <4>2. On(d, p) = {}
        BY <1>0, <1>1, <4>1 DEF RunIsSound, Entering
      <4> QED BY <1>0, <2>2, <3>3, <4>1, <4>2 DEF On, Entering
    <3> QED BY <1>2, <1>5, <3>1, <3>2, <3>3 DEF RunIsSound
  <2> QED BY <2>1, <2>2
<1> QED BY <1>3, <1>4, <1>6, <1>7, <1>8 DEF Anchoring

LEMMA GivingUpKeeps ==
    ASSUME LedgerInv, NEW p \in Publishers, pub' = GivenUp(p), UNCHANGED <<day, ledger, manifest, anchor, dirty>>
    PROVE  pub' \in [Publishers -> Runs] /\ Anchoring'
<1>1. pub[p].day \in Days
  BY DEF LedgerInv, LedgerTypeOK, Runs
<1>2. PICK run \in {ToScore(pub[p].day), NoRun} : pub' = [pub EXCEPT ![p] = run]
  BY DEF GivenUp
<1>3. run \in Runs /\ run.left = <<>> /\ run.pc \notin Entering
  BY <1>1, <1>2, NoRunType DEF Entering
<1> QED BY <1>2, <1>3, LeavingKeeps

\* The score counts what has been graded by now.
LEMMA ScoreKeeps ==
    ASSUME LedgerInv, NEW p \in Publishers, Score(p)
    PROVE  /\ pub' \in [Publishers -> Runs] /\ Anchoring'
           /\ cached' \in [n : Nat, shown : BOOLEAN] /\ GateHolds'
<1>1. /\ pub' = [pub EXCEPT ![p] = NoRun]
      /\ UNCHANGED <<ledger, grade, manifest, anchor, dirty>>
  BY DEF Score, notPublishing, roots
<1>2. pub' \in [Publishers -> Runs] /\ Anchoring'
  BY <1>1, NoRunType, LeavingKeeps DEF Entering
<1>3. Resolved \subseteq Refs
  BY DEF LedgerInv, LedgerTypeOK, Resolved, Published, Rows
<1>4. Cardinality(Resolved) \in Nat
  BY <1>3, RefsAreFinite, FS_Subset, FS_CardinalityType
<1>5. Resolved' = Resolved
  BY <1>1 DEF Resolved, Published
<1> DEFINE n == Cardinality(Resolved)
           enough == n >= MinPoints
<1>6. cached' = [n |-> n, shown |-> enough]
  BY DEF Score
<1>7. enough \in BOOLEAN /\ (enough <=> n >= MinPoints)
  OBVIOUS
<1> HIDE DEF enough
<1>8. cached' \in [n : Nat, shown : BOOLEAN] /\ cached'.n = n /\ cached'.shown = enough
  BY <1>4, <1>6, <1>7
<1>9. GateHolds'
  BY <1>4, <1>5, <1>7, <1>8 DEF GateHolds
<1> QED BY <1>2, <1>8, <1>9
-----------------------------------------------------------------------------
(* Grading.                                                                *)

Txns == [pc : {"idle", "judge"}, todo : Seq(Maps), judged : SUBSET Judgements]

\* A transaction that goes on, from what is due to it, keeps the graders apart.
LEMMA TxnKeeps ==
    ASSUME LedgerInv, NEW g \in Graders, NEW txn \in Txns, txn.todo \in Seq(Fresh(g)),
           \A j \in txn.judged :
             /\ j.map \in Fresh(g)
             /\ j.wrote => /\ j.map \in Published /\ grade[j.map] = Ungraded
                           /\ \A h \in Graders \ {g} : j.map \notin Wrote(h),
           grader' = [grader EXCEPT ![g] = txn], UNCHANGED <<ledger, grade, outcomes>>
    PROVE  grader' \in [Graders -> Txns] /\ Grading'
<1>1. grader \in [Graders -> Txns]
  BY DEF LedgerInv, LedgerTypeOK, Txns
<1>2. /\ grader' \in [Graders -> Txns] /\ grader'[g] = txn
      /\ \A h \in Graders \ {g} : grader'[h] = grader[h]
  BY <1>1
<1>3. Published' = Published /\ \A h \in Graders : Fresh(h)' = Fresh(h)
  BY DEF Published, Fresh
<1>4. \A h \in Graders \ {g} : Wrote(h)' = Wrote(h)
  BY <1>2 DEF Wrote
<1>5. \A r \in Wrote(g)' : /\ r \in Published /\ grade[r] = Ungraded
                           /\ \A h \in Graders \ {g} : r \notin Wrote(h)
  BY <1>2 DEF Wrote
<1>6. ASSUME NEW h \in Graders
      PROVE  /\ \A r \in Wrote(h)' : r \in Published' /\ grade'[r] = Ungraded
             /\ grader'[h].todo \in Seq(Fresh(h)')
             /\ \A j \in grader'[h].judged : j.map \in Fresh(h)'
  <2>1. CASE h = g
    BY <1>2, <1>3, <1>5, <2>1
  <2>2. CASE h # g
    BY <1>2, <1>3, <1>4, <2>2 DEF LedgerInv, Grading
  <2> QED BY <2>1, <2>2
<1>7. ASSUME NEW h \in Graders, NEW k \in Graders \ {h} PROVE Wrote(h)' \cap Wrote(k)' = {}
  <2>1. CASE h = g
    BY <1>4, <1>5, <2>1
  <2>2. CASE k = g
    BY <1>4, <1>5, <2>2
  <2>3. CASE h # g /\ k # g
    BY <1>4, <2>3 DEF LedgerInv, Grading
  <2> QED BY <2>1, <2>2, <2>3
<1>8. Grading'
  BY <1>6, <1>7 DEF Grading
<1> QED BY <1>2, <1>8

LEMMA NoTxnType == NoTxn \in Txns /\ NoTxn.judged = {} /\ \A S : NoTxn.todo \in Seq(S)
  BY EmptySeq DEF NoTxn, Txns

LEMMA GraderDiesKeeps ==
    ASSUME LedgerInv, NEW g \in Graders, GraderDies(g)
    PROVE  grader' \in [Graders -> Txns] /\ Grading'
<1>1. grader' = [grader EXCEPT ![g] = NoTxn] /\ UNCHANGED <<ledger, grade, outcomes>>
  BY DEF GraderDies, notGrading
<1> QED BY <1>1, NoTxnType, TxnKeeps

LEMMA GradeSelectKeeps ==
    ASSUME LedgerInv, NEW g \in Graders, GradeSelect(g)
    PROVE  grader' \in [Graders -> Txns] /\ Grading'
<1>1. PICK batch \in ToGrade : grader' = [grader EXCEPT ![g] = [pc |-> "judge", todo |-> batch, judged |-> {}]]
  BY DEF GradeSelect
<1>2. UNCHANGED <<ledger, grade, outcomes>>
  BY DEF GradeSelect, notGrading
<1>3. Gradable \subseteq Fresh(g) /\ Gradable \subseteq Maps
  <2>1. Made \subseteq Maps
    BY DEF LedgerInv, LedgerTypeOK, Made, Range
  <2> QED BY <2>1 DEF Gradable, Fresh, Evaluated
<1>4. batch \in Seq(Gradable)
  <2>1. PICK s \in BestFirst(Gradable) : batch = SubSeq(s, 1, IF Len(s) < GradeLimit THEN Len(s) ELSE GradeLimit)
    BY <1>1 DEF ToGrade
  <2>2. s \in Seq(Gradable)
    <3>1. s \in SetToSeqs(Gradable)
      BY <2>1 DEF BestFirst
    <3> QED BY <1>3, <3>1, RefsAreFinite, FiniteSeqs
  <2>3. PICK n : n = IF Len(s) < GradeLimit THEN Len(s) ELSE GradeLimit
    OBVIOUS
  <2>4. n \in Nat /\ n <= Len(s) /\ Len(s) \in Nat
    BY <2>2, <2>3, LedgerAssumption
  <2>5. \A i \in 1..n : s[i] \in Gradable
    BY <2>2, <2>4
  <2> QED BY <2>1, <2>3, <2>4, <2>5, SubSeqProperties
<1>5. batch \in Seq(Fresh(g)) /\ batch \in Seq(Maps)
  BY <1>3, <1>4, SeqMonotonic
<1> DEFINE txn == [pc |-> "judge", todo |-> batch, judged |-> {}]
<1>6. txn \in Txns /\ txn.todo = batch /\ txn.judged = {}
  BY <1>5 DEF Txns
<1> QED BY <1>1, <1>2, <1>5, <1>6, TxnKeeps

LEMMA JudgeKeeps ==
    ASSUME LedgerInv, NEW g \in Graders, NEW verdict \in Verdicts, Judge(g, verdict)
    PROVE  grader' \in [Graders -> Txns] /\ Grading'
<1>0. PICK m, wrote : m = Head(grader[g].todo) /\ wrote = (m \in Published /\ grade[m] = Ungraded)
  OBVIOUS
<1>1. PICK old : old = grader[g]
  OBVIOUS
<1>2. old \in Txns /\ old.todo \in Seq(Fresh(g)) /\ old.todo # <<>> /\ old.pc = "judge"
  BY <1>1 DEF LedgerInv, LedgerTypeOK, Grading, Txns, Judge
<1>3. m \in Fresh(g) /\ Tail(old.todo) \in Seq(Fresh(g)) /\ m \in Maps /\ Tail(old.todo) \in Seq(Maps)
  <2>1. m \in Fresh(g) /\ Tail(old.todo) \in Seq(Fresh(g)) /\ Fresh(g) \subseteq Maps
    BY <1>0, <1>1, <1>2, HeadTailProperties DEF Fresh
  <2> QED BY <2>1, SeqMonotonic
<1>4. wrote \in BOOLEAN /\ (wrote <=> m \in Published /\ grade[m] = Ungraded)
  BY <1>0
<1> DEFINE j == [map |-> m, verdict |-> verdict, wrote |-> wrote]
           txn == [pc |-> "judge", todo |-> Tail(old.todo), judged |-> old.judged \cup {j}]
<1>5. /\ grader' = [grader EXCEPT ![g] = [pc |-> "judge", todo |-> Tail(grader[g].todo),
                                          judged |-> grader[g].judged \cup {j}]]
      /\ \A h \in Graders \ {g} : m \notin Wrote(h)
      /\ UNCHANGED <<ledger, grade, outcomes>>
  BY <1>0 DEF Judge, Note, notGrading
<1>6. j \in Judgements /\ j.map = m /\ j.wrote = wrote
  BY <1>3, <1>4 DEF Judgements
<1> HIDE DEF j
<1>7. txn \in Txns /\ txn.todo = Tail(old.todo) /\ txn.judged = old.judged \cup {j}
  BY <1>2, <1>3, <1>6 DEF Txns
<1>8. grader' = [grader EXCEPT ![g] = txn]
  BY <1>1, <1>5
<1>9. ASSUME NEW k \in txn.judged
      PROVE  /\ k.map \in Fresh(g)
             /\ k.wrote => /\ k.map \in Published /\ grade[k.map] = Ungraded
                           /\ \A h \in Graders \ {g} : k.map \notin Wrote(h)
  <2>1. CASE k = j
    BY <1>3, <1>4, <1>5, <1>6, <2>1
  <2>2. CASE k \in old.judged
    <3>1. k.map \in Fresh(g)
      BY <1>1, <2>2 DEF LedgerInv, Grading
    <3>2. k.wrote => k.map \in Wrote(g)
      BY <1>1, <2>2 DEF Wrote
    <3> QED BY <3>1, <3>2 DEF LedgerInv, Grading
  <2> QED BY <1>7, <2>1, <2>2
<1> HIDE DEF txn
<1>10. txn.todo \in Seq(Fresh(g))
  BY <1>3, <1>7
<1> QED BY <1>5, <1>7, <1>8, <1>9, <1>10, TxnKeeps

LEMMA LeavePendingKeeps ==
    ASSUME LedgerInv, NEW g \in Graders, LeavePending(g)
    PROVE  grader' \in [Graders -> Txns] /\ Grading'
<1>1. PICK old : old = grader[g]
  OBVIOUS
<1>2. old \in Txns /\ old.todo \in Seq(Fresh(g)) /\ old.todo \in Seq(Maps) /\ old.todo # <<>>
  BY <1>1 DEF LedgerInv, LedgerTypeOK, Grading, Txns, LeavePending
<1>3. Tail(old.todo) \in Seq(Fresh(g)) /\ Tail(old.todo) \in Seq(Maps)
  BY <1>2, HeadTailProperties
<1> DEFINE txn == [pc |-> old.pc, todo |-> Tail(old.todo), judged |-> old.judged]
<1>4. txn \in Txns /\ txn.todo = Tail(old.todo) /\ txn.judged = old.judged
  BY <1>2, <1>3 DEF Txns
<1>5. grader' = [grader EXCEPT ![g].todo = Tail(@)] /\ UNCHANGED <<ledger, grade, outcomes>>
  BY DEF LeavePending, notGrading
<1>6. grader' = [grader EXCEPT ![g] = txn]
  <2> DEFINE rest == Tail(old.todo)
  <2> HIDE DEF rest
  <2>1. [old EXCEPT !.todo = rest] = [pc |-> old.pc, todo |-> rest, judged |-> old.judged]
    BY <1>2 DEF Txns
  <2>2. grader' = [grader EXCEPT ![g] = [old EXCEPT !.todo = rest]]
    BY <1>1, <1>5 DEF rest
  <2> QED BY <2>1, <2>2 DEF rest
<1> HIDE DEF txn
<1>7. ASSUME NEW k \in txn.judged
      PROVE  /\ k.map \in Fresh(g)
             /\ k.wrote => /\ k.map \in Published /\ grade[k.map] = Ungraded
                           /\ \A h \in Graders \ {g} : k.map \notin Wrote(h)
  <2>1. k.map \in Fresh(g) /\ (k.wrote => k.map \in Wrote(g))
    BY <1>1, <1>4 DEF LedgerInv, Grading, Wrote
  <2> QED BY <2>1 DEF LedgerInv, Grading
<1>8. txn.todo \in Seq(Fresh(g))
  BY <1>3, <1>4
<1> QED BY <1>4, <1>5, <1>6, <1>7, <1>8, TxnKeeps

\* What a committed grade is, and which rows it is of.
LEMMA CommittedGrades ==
    ASSUME LedgerInv, NEW g \in Graders, GradeCommit(g)
    PROVE  /\ grade' \in [Refs -> Verdicts \cup {Ungraded}]
           /\ Wrote(g) \subseteq Maps
           /\ \A r \in Refs \ Wrote(g) : grade'[r] = grade[r]
           /\ \A r \in Wrote(g) : \E j \in grader[g].judged :
                j.map = r /\ grade'[r] = j.verdict /\ j.verdict \in Verdicts
<1>1. /\ grade \in [Refs -> Verdicts \cup {Ungraded}]
      /\ grader[g].judged \subseteq Judgements
  BY DEF LedgerInv, LedgerTypeOK
<1>2. grade' = [r \in Refs |->
         IF r \in Wrote(g) THEN (CHOOSE j \in grader[g].judged : j.map = r).verdict ELSE grade[r]]
  BY DEF GradeCommit
<1>3. Wrote(g) \subseteq Maps /\ Wrote(g) \subseteq Refs
  BY <1>1 DEF Wrote, Judgements, Refs
<1>4. ASSUME NEW r \in Wrote(g)
      PROVE  \E j \in grader[g].judged : j.map = r /\ grade'[r] = j.verdict /\ j.verdict \in Verdicts
  <2>0. PICK J : J = grader[g].judged
    OBVIOUS
  <2>1. \E j \in J : j.map = r
    BY <2>0 DEF Wrote
  <2>2. PICK j : j = CHOOSE k \in J : k.map = r
    OBVIOUS
  <2>3. j \in J /\ j.map = r
    BY <2>1, <2>2
  <2>4. grade'[r] = j.verdict
    BY <1>2, <1>3, <2>0, <2>2
  <2> QED BY <1>1, <2>0, <2>3, <2>4 DEF Judgements
<1>5. \A r \in Refs \ Wrote(g) : grade'[r] = grade[r]
  BY <1>2
<1>6. \A r \in Refs : grade'[r] \in Verdicts \cup {Ungraded}
  BY <1>1, <1>4, <1>5
<1>7. grade' \in [Refs -> Verdicts \cup {Ungraded}]
  BY <1>2, <1>6
<1> QED BY <1>3, <1>4, <1>5, <1>7

LEMMA GradeCommitKeeps ==
    ASSUME LedgerInv, NEW g \in Graders, GradeCommit(g)
    PROVE  /\ grader' \in [Graders -> Txns] /\ Grading'
           /\ outcomes' \subseteq [event : Events, map : Maps \cup {Idle}, verdict : Verdicts, by : Graders \cup {Idle}]
<1>1. /\ outcomes' = outcomes \cup
           {[event |-> EventOf[j.map], map |-> j.map, verdict |-> j.verdict, by |-> g] : j \in grader[g].judged}
      /\ grader' = [grader EXCEPT ![g] = NoTxn] /\ ledger' = ledger
  BY DEF GradeCommit, notGrading
<1>2. /\ grader \in [Graders -> Txns] /\ grader[g].judged \subseteq Judgements
      /\ outcomes \subseteq [event : Events, map : Maps \cup {Idle}, verdict : Verdicts, by : Graders \cup {Idle}]
  BY DEF LedgerInv, LedgerTypeOK, Txns
<1>3. /\ grader' \in [Graders -> Txns] /\ grader'[g] = NoTxn
      /\ \A h \in Graders \ {g} : grader'[h] = grader[h]
  BY <1>1, <1>2, NoTxnType
<1>4. ASSUME NEW j \in grader[g].judged
      PROVE  [event |-> EventOf[j.map], map |-> j.map, verdict |-> j.verdict, by |-> g]
               \in [event : Events, map : Maps \cup {Idle}, verdict : Verdicts, by : Graders \cup {Idle}]
    BY <1>2 DEF Judgements, Events
<1>5. outcomes' \subseteq [event : Events, map : Maps \cup {Idle}, verdict : Verdicts, by : Graders \cup {Idle}]
  BY <1>1, <1>2, <1>4
<1>6. ASSUME NEW h \in Graders \ {g} PROVE Fresh(h)' = Fresh(h)
  <2>1. \A o \in outcomes' : o.by = h => o \in outcomes
    BY <1>1
  <2>2. outcomes \subseteq outcomes'
    BY <1>1
  <2> QED BY <2>1, <2>2 DEF Fresh
<1>7. /\ \A h \in Graders \ {g} : Wrote(h)' = Wrote(h)
      /\ Wrote(g)' = {} /\ Published' = Published
  BY <1>1, <1>3, NoTxnType DEF Wrote, Published
<1>8. \A h \in Graders \ {g} : \A r \in Wrote(h) : r \in Published /\ grade'[r] = Ungraded
  <2>1. ASSUME NEW h \in Graders \ {g}, NEW r \in Wrote(h)
        PROVE  r \in Published /\ grade'[r] = Ungraded
    <3>1. r \in Published /\ grade[r] = Ungraded /\ r \notin Wrote(g)
      BY DEF LedgerInv, Grading
    <3>2. r \in Refs
      BY <3>1 DEF LedgerInv, LedgerTypeOK, Published, Rows
    <3> QED BY <3>1, <3>2, CommittedGrades
  <2> QED BY <2>1
<1>9. ASSUME NEW h \in Graders
      PROVE  /\ \A r \in Wrote(h)' : r \in Published' /\ grade'[r] = Ungraded
             /\ \A k \in Graders \ {h} : Wrote(h)' \cap Wrote(k)' = {}
             /\ grader'[h].todo \in Seq(Fresh(h)')
             /\ \A j \in grader'[h].judged : j.map \in Fresh(h)'
  <2>1. CASE h = g
    <3>1. NoTxn.todo \in Seq(Fresh(h)')
      BY NoTxnType
    <3> QED BY <1>3, <1>7, <2>1, <3>1, NoTxnType
  <2>2. CASE h # g
    <3>1. grader'[h] = grader[h] /\ Fresh(h)' = Fresh(h) /\ Wrote(h)' = Wrote(h)
      BY <1>3, <1>6, <1>7, <2>2
    <3>2. \A k \in Graders \ {h} : Wrote(h)' \cap Wrote(k)' = {}
      BY <1>7, <2>2 DEF LedgerInv, Grading
    <3>3. \A r \in Wrote(h)' : r \in Published' /\ grade'[r] = Ungraded
      BY <1>7, <1>8, <2>2
    <3> QED BY <3>1, <3>2, <3>3 DEF LedgerInv, Grading
  <2> QED BY <2>1, <2>2
<1>10. Grading'
  BY <1>9 DEF Grading
<1> QED BY <1>3, <1>5, <1>10

LEMMA PollTypes ==
    ASSUME LedgerInv
    PROVE  /\ poll.todo \subseteq Markets
           /\ \A f \in poll.found : f.ref \in Markets /\ f.verdict \in Verdicts
           /\ Polled \subseteq Markets /\ Polled \subseteq Published
  BY DEF LedgerInv, LedgerTypeOK, Polled

Polls == [pc : {"idle", "poll"}, todo : SUBSET Markets, found : SUBSET [ref : Markets, verdict : Verdicts]]

LEMMA PollSelectKeeps ==
    ASSUME LedgerInv, PollSelect PROVE poll' \in Polls /\ Polling'
<1>1. PICK some \in SUBSET Polled : poll' = [pc |-> "poll", todo |-> some, found |-> {}]
  BY DEF PollSelect
<1>2. ledger' = ledger /\ Published' = Published
  BY DEF PollSelect, notGrading, Published
<1> QED BY <1>1, <1>2, PollTypes DEF Polls, Polling

LEMMA PollOneKeeps ==
    ASSUME LedgerInv, NEW x \in Markets, NEW answered \in BOOLEAN, PollOne(x, answered)
    PROVE  poll' \in Polls /\ Polling'
<1>1. PICK new : new = [ref |-> x, verdict |-> IF market[x] = "yes" THEN "materialized" ELSE "failed"]
  OBVIOUS
<1>2. PICK found : found = IF answered /\ market[x] \in {"yes", "no"} THEN poll.found \cup {new} ELSE poll.found
  OBVIOUS
<1>3. poll' = [poll EXCEPT !.todo = @ \ {x}, !.found = found]
  BY <1>1, <1>2 DEF PollOne
<1>4. poll \in Polls /\ UNCHANGED <<ledger, market>> /\ Published' = Published /\ x \in poll.todo
  BY DEF LedgerInv, LedgerTypeOK, Polls, PollOne, notGrading, world, Published
<1>5. new.ref = x /\ new \in [ref : Markets, verdict : Verdicts]
      /\ new.verdict = IF market[x] = "yes" THEN "materialized" ELSE "failed"
  BY <1>1, LedgerAssumption
<1>6. found \subseteq [ref : Markets, verdict : Verdicts]
  BY <1>2, <1>4, <1>5 DEF Polls
<1>7. poll' \in Polls /\ poll'.todo = poll.todo \ {x} /\ poll'.found = found
  BY <1>3, <1>4, <1>6 DEF Polls
<1>8. \A f \in found : /\ f.ref \in Published
                       /\ market[f.ref] \in {"yes", "no"}
                       /\ f.verdict = IF market[f.ref] = "yes" THEN "materialized" ELSE "failed"
  BY <1>2, <1>4, <1>5 DEF LedgerInv, Polling
<1>9. Polling'
  BY <1>4, <1>7, <1>8 DEF LedgerInv, Polling
<1> QED BY <1>7, <1>9

LEMMA PollIdleKeeps ==
    ASSUME poll' = [pc |-> "idle", todo |-> {}, found |-> {}]
    PROVE  poll' \in Polls /\ Polling'
  BY DEF Polls, Polling

\* The resolver's grades are of market questions and what the market says.
LEMMA PolledGrades ==
    ASSUME LedgerInv, PollCommit
    PROVE  /\ grade' \in [Refs -> Verdicts \cup {Ungraded}]
           /\ \A m \in Maps : grade'[m] = grade[m]
           /\ \A r \in Refs : grade'[r] # grade[r] =>
                /\ grade[r] = Ungraded /\ r \in Published /\ grade'[r] \in Verdicts
                /\ market[r] \in {"yes", "no"}
                /\ grade'[r] = IF market[r] = "yes" THEN "materialized" ELSE "failed"
<1>1. grade \in [Refs -> Verdicts \cup {Ungraded}]
  BY DEF LedgerInv, LedgerTypeOK
<1>2. PICK F : F = poll.found
  OBVIOUS
<1>3. grade' = [r \in Refs |->
         IF \E f \in F : f.ref = r /\ grade[r] = Ungraded
         THEN (CHOOSE f \in F : f.ref = r).verdict ELSE grade[r]]
  BY <1>2 DEF PollCommit
<1>4. \A f \in F : /\ f.ref \in Markets /\ f.verdict \in Verdicts /\ f.ref \in Published
                   /\ market[f.ref] \in {"yes", "no"}
                   /\ f.verdict = IF market[f.ref] = "yes" THEN "materialized" ELSE "failed"
  BY <1>2, PollTypes DEF LedgerInv, Polling
<1>5. ASSUME NEW r \in Refs, \E f \in F : f.ref = r /\ grade[r] = Ungraded
      PROVE  /\ grade[r] = Ungraded /\ r \in Markets /\ r \in Published /\ grade'[r] \in Verdicts
             /\ market[r] \in {"yes", "no"}
             /\ grade'[r] = IF market[r] = "yes" THEN "materialized" ELSE "failed"
  <2>1. PICK f : f = CHOOSE k \in F : k.ref = r
    OBVIOUS
  <2>2. f \in F /\ f.ref = r
    BY <1>5, <2>1
  <2>3. grade'[r] = f.verdict
    BY <1>3, <1>5, <2>1
  <2> QED BY <1>4, <1>5, <2>2, <2>3
<1>6. \A r \in Refs : ~(\E f \in F : f.ref = r /\ grade[r] = Ungraded) => grade'[r] = grade[r]
  BY <1>3
<1>7. \A m \in Maps : grade'[m] = grade[m]
  <2>1. \A m \in Maps : m \in Refs /\ m \notin Markets
    BY LedgerAssumption DEF Refs
  <2> QED BY <1>4, <1>6, <2>1
<1>8. grade' \in [Refs -> Verdicts \cup {Ungraded}]
  <2>1. \A r \in Refs : grade'[r] \in Verdicts \cup {Ungraded}
    BY <1>1, <1>5, <1>6
  <2> QED BY <1>3, <2>1
<1> QED BY <1>5, <1>6, <1>7, <1>8

LEMMA PollCommitKeeps ==
    ASSUME LedgerInv, PollCommit PROVE poll' \in Polls /\ Polling' /\ Grading'
<1>1. poll' = [pc |-> "idle", todo |-> {}, found |-> {}] /\ UNCHANGED <<ledger, outcomes, grader>>
  BY DEF PollCommit, notGrading
<1>2. Published' = Published /\ \A g \in Graders : Wrote(g)' = Wrote(g) /\ Fresh(g)' = Fresh(g)
  BY <1>1 DEF Published, Wrote, Fresh
<1>3. ASSUME NEW g \in Graders, NEW r \in Wrote(g) PROVE r \in Published /\ grade'[r] = Ungraded
  <2>1. r \in Maps
    BY DEF LedgerInv, LedgerTypeOK, Wrote, Judgements
  <2> QED BY <2>1, PolledGrades DEF LedgerInv, Grading
<1>4. Grading'
  BY <1>1, <1>2, <1>3 DEF LedgerInv, Grading
<1> QED BY <1>1, <1>4, PollIdleKeeps
-----------------------------------------------------------------------------
(* The back-fill.                                                          *)

LEMMA RelabelKeeps ==
    ASSUME LedgerInv, UNCHANGED <<ledger, grade, grader>>,
           \A o \in outcomes' : o \in outcomes \/ o.by = Idle
    PROVE  Grading'
<1>1. ASSUME NEW g \in Graders PROVE Wrote(g)' = Wrote(g) /\ Fresh(g) \subseteq Fresh(g)'
  <2>1. Idle # g
    BY LedgerAssumption
  <2> QED BY <2>1 DEF Wrote, Fresh
<1>2. \A g \in Graders : grader[g].todo \in Seq(Fresh(g)')
  BY <1>1, SeqMonotonic DEF LedgerInv, Grading
<1>3. Published' = Published
  BY DEF Published
<1> QED BY <1>1, <1>2, <1>3 DEF LedgerInv, Grading
-----------------------------------------------------------------------------
(* Every step keeps the invariant.                                         *)

OutcomeRows == [event : Events, map : Maps \cup {Idle}, verdict : Verdicts, by : Graders \cup {Idle}]

LEMMA PublishingKeeps ==
    ASSUME LedgerInv, UNCHANGED notPublishing,
           pub' \in [Publishers -> Runs], Anchoring',
           ledger' \subseteq Rows, ledger \subseteq ledger', dirty' \subseteq Days,
           manifest' \in [Days -> SUBSET Hashes], anchor' \in [Days -> SUBSET Hashes],
           runs' \in Nat, incidents' \in Nat,
           cached' = cached \/ (cached' \in [n : Nat, shown : BOOLEAN] /\ GateHolds')
    PROVE  LedgerInv'
<1>1. UNCHANGED <<made, aged, later, market, day, grade, outcomes, grader, poll, relabel>>
  BY DEF notPublishing, world
<1>2. LedgerTypeOK'
  BY <1>1 DEF LedgerInv, LedgerTypeOK
<1>3. Grading' /\ Polling'
  BY <1>1, GradingFrame, PollingFrame DEF LedgerInv
<1>4. GateHolds'
  BY <1>1, <1>2, GateFrame DEF LedgerInv
<1> QED BY <1>2, <1>3, <1>4 DEF LedgerInv

LEMMA GradersKeep ==
    ASSUME LedgerInv, UNCHANGED notGrading, relabel' \in Events \cup {Idle}, incidents' \in Nat,
           grade' \in [Refs -> Verdicts \cup {Ungraded}], outcomes' \subseteq OutcomeRows,
           grader' \in [Graders -> Txns], poll' \in Polls, Grading', Polling',
           \A r \in Refs : grade[r] # Ungraded => grade'[r] # Ungraded
    PROVE  LedgerInv'
<1>1. UNCHANGED <<made, aged, later, market, day, ledger, manifest, anchor, dirty, pub, runs, cached>>
  BY DEF notGrading, world, roots
<1>2. LedgerTypeOK'
  BY <1>1 DEF LedgerInv, LedgerTypeOK, Txns, Polls, OutcomeRows
<1>3. Anchoring'
  BY <1>1, AnchoringFrame DEF LedgerInv
<1>4. GateHolds'
  BY <1>1, <1>2, GateFrame DEF LedgerInv
<1> QED BY <1>2, <1>3, <1>4 DEF LedgerInv

LEMMA WorldKeeps ==
    ASSUME LedgerInv, UNCHANGED <<book, roots, pub, runs, grader, poll, cached, relabel, incidents>>,
           made' \in Seq(Maps), aged' \subseteq Events, later' \subseteq Maps, day' \in Days,
           market' \in [Markets -> {"open", "yes", "no", "void"}],
           \A x \in Markets : market[x] # "open" => market'[x] = market[x]
    PROVE  LedgerInv'
<1>1. UNCHANGED <<ledger, grade, outcomes, manifest, anchor, dirty>>
  BY DEF book, roots
<1>2. LedgerTypeOK'
  BY <1>1 DEF LedgerInv, LedgerTypeOK
<1>3. Anchoring' /\ Grading'
  BY <1>1, AnchoringFrame, GradingFrame DEF LedgerInv
<1>4. Polling'
  <2>1. Published' = Published
    BY <1>1 DEF Published
  <2>2. \A f \in poll.found : market'[f.ref] = market[f.ref]
    BY PollTypes DEF LedgerInv, Polling
  <2> QED BY <2>1, <2>2 DEF LedgerInv, Polling
<1>5. GateHolds'
  BY <1>1, <1>2, GateFrame DEF LedgerInv
<1> QED BY <1>2, <1>3, <1>4, <1>5 DEF LedgerInv

LEMMA PublishStepKeeps ==
    ASSUME LedgerInv, NEW p \in Publishers, PublishStep(p) \/ PublishFails(p) PROVE LedgerInv'
<1>0. /\ ledger \subseteq Rows /\ dirty \subseteq Days /\ runs \in Nat /\ incidents \in Nat
      /\ manifest \in [Days -> SUBSET Hashes] /\ anchor \in [Days -> SUBSET Hashes]
  BY DEF LedgerInv, LedgerTypeOK
<1>1. CASE Insert(p)
  <2>1. UNCHANGED <<notPublishing, manifest, anchor, runs, cached, incidents>>
    BY <1>1 DEF Insert
  <2> QED BY <1>0, <1>1, <2>1, InsertKeeps, PublishingKeeps
<1>2. CASE HashClash(p)
  <2>1. pub' = GivenUp(p) /\ UNCHANGED <<notPublishing, ledger, manifest, anchor, dirty, runs, cached, incidents>>
    BY <1>2 DEF HashClash, roots
  <2> QED BY <1>0, <2>1, GivingUpKeeps, PublishingKeeps DEF notPublishing, world
<1>3. CASE ReadDay(p)
  <2>1. UNCHANGED <<notPublishing, ledger, manifest, anchor, dirty, runs, cached, incidents>>
    BY <1>3 DEF ReadDay, roots
  <2> QED BY <1>0, <1>3, <2>1, ReadDayKeeps, PublishingKeeps
<1>4. CASE Upsert(p)
  <2>1. UNCHANGED <<notPublishing, ledger, anchor, dirty, runs, cached, incidents>>
    BY <1>4 DEF Upsert
  <2> QED BY <1>0, <1>4, <2>1, UpsertKeeps, PublishingKeeps
<1>5. CASE WriteManifestFile(p)
  <2>1. UNCHANGED <<notPublishing, ledger, manifest, runs, cached, incidents>>
    BY <1>5 DEF WriteManifestFile
  <2> QED BY <1>0, <1>5, <2>1, WriteManifestFileKeeps, PublishingKeeps
<1>6. CASE Score(p)
  <2>1. UNCHANGED <<notPublishing, ledger, manifest, anchor, dirty, runs, incidents>>
    BY <1>6 DEF Score, roots
  <2> QED BY <1>0, <1>6, <2>1, ScoreKeeps, PublishingKeeps
<1>7. CASE PublishFails(p)
  <2>1. pub' = GivenUp(p) /\ UNCHANGED <<notPublishing, ledger, manifest, anchor, dirty, runs, cached>>
    BY <1>7 DEF PublishFails, roots
  <2>2. incidents' \in Nat
    BY <1>0, <1>7 DEF PublishFails
  <2> QED BY <1>0, <2>1, <2>2, GivingUpKeeps, PublishingKeeps DEF notPublishing, world
<1> QED BY <1>1, <1>2, <1>3, <1>4, <1>5, <1>6, <1>7 DEF PublishStep

LEMMA StartKeeps ==
    ASSUME LedgerInv,
           (\E p \in Inside : StartInside(p)) \/ (\E p \in Outside, said \in Forecasts : StartOutside(p, said))
    PROVE  LedgerInv'
<1>0. /\ ledger \subseteq Rows /\ dirty \subseteq Days /\ runs \in Nat /\ incidents \in Nat
      /\ manifest \in [Days -> SUBSET Hashes] /\ anchor \in [Days -> SUBSET Hashes]
  BY DEF LedgerInv, LedgerTypeOK
<1>1. ASSUME NEW p \in Inside, StartInside(p) PROVE LedgerInv'
  <2>1. UNCHANGED <<notPublishing, ledger, manifest, anchor, dirty, runs, cached, incidents>>
    BY <1>1 DEF StartInside, roots
  <2> QED BY <1>0, <1>1, <2>1, StartInsideKeeps, PublishingKeeps
<1>2. ASSUME NEW p \in Outside, NEW said \in Forecasts, StartOutside(p, said) PROVE LedgerInv'
  <2>1. UNCHANGED <<notPublishing, ledger, manifest, anchor, dirty, cached, incidents>>
    BY <1>2 DEF StartOutside, roots
  <2> QED BY <1>0, <1>2, <2>1, StartOutsideKeeps, PublishingKeeps
<1> QED BY <1>1, <1>2

LEMMA GradeStepKeeps ==
    ASSUME LedgerInv, NEW g \in Graders, GradeSelect(g) \/ GradeStep(g) \/ GraderDies(g) PROVE LedgerInv'
<1>0. /\ grade \in [Refs -> Verdicts \cup {Ungraded}] /\ outcomes \subseteq OutcomeRows /\ poll \in Polls
      /\ relabel \in Events \cup {Idle} /\ incidents \in Nat /\ "ungraded" \notin Verdicts
  BY LedgerAssumption DEF LedgerInv, LedgerTypeOK, OutcomeRows, Polls
<1>1. ASSUME UNCHANGED <<notGrading, grade, outcomes, poll, relabel>>, incidents' \in Nat,
             grader' \in [Graders -> Txns], Grading'
      PROVE  LedgerInv'
  <2>1. Polling'
    BY <1>1, PollingFrame DEF LedgerInv, notGrading, world
  <2> QED BY <1>0, <1>1, <2>1, GradersKeep
<1>2. CASE GradeSelect(g)
  BY <1>0, <1>1, <1>2, GradeSelectKeeps DEF GradeSelect
<1>3. CASE LeavePending(g)
  BY <1>0, <1>1, <1>3, LeavePendingKeeps DEF LeavePending
<1>4. ASSUME NEW v \in Verdicts, Judge(g, v) PROVE LedgerInv'
  BY <1>0, <1>1, <1>4, JudgeKeeps DEF Judge
<1>5. CASE GraderDies(g)
  <2>1. incidents' \in Nat /\ UNCHANGED <<notGrading, grade, outcomes, poll, relabel>>
    BY <1>0, <1>5 DEF GraderDies
  <2>2. grader' \in [Graders -> Txns] /\ Grading'
    BY <1>5, GraderDiesKeeps
  <2> QED BY <1>1, <2>1, <2>2
<1>6. CASE GradeCommit(g)
  <2>1. UNCHANGED <<notGrading, poll, relabel, incidents>>
    BY <1>6 DEF GradeCommit
  <2>2. Polling'
    BY <2>1, PollingFrame DEF LedgerInv, notGrading, world
  <2>3. \A r \in Refs : grade[r] # Ungraded => grade'[r] # Ungraded
    BY <1>0, <1>6, CommittedGrades DEF Ungraded
  <2> QED BY <1>0, <1>6, <2>1, <2>2, <2>3, GradeCommitKeeps, CommittedGrades, GradersKeep DEF OutcomeRows
<1> QED BY <1>2, <1>3, <1>4, <1>5, <1>6 DEF GradeStep

LEMMA PollStepKeeps ==
    ASSUME LedgerInv, PollSelect \/ PollStep \/ PollerDies PROVE LedgerInv'
<1>0. /\ grade \in [Refs -> Verdicts \cup {Ungraded}] /\ outcomes \subseteq OutcomeRows
      /\ grader \in [Graders -> Txns] /\ relabel \in Events \cup {Idle} /\ incidents \in Nat
      /\ "ungraded" \notin Verdicts
  BY LedgerAssumption DEF LedgerInv, LedgerTypeOK, OutcomeRows, Txns
<1>1. ASSUME UNCHANGED <<notGrading, grade, outcomes, grader, relabel>>, incidents' \in Nat,
             poll' \in Polls, Polling'
      PROVE  LedgerInv'
  <2>1. Grading'
    BY <1>1, GradingFrame DEF LedgerInv, notGrading
  <2> QED BY <1>0, <1>1, <2>1, GradersKeep
<1>2. CASE PollSelect
  BY <1>0, <1>1, <1>2, PollSelectKeeps DEF PollSelect
<1>3. ASSUME NEW x \in Markets, NEW answered \in BOOLEAN, PollOne(x, answered) PROVE LedgerInv'
  BY <1>0, <1>1, <1>3, PollOneKeeps DEF PollOne
<1>4. CASE PollerDies
  BY <1>0, <1>1, <1>4, PollIdleKeeps DEF PollerDies
<1>5. CASE PollCommit
  <2>1. UNCHANGED <<notGrading, outcomes, grader, relabel, incidents>>
    BY <1>5 DEF PollCommit
  <2>2. \A r \in Refs : grade[r] # Ungraded => grade'[r] # Ungraded
    BY <1>5, PolledGrades
  <2> QED BY <1>0, <1>5, <2>1, <2>2, PollCommitKeeps, PolledGrades, GradersKeep
<1> QED BY <1>2, <1>3, <1>4, <1>5 DEF PollStep

LEMMA BackfillKeeps ==
    ASSUME LedgerInv, (\E e \in Relabelled : RelabelDelete(e)) \/ (\E v \in Verdicts : RelabelInsert(v))
    PROVE  LedgerInv'
<1>0. /\ grade \in [Refs -> Verdicts \cup {Ungraded}] /\ outcomes \subseteq OutcomeRows
      /\ grader \in [Graders -> Txns] /\ poll \in Polls /\ relabel \in Events \cup {Idle} /\ incidents \in Nat
  BY DEF LedgerInv, LedgerTypeOK, OutcomeRows, Txns, Polls
<1>1. ASSUME UNCHANGED <<notGrading, grade, grader, poll>>, relabel' \in Events \cup {Idle}, incidents' \in Nat,
             outcomes' \subseteq OutcomeRows, \A o \in outcomes' : o \in outcomes \/ o.by = Idle
      PROVE  LedgerInv'
  <2>1. Grading' /\ Polling'
    BY <1>1, RelabelKeeps, PollingFrame DEF LedgerInv, notGrading, world
  <2> QED BY <1>0, <1>1, <2>1, GradersKeep
<1>2. ASSUME NEW e \in Relabelled, RelabelDelete(e) PROVE LedgerInv'
  <2>1. outcomes' \subseteq outcomes /\ relabel' = e /\ incidents' \in Nat
    BY <1>0, <1>2 DEF RelabelDelete
  <2>2. UNCHANGED <<notGrading, grade, grader, poll>>
    BY <1>2 DEF RelabelDelete, notGrading
  <2>3. e \in Events
    BY LedgerAssumption
  <2> QED BY <1>0, <1>1, <2>1, <2>2, <2>3
<1>3. ASSUME NEW v \in Verdicts, RelabelInsert(v) PROVE LedgerInv'
  <2> DEFINE o == [event |-> relabel, map |-> Idle, verdict |-> v, by |-> Idle]
  <2>1. relabel # Idle /\ relabel' = Idle /\ outcomes' = outcomes \cup {o}
        /\ UNCHANGED <<notGrading, grade, grader, poll, incidents>>
    BY <1>3 DEF RelabelInsert
  <2>2. o \in OutcomeRows /\ o.by = Idle
    BY <1>0, <2>1 DEF OutcomeRows
  <2> HIDE DEF o
  <2>3. outcomes' \subseteq OutcomeRows /\ \A r \in outcomes' : r \in outcomes \/ r.by = Idle
    BY <1>0, <2>1, <2>2
  <2> QED BY <1>0, <1>1, <2>1, <2>3
<1> QED BY <1>2, <1>3

LEMMA LedgerInvNext == ASSUME LedgerInv, [LedgerNext]_vars PROVE LedgerInv'
<1>0. /\ made \in Seq(Maps) /\ aged \subseteq Events /\ later \subseteq Maps /\ day \in Days
      /\ market \in [Markets -> {"open", "yes", "no", "void"}]
  BY DEF LedgerInv, LedgerTypeOK
<1>1. ASSUME NEW m \in Maps, MapMade(m) PROVE LedgerInv'
  <2>1. made' \in Seq(Maps)
    BY <1>0, <1>1 DEF MapMade
  <2> QED BY <1>0, <1>1, <2>1, WorldKeeps DEF MapMade
<1>2. ASSUME NEW e \in Events, Ripen(e) PROVE LedgerInv'
  BY <1>0, <1>2, WorldKeeps DEF Ripen
<1>3. ASSUME NEW e \in Newsworthy, ArticleArrives(e) PROVE LedgerInv'
  <2>1. Made \subseteq Maps
    BY <1>0 DEF Made, Range
  <2>2. later' \subseteq Maps
    BY <1>0, <1>3, <2>1 DEF ArticleArrives
  <2> QED BY <1>0, <1>3, <2>2, WorldKeeps DEF ArticleArrives
<1>4. ASSUME NEW x, NEW how \in {"yes", "no", "void"}, MarketCloses(x, how) PROVE LedgerInv'
  <2>1. market[x] = "open" /\ market' = [market EXCEPT ![x] = how]
    BY <1>4 DEF MarketCloses
  <2>2. /\ market' \in [Markets -> {"open", "yes", "no", "void"}]
        /\ \A y \in Markets : market[y] # "open" => market'[y] = market[y]
    BY <1>0, <2>1
  <2> QED BY <1>0, <1>4, <2>2, WorldKeeps DEF MarketCloses
<1>5. CASE Midnight
  <2>1. day' \in Days
    BY <1>0, <1>5, LedgerAssumption DEF Midnight, Days
  <2> QED BY <1>0, <1>5, <2>1, WorldKeeps DEF Midnight
<1>6. CASE UNCHANGED vars
  BY <1>0, <1>6, WorldKeeps DEF vars, book, roots
<1>7. ASSUME NEW p \in Publishers, PublishStep(p) \/ PublishFails(p) PROVE LedgerInv'
  BY <1>7, PublishStepKeeps
<1>8. ASSUME NEW g \in Graders, GradeSelect(g) \/ GradeStep(g) \/ GraderDies(g) PROVE LedgerInv'
  BY <1>8, GradeStepKeeps
<1>9. ASSUME NEW c \in Closing, MarketCloses(c[1], c[2]) PROVE LedgerInv'
  <2>1. c[2] \in {"yes", "no", "void"}
    BY LedgerAssumption
  <2> QED BY <1>4, <1>9, <2>1
<1> QED
  BY <1>1, <1>2, <1>3, <1>5, <1>6, <1>7, <1>8, <1>9, StartKeeps, PollStepKeeps, BackfillKeeps
  DEF LedgerNext

\* Grades change when a grader or the resolver commits, rows come with an insert.
LEMMA OnlyCommitsGrade ==
    ASSUME [LedgerNext]_vars
    PROVE  \/ UNCHANGED <<ledger, grade>>
           \/ \E p \in Publishers : Insert(p) /\ UNCHANGED grade
           \/ \E g \in Graders : GradeCommit(g)
           \/ PollCommit
<1>1. ASSUME NEW p \in Publishers, PublishStep(p) \/ PublishFails(p)
      PROVE  UNCHANGED <<ledger, grade>> \/ (Insert(p) /\ UNCHANGED grade)
  BY <1>1 DEF PublishStep, PublishFails, Insert, HashClash, ReadDay, Upsert, WriteManifestFile, Score,
              notPublishing
<1>2. ASSUME NEW g \in Graders, GradeSelect(g) \/ GradeStep(g) \/ GraderDies(g)
      PROVE  UNCHANGED <<ledger, grade>> \/ GradeCommit(g)
  BY <1>2 DEF GradeSelect, GradeStep, GraderDies, LeavePending, Judge, notGrading
<1>3. ASSUME PollSelect \/ PollStep \/ PollerDies PROVE UNCHANGED <<ledger, grade>> \/ PollCommit
  BY <1>3 DEF PollSelect, PollStep, PollOne, PollerDies, notGrading
<1>4. ASSUME (\E p \in Inside : StartInside(p)) \/ (\E p \in Outside, said \in Forecasts : StartOutside(p, said))
      PROVE  UNCHANGED <<ledger, grade>>
  BY <1>4 DEF StartInside, StartOutside, notPublishing
<1>5. ASSUME (\E e \in Relabelled : RelabelDelete(e)) \/ (\E v \in Verdicts : RelabelInsert(v))
      PROVE  UNCHANGED <<ledger, grade>>
  BY <1>5 DEF RelabelDelete, RelabelInsert, notGrading
<1>6. ASSUME \/ \E m \in Maps : MapMade(m)
             \/ \E e \in Events : Ripen(e)
             \/ \E e \in Newsworthy : ArticleArrives(e)
             \/ \E c \in Closing : MarketCloses(c[1], c[2])
             \/ Midnight \/ UNCHANGED vars
      PROVE  UNCHANGED <<ledger, grade>>
  BY <1>6 DEF MapMade, Ripen, ArticleArrives, MarketCloses, Midnight, book, vars
<1> QED BY <1>1, <1>2, <1>3, <1>4, <1>5, <1>6 DEF LedgerNext
-----------------------------------------------------------------------------
(* The theorems.                                                           *)

\* The invariant holds throughout.
LEMMA LedgerInvariant == LedgerSpec => []LedgerInv
<1>1. LedgerInv /\ [LedgerNext]_vars => LedgerInv'
  BY LedgerInvNext
<1>2. LedgerInit => LedgerInv
  BY LedgerInvInit
<1> QED BY <1>1, <1>2, PTL DEF LedgerSpec

\* Types hold throughout.
THEOREM LedgerTypeCorrect == LedgerSpec => []LedgerTypeOK
<1>1. LedgerInv => LedgerTypeOK
  BY DEF LedgerInv
<1> QED BY <1>1, LedgerInvariant, PTL

\* Whatever publishers, graders and the clock do, roots and files name only what
\* was entered, a day one run rolled up alone is anchored whole, and a cached
\* score is shown only when enough forecasts are resolved.
THEOREM LedgerIsSoundAlways == LedgerSpec => []LedgerIsSound
<1>1. LedgerInv => LedgerIsSound
  BY DEF LedgerInv, Anchoring, LedgerIsSound
<1> QED BY <1>1, LedgerInvariant, PTL

\* No grade appears that was not earned: an engine forecast is graded together
\* with the outcome row that says why, a market question as the market settled it.
THEOREM GradesAreEarned == LedgerSpec => GradeIsEarned
<1> DEFINE Earned ==
      /\ \A m \in Maps : grade'[m] # grade[m] =>
           \E o \in outcomes' \ outcomes : o.map = m /\ o.verdict = grade'[m]
      /\ \A x \in Markets : grade'[x] # grade[x] =>
           grade'[x] = CASE market[x] = "yes" -> "materialized"
                         [] market[x] = "no" -> "failed"
                         [] OTHER -> Ungraded
<1>1. ASSUME LedgerInv, [LedgerNext]_vars PROVE Earned \/ UNCHANGED vars
  <2>1. CASE UNCHANGED grade
    BY <2>1
  <2>2. ASSUME NEW g \in Graders, GradeCommit(g) PROVE Earned
    <3>1. ASSUME NEW m \in Maps, grade'[m] # grade[m]
          PROVE  \E o \in outcomes' \ outcomes : o.map = m /\ o.verdict = grade'[m]
      <4>1. m \in Wrote(g)
        BY <1>1, <2>2, <3>1, CommittedGrades DEF Refs
      <4>2. PICK j \in grader[g].judged : j.map = m /\ grade'[m] = j.verdict
        BY <1>1, <2>2, <4>1, CommittedGrades
      <4>3. PICK o : o = [event |-> EventOf[j.map], map |-> j.map, verdict |-> j.verdict, by |-> g]
        OBVIOUS
      <4>4. o \in outcomes' /\ o.by = g /\ o.event = EventOf[m] /\ o.map = m /\ o.verdict = grade'[m]
        BY <2>2, <4>2, <4>3 DEF GradeCommit
      <4>5. m \in Fresh(g)
        BY <1>1, <4>2 DEF LedgerInv, Grading
      <4>6. o \notin outcomes
        BY <4>4, <4>5 DEF Fresh
      <4> QED BY <4>4, <4>6
    <3>2. \A x \in Markets : grade'[x] = grade[x]
      BY <1>1, <2>2, CommittedGrades, LedgerAssumption DEF Refs
    <3> QED BY <3>1, <3>2
  <2>3. CASE PollCommit
    <3>1. \A m \in Maps : grade'[m] = grade[m]
      BY <1>1, <2>3, PolledGrades
    <3>2. ASSUME NEW x \in Markets, grade'[x] # grade[x]
          PROVE  grade'[x] = CASE market[x] = "yes" -> "materialized"
                               [] market[x] = "no" -> "failed"
                               [] OTHER -> Ungraded
      <4>1. /\ market[x] \in {"yes", "no"}
            /\ grade'[x] = IF market[x] = "yes" THEN "materialized" ELSE "failed"
        BY <1>1, <2>3, <3>2, PolledGrades DEF Refs
      <4> QED BY <4>1
    <3> QED BY <3>1, <3>2
  <2> QED BY <1>1, <2>1, <2>2, <2>3, OnlyCommitsGrade
<1>2. GradeIsEarned <=> [][Earned]_vars
  BY PTL DEF GradeIsEarned
<1> QED BY <1>1, <1>2, LedgerInvariant, PTL DEF LedgerSpec

\* The table implements the book: entered once, never altered, graded once.
THEOREM LedgerImplementsBook == LedgerSpec => BookSpec
<1>1. ASSUME LedgerInit PROVE Book!BookInit
  BY <1>1 DEF LedgerInit, Book!BookInit
<1>2. ASSUME LedgerInv, [LedgerNext]_vars PROVE [Book!BookNext]_(Book!bookVars)
  <2>1. CASE UNCHANGED <<ledger, grade>>
    BY <2>1 DEF Book!bookVars
  <2>2. ASSUME NEW p \in Publishers, Insert(p) PROVE [Book!BookNext]_(Book!bookVars)
    <3>1. PICK row : row = Head(pub[p].left)
      OBVIOUS
    <3>2. UNCHANGED grade
      BY <2>2 DEF Insert, notPublishing
    <3>3. CASE row.ref \in Published
      <4>1. ledger' = ledger
        BY <2>2, <3>1, <3>3 DEF Insert
      <4> QED BY <3>2, <4>1 DEF Book!bookVars
    <3>4. CASE row.ref \notin Published
      <4>1. ledger' = ledger \cup {row}
        BY <2>2, <3>1, <3>4 DEF Insert
      <4>2. Book!Enter(row)
        BY <3>2, <3>4, <4>1 DEF Book!Enter, Published
      <4> QED BY <4>1, <4>2 DEF Book!BookNext
    <3> QED BY <3>3, <3>4
  <2>3. ASSUME NEW S \in SUBSET Refs, ledger' = ledger,
               \A r \in Refs \ S : grade'[r] = grade[r],
               \A r \in S : grade[r] = Ungraded /\ r \in Published /\ grade'[r] \in Verdicts,
               grade' \in [Refs -> Verdicts \cup {Ungraded}]
        PROVE  Book!BookNext
    <3> DEFINE news == [r \in S |-> grade'[r]]
    <3>1. news \in [S -> Verdicts] /\ DOMAIN news = S
      BY <2>3
    <3>2. grade' = [r \in Refs |-> IF r \in S THEN news[r] ELSE grade[r]]
      BY <2>3
    <3>3. Book!GradeSome(news)
      BY <2>3, <3>1, <3>2 DEF Book!GradeSome, Published
    <3> HIDE DEF news
    <3> QED BY <3>1, <3>3 DEF Book!BookNext
  <2>4. ASSUME NEW g \in Graders, GradeCommit(g) PROVE Book!BookNext
    <3>1. ledger' = ledger
      BY <2>4 DEF GradeCommit, notGrading
    <3>2. \A r \in Wrote(g) : grade[r] = Ungraded /\ r \in Published /\ grade'[r] \in Verdicts
      BY <1>2, <2>4, CommittedGrades DEF LedgerInv, Grading
    <3>3. Wrote(g) \in SUBSET Refs
      BY <1>2, <2>4, CommittedGrades DEF Refs
    <3> QED BY <1>2, <2>3, <2>4, <3>1, <3>2, <3>3, CommittedGrades
  <2>5. CASE PollCommit
    <3> DEFINE S == {r \in Refs : grade'[r] # grade[r]}
    <3>1. ledger' = ledger
      BY <2>5 DEF PollCommit, notGrading
    <3>2. \A r \in S : grade[r] = Ungraded /\ r \in Published /\ grade'[r] \in Verdicts
      BY <1>2, <2>5, PolledGrades
    <3>3. S \in SUBSET Refs /\ \A r \in Refs \ S : grade'[r] = grade[r]
      OBVIOUS
    <3>4. grade' \in [Refs -> Verdicts \cup {Ungraded}]
      BY <1>2, <2>5, PolledGrades
    <3> HIDE DEF S
    <3> QED BY <2>3, <3>1, <3>2, <3>3, <3>4
  <2> QED BY <1>2, <2>1, <2>2, <2>4, <2>5, OnlyCommitsGrade
<1> QED BY <1>1, <1>2, LedgerInvariant, PTL DEF LedgerSpec, BookSpec, Book!BookSpec
=============================================================================
