----------------------------- MODULE GraphProofs -----------------------------
(***************************************************************************)
(* Proofs about EventGraph: what is stored of a link always leads from the *)
(* earlier event to the later one; and between overlaps no pair is linked  *)
(* twice and no connected pair is missing but what a dead rebuild deleted. *)
(* The committed rows are only as good as the rows of the transactions     *)
(* under way, so both invariants cover these.                              *)
(***************************************************************************)
EXTENDS EventGraph, FiniteSetTheorems, SequenceTheorems, TLAPS

\* The rows whose direction is that of time.
Timely == {r \in EdgeRows : r.direction = CausalDirection(r.a, r.b)}

GraphInv ==
    /\ GraphTypeOK
    /\ edges \subseteq Timely
    /\ \A w \in Runners : worker[w].new \subseteq Timely /\ worker[w].rewritten \subseteq Timely
    /\ rebuild.new \subseteq Timely

LEMMA DirectionType ==
    ASSUME NEW e \in Stories, NEW f \in Stories
    PROVE  CausalDirection(e, f) \in {"none", "a_to_b", "b_to_a"}
  BY DEF CausalDirection

\* graph_connector.py: the direction computed from the other end, turned round.
LEMMA OrientFollowsTime ==
    ASSUME NEW r \in EdgeRows, NEW e \in {r.a, r.b}
    PROVE  LET other == IF r.a = e THEN r.b ELSE r.a
           IN  Orient(CausalDirection(e, other), r.a = e) = CausalDirection(r.a, r.b)
<1>1. r.a \in Stories /\ r.b \in Stories /\ FirstSeen[r.a] \in Nat /\ FirstSeen[r.b] \in Nat
  BY EventGraphAssumption DEF EdgeRows
<1>2. CASE r.a = e
  BY <1>2 DEF Orient
<1>3. CASE r.a # e /\ r.b = e
  BY <1>1, <1>3 DEF Orient, CausalDirection
<1> QED BY <1>2, <1>3

LEMMA RewrittenIsTheSame ==
    ASSUME NEW r \in Timely, NEW e \in {r.a, r.b}
    PROVE  LET other == IF r.a = e THEN r.b ELSE r.a
           IN  [r EXCEPT !.direction = Orient(CausalDirection(e, other), r.a = e)] = r
<1> DEFINE other == IF r.a = e THEN r.b ELSE r.a
<1>1. r \in EdgeRows /\ CausalDirection(r.a, r.b) = r.direction
  BY DEF Timely
<1>2. [r EXCEPT !.direction = Orient(CausalDirection(e, other), r.a = e)]
        = [r EXCEPT !.direction = CausalDirection(r.a, r.b)]
  BY <1>1, OrientFollowsTime
<1> QED BY <1>1, <1>2 DEF EdgeRows

LEMMA NewIsTimely ==
    ASSUME NEW e \in Stories, NEW f \in Stories, NEW w \in Runners \cup {Nobody}
    PROVE  [a |-> e, b |-> f, direction |-> CausalDirection(e, f), by |-> w] \in Timely
  BY DirectionType DEF Timely, EdgeRows

LEMMA SeenIsTimely ==
    ASSUME GraphInv, NEW w \in Runners
    PROVE  Seen(w) \subseteq Timely
  BY DEF Seen, GraphInv

LEMMA GraphInvInit == ASSUME GraphInit PROVE GraphInv
<1>1. <<>> \in Seq(Stories)
  OBVIOUS
<1>2. Resting \in RunStates
  BY DEF Resting, RunStates
<1>3. NoRebuild \in RebuildStates
  BY <1>1 DEF NoRebuild, RebuildStates
<1>4. Resting.new = {} /\ Resting.rewritten = {} /\ NoRebuild.new = {}
  BY DEF Resting, NoRebuild
<1>5. GraphTypeOK
  BY <1>2, <1>3 DEF GraphInit, GraphTypeOK, RunStates, RebuildStates
<1> QED BY <1>4, <1>5 DEF GraphInit, GraphInv

LEMMA ConnectKeeps ==
    ASSUME GraphInv, NEW w \in Runners, NEW e \in Stories, ConnectStory(w, e)
    PROVE  GraphInv'
<1> DEFINE related == {f \in mappedStories \ {e} : Related(e, f)}
           of(f) == {r \in Seen(w) : Joins(r, e, f)}
           twice == {f \in related : Cardinality(of(f)) > 1}
           other(r) == IF r.a = e THEN r.b ELSE r.a
           turned(r) == [r EXCEPT !.direction = Orient(CausalDirection(e, other(r)), r.a = e)]
           old(done) == UNION {of(f) : f \in done}
           again(done) == {turned(r) : r \in old(done)}
           new(done) == {[a |-> e, b |-> f, direction |-> CausalDirection(e, f), by |-> w] :
                            f \in {g \in done : of(g) = {}}}
           mine(r) == \E q \in worker[w].new : <<q.a, q.b>> = <<r.a, r.b>> /\ r.by = w
<1>1. PICK done \in IF twice = {} THEN {related} ELSE SUBSET (related \ twice) :
        worker' = [worker EXCEPT ![w] =
          [pc |-> "connecting", todo |-> @.todo \ {e},
           new |-> (@.new \ old(done)) \cup {r \in again(done) : mine(r)} \cup new(done),
           rewritten |-> (@.rewritten \ old(done)) \cup {r \in again(done) : ~mine(r)},
           flags |-> @.flags \cup IF twice = {} THEN FlagConnected(e, done) ELSE {}]]
  BY DEF ConnectStory
<1>2. done \subseteq Stories
  BY DEF GraphInv, GraphTypeOK, RunStates, RebuildStates
<1>3. ASSUME NEW r \in old(done) PROVE turned(r) \in Timely
  BY <1>3, SeenIsTimely, RewrittenIsTheSame DEF Joins
<1>4. again(done) \subseteq Timely
  BY <1>3
<1>5. new(done) \subseteq Timely
  BY <1>2, NewIsTimely
<1>6. Timely \subseteq EdgeRows
  BY DEF Timely
<1> DEFINE todo2 == worker[w].todo \ {e}
           new2 == (worker[w].new \ old(done)) \cup {r \in again(done) : mine(r)} \cup new(done)
           rewritten2 == (worker[w].rewritten \ old(done)) \cup {r \in again(done) : ~mine(r)}
           flags2 == worker[w].flags \cup IF twice = {} THEN FlagConnected(e, done) ELSE {}
<1>7. worker[w].todo \subseteq Stories /\ worker[w].flags \subseteq Stories
      /\ worker[w].pc \in {"idle", "embedded", "connecting"}
  BY DEF GraphInv, GraphTypeOK, RunStates, RebuildStates
<1>8. todo2 \subseteq Stories /\ flags2 \subseteq Stories
  BY <1>7 DEF FlagConnected
<1>9. new2 \subseteq Timely /\ rewritten2 \subseteq Timely
  BY <1>4, <1>5 DEF GraphInv
<1> HIDE DEF todo2, new2, rewritten2, flags2
<1>10. worker' = [worker EXCEPT ![w] = [pc |-> "connecting", todo |-> todo2, new |-> new2,
                                        rewritten |-> rewritten2, flags |-> flags2]]
  BY <1>1, Zenon DEF todo2, new2, rewritten2, flags2
<1>11. worker' \in [Runners -> RunStates]
  BY <1>6, <1>7, <1>8, <1>9, <1>10 DEF GraphInv, GraphTypeOK, RunStates, RebuildStates
<1>12. \A v \in Runners : worker'[v].new \subseteq Timely /\ worker'[v].rewritten \subseteq Timely
  BY <1>9, <1>10 DEF GraphInv, GraphTypeOK, RunStates, RebuildStates
<1>13. UNCHANGED <<mappedStories, vector, linked, edges, rebuild, disturbed, bereft, rebuilds, graphFaults>>
  BY DEF ConnectStory
<1> QED BY <1>11, <1>12, <1>13 DEF GraphInv, GraphTypeOK, RunStates, RebuildStates

LEMMA RebuildSourceKeeps ==
    ASSUME GraphInv, RebuildSource
    PROVE  GraphInv'
<1> DEFINE i == rebuild.at
           a == rebuild.corpus[i]
           after == {k \in i + 1..Len(rebuild.corpus) : Related(a, rebuild.corpus[k])}
           new == {[a |-> a, b |-> rebuild.corpus[j],
                    direction |-> CausalDirection(a, rebuild.corpus[j]), by |-> Nobody] : j \in after}
<1>1. i \in Nat \ {0} /\ rebuild.corpus \in Seq(Stories) /\ i <= Len(rebuild.corpus)
  <2>1. rebuild.pc = "linking" /\ i <= Len(rebuild.corpus)
    BY DEF RebuildSource
  <2> QED BY <2>1 DEF GraphInv, GraphTypeOK, RebuildStates
<1>2. a \in Stories /\ \A j \in after : rebuild.corpus[j] \in Stories
  BY <1>1
<1>3. new \subseteq Timely
  BY <1>2, NewIsTimely
<1>4. Timely \subseteq EdgeRows
  BY DEF Timely
<1>5. edges' \subseteq Timely /\ linked' \subseteq Stories
  BY <1>2, <1>3 DEF RebuildSource, GraphInv, GraphTypeOK, RunStates, RebuildStates
<1>6. /\ rebuild' \in RebuildStates
      /\ rebuild'.new \subseteq Timely
  <2>1. PICK flush \in BOOLEAN :
          rebuild' = [pc |-> "linking", corpus |-> rebuild.corpus, at |-> i + 1,
                      new |-> IF flush THEN {} ELSE rebuild.new \cup new,
                      flags |-> IF flush THEN {} ELSE rebuild.flags \cup {a}]
    BY DEF RebuildSource
  <2>2. rebuild.new \subseteq Timely /\ rebuild.flags \subseteq Stories
    BY DEF GraphInv, GraphTypeOK, RebuildStates
  <2>3. rebuild'.new \subseteq Timely /\ rebuild'.flags \subseteq Stories
    BY <1>2, <1>3, <2>1, <2>2
  <2>4. /\ rebuild' = [pc |-> rebuild'.pc, corpus |-> rebuild'.corpus, at |-> rebuild'.at,
                       new |-> rebuild'.new, flags |-> rebuild'.flags]
        /\ rebuild'.pc = "linking" /\ rebuild'.corpus = rebuild.corpus /\ rebuild'.at = i + 1
    BY <2>1
  <2> QED BY <1>1, <1>4, <2>3, <2>4 DEF RebuildStates
<1>7. UNCHANGED <<mappedStories, vector, worker, disturbed, bereft, rebuilds, graphFaults>>
  BY DEF RebuildSource
<1> QED BY <1>4, <1>5, <1>6, <1>7 DEF GraphInv, GraphTypeOK, RunStates, RebuildStates

LEMMA GraphInvNext ==
    ASSUME GraphInv, [GraphNext]_graphVars
    PROVE  GraphInv'
<1> Timely \subseteq EdgeRows
  BY DEF Timely
<1>1. ASSUME NEW e \in Stories, StoryMapped(e) PROVE GraphInv'
  BY <1>1 DEF StoryMapped, GraphInv, GraphTypeOK, RunStates, RebuildStates
<1>2. ASSUME NEW w \in Runners, Backfill(w) PROVE GraphInv'
  <2>1. worker' = [worker EXCEPT ![w].pc = "embedded"] /\ UNCHANGED <<mappedStories, linked, edges, rebuild, bereft, rebuilds>>
    BY <1>2 DEF Backfill
  <2>2. vector' \in [Stories -> {"none", "good", "zero"}] /\ graphFaults' \in Nat
    BY <1>2 DEF Backfill, GraphInv, GraphTypeOK, RunStates, RebuildStates
  <2>3. disturbed' \in BOOLEAN
    BY <1>2 DEF Backfill
  <2>4. worker' \in [Runners -> RunStates]
    BY <2>1 DEF GraphInv, GraphTypeOK, RunStates
  <2>5. \A v \in Runners : worker'[v].new = worker[v].new /\ worker'[v].rewritten = worker[v].rewritten
    BY <2>1 DEF GraphInv, GraphTypeOK, RunStates
  <2> QED BY <2>1, <2>2, <2>3, <2>4, <2>5 DEF GraphInv, GraphTypeOK, RunStates, RebuildStates
<1>3. ASSUME NEW w \in Runners, SelectStories(w) PROVE GraphInv'
  <2>1. PICK T \in SUBSET Stories : worker' = [worker EXCEPT ![w] = [@ EXCEPT !.pc = "connecting", !.todo = T]]
    BY <1>3 DEF SelectStories, Atmost, ToConnect, GraphInv, GraphTypeOK, RunStates, RebuildStates
  <2>2. UNCHANGED <<mappedStories, vector, linked, edges, rebuild, disturbed, bereft, rebuilds, graphFaults>>
    BY <1>3 DEF SelectStories
  <2>3. worker' \in [Runners -> RunStates]
    BY <2>1, ZenonT(60) DEF GraphInv, GraphTypeOK, RunStates
  <2>4. \A v \in Runners : worker'[v].new = worker[v].new /\ worker'[v].rewritten = worker[v].rewritten
    BY <2>1 DEF GraphInv, GraphTypeOK, RunStates
  <2> QED BY <2>2, <2>3, <2>4 DEF GraphInv, GraphTypeOK, RunStates, RebuildStates
<1>4. ASSUME NEW w \in Runners, NEW e \in Stories, ConnectStory(w, e) PROVE GraphInv'
  BY <1>4, ConnectKeeps
<1>5. ASSUME NEW w \in Runners, CommitConnections(w) PROVE GraphInv'
  <2>1. edges' \subseteq Timely
    BY <1>5, SeenIsTimely DEF CommitConnections
  <2> QED BY <1>5, <2>1 DEF CommitConnections, GraphInv, GraphTypeOK, Resting, RunStates, RebuildStates
<1>6. ASSUME NEW w \in Runners, RunDies(w) PROVE GraphInv'
  BY <1>6 DEF RunDies, GraphInv, GraphTypeOK, Resting, RunStates, RebuildStates
<1>7. CASE RebuildEmbed
  <2>1. rebuild' = [rebuild EXCEPT !.pc = "embedded"] /\ UNCHANGED <<mappedStories, linked, edges, worker, bereft, graphFaults>>
    BY <1>7 DEF RebuildEmbed
  <2>2. vector' \in [Stories -> {"none", "good", "zero"}] /\ rebuilds' \in Nat
    BY <1>7 DEF RebuildEmbed, GraphInv, GraphTypeOK, RunStates, RebuildStates
  <2>3. disturbed' \in BOOLEAN
    BY <1>7 DEF RebuildEmbed
  <2> QED BY <2>1, <2>2, <2>3 DEF GraphInv, GraphTypeOK, RunStates, RebuildStates
<1>8. CASE RebuildRead
  <2>1. PICK order \in SetToSeqs(mappedStories) : rebuild' = [rebuild EXCEPT !.pc = "read", !.corpus = order]
    BY <1>8 DEF RebuildRead
  <2>2. Cardinality(mappedStories) \in Nat
    BY EventGraphAssumption, FS_Subset, FS_CardinalityType DEF GraphInv, GraphTypeOK, RunStates, RebuildStates
  <2>3. order \in Seq(Stories)
    <3>1. order \in [1..Cardinality(mappedStories) -> Stories]
      BY DEF SetToSeqs, GraphInv, GraphTypeOK, RunStates, RebuildStates
    <3> QED BY <2>2, <3>1, SeqDef
  <2>4. UNCHANGED <<mappedStories, vector, linked, edges, worker, disturbed, bereft, rebuilds, graphFaults>>
    BY <1>8 DEF RebuildRead
  <2> QED BY <2>1, <2>3, <2>4 DEF GraphInv, GraphTypeOK, RunStates, RebuildStates
<1>9. CASE RebuildDelete
  BY <1>9 DEF RebuildDelete, GraphInv, GraphTypeOK, RunStates, RebuildStates
<1>10. CASE RebuildSource
  BY <1>10, RebuildSourceKeeps
<1>11. CASE RebuildEnd
  <2>1. <<>> \in Seq(Stories)
    OBVIOUS
  <2> QED BY <1>11, <2>1 DEF RebuildEnd, GraphInv, GraphTypeOK, NoRebuild, RunStates, RebuildStates
<1>12. CASE RebuildDies
  <2>1. <<>> \in Seq(Stories)
    OBVIOUS
  <2> QED BY <1>12, <2>1 DEF RebuildDies, GraphInv, GraphTypeOK, NoRebuild, RunStates, RebuildStates
<1>13. CASE UNCHANGED graphVars
  BY <1>13 DEF graphVars, GraphInv, GraphTypeOK, RunStates, RebuildStates
<1> QED BY <1>1, <1>2, <1>3, <1>4, <1>5, <1>6, <1>7, <1>8, <1>9, <1>10, <1>11, <1>12, <1>13
        DEF GraphNext, RunStep, RebuildStep

\* workers/graph_worker.py, scripts/recompute_connections.py: types.
THEOREM GraphTypeCorrect == GraphSpec => []GraphTypeOK
<1>1. GraphInv => GraphTypeOK
  BY DEF GraphInv
<1> QED BY <1>1, GraphInvInit, GraphInvNext, PTL DEF GraphSpec

\* graph_connector.py:106-150: whichever end a pair was connected from, whoever
\* rewrote it and however runs and rebuilds overlap or die, its stored direction
\* leads from the earlier event to the later one.
THEOREM LinksFollowTime == GraphSpec => []DirectionFollowsTime
<1>1. GraphInv => DirectionFollowsTime
  BY DEF GraphInv, DirectionFollowsTime, Timely
<1> QED BY <1>1, GraphInvInit, GraphInvNext, PTL DEF GraphSpec
-----------------------------------------------------------------------------
(* Runs that do not overlap.                                               *)

\* What the transaction of w and the committed rows hold together.
Held(w) == edges \cup worker[w].new \cup worker[w].rewritten

OnePer(rows) == \A q, r \in rows : {q.a, q.b} = {r.a, r.b} => q = r

Bound(e, f) == {e, f} \in Kin \cap TagKin /\ "zero" \notin {vector[e], vector[f]}

\* A pair whose link is not among those a dead rebuild lost.
Owed(e, f) == Bound(e, f) /\ ~({e, f} \subseteq bereft)

Joined(e, f, rows) == \E r \in rows : {r.a, r.b} = {e, f}

Covered(events, rows) == \A e, f \in events : Owed(e, f) => Joined(e, f, rows)

Corpus == {rebuild.corpus[i] : i \in DOMAIN rebuild.corpus}

\* Every row of a rebuild leads from a source event done to one after it.
FromDone(r) == \E i, j \in DOMAIN rebuild.corpus :
    i < rebuild.at /\ i < j /\ r.a = rebuild.corpus[i] /\ r.b = rebuild.corpus[j]

Alone ==
    /\ \A v, w \in Runners : worker[v].pc # "idle" /\ worker[w].pc # "idle" => v = w
    /\ rebuild.pc # "idle" => \A w \in Runners : worker[w].pc = "idle"

\* Holds whether or not runs overlap.
RunShape ==
    /\ linked \subseteq mappedStories
    /\ \A w \in Runners :
         /\ worker[w].flags \cup worker[w].todo \subseteq mappedStories
         /\ worker[w].pc # "connecting" =>
              worker[w].new = {} /\ worker[w].rewritten = {} /\ worker[w].flags = {}
    /\ rebuild.pc # "linking" => rebuild.new = {} /\ rebuild.flags = {} /\ rebuild.at = 1
    /\ Corpus \subseteq mappedStories
    /\ rebuild.flags \subseteq Corpus
    /\ \A i, j \in DOMAIN rebuild.corpus : rebuild.corpus[i] = rebuild.corpus[j] => i = j

StoreWhole == OnePer(edges) /\ (rebuild.pc # "linking" => Covered(linked, edges))

WorkerWhole(w) ==
    /\ OnePer(Held(w))
    /\ rebuild.pc # "linking" => Covered(linked \cup worker[w].flags, Held(w))

RunsWhole == StoreWhole /\ \A w \in Runners : WorkerWhole(w)

RebuildWhole ==
    /\ rebuild.pc \in {"read", "linking"} => linked \subseteq Corpus
    /\ rebuild.pc = "linking" =>
         /\ OnePer(edges \cup rebuild.new)
         /\ \A r \in edges \cup rebuild.new : FromDone(r)
         /\ \A i, j \in DOMAIN rebuild.corpus :
              i < rebuild.at /\ i < j /\ Bound(rebuild.corpus[i], rebuild.corpus[j])
              => Joined(rebuild.corpus[i], rebuild.corpus[j], edges \cup rebuild.new)

WholeInv == GraphInv /\ RunShape /\ (~disturbed => Alone /\ RunsWhole /\ RebuildWhole)

Quiet == Alone /\ RunsWhole /\ RebuildWhole

\* A zero vector stays one, and a good one stays good.
LEMMA BoundFades ==
    ASSUME GraphTypeOK, [GraphNext]_graphVars, NEW e \in Stories, NEW f \in Stories, Bound(e, f)'
    PROVE  Bound(e, f)
<1> DEFINE Keeps == \A g \in Stories : vector[g] = "zero" => vector'[g] = "zero"
<1>1. ASSUME UNCHANGED vector PROVE Keeps
  BY <1>1
<1>2. ASSUME NEW w \in Runners, Backfill(w) PROVE Keeps
  <2>1. PICK T, outcome : /\ T \in Atmost(VectorLimit, {g \in mappedStories : vector[g] = "none"})
                          /\ vector' = [g \in Stories |-> IF g \in T THEN outcome ELSE vector[g]]
    BY <1>2 DEF Backfill
  <2>2. \A g \in T : vector[g] = "none"
    BY <2>1 DEF Atmost
  <2> QED BY <2>1, <2>2
<1>3. ASSUME RebuildEmbed PROVE Keeps
  <2>1. PICK outcome : vector' = [g \in Stories |-> IF g \in mappedStories /\ vector[g] = "none"
                                                    THEN outcome ELSE vector[g]]
    BY <1>3 DEF RebuildEmbed
  <2> QED BY <2>1
<1>4. Keeps
  <2>1. UNCHANGED vector \/ (\E w \in Runners : Backfill(w)) \/ RebuildEmbed
    BY DEF GraphNext, graphVars, RunStep, RebuildStep, StoryMapped, SelectStories, ConnectStory,
           CommitConnections, RunDies, RebuildRead, RebuildDelete, RebuildSource, RebuildEnd, RebuildDies
  <2> QED BY <1>1, <1>2, <1>3, <2>1
<1> QED BY <1>4 DEF Bound

\* What a step leaves alone stays whole.
LEMMA StoreStaysWhole ==
    ASSUME StoreWhole, UNCHANGED <<vector, edges, linked, bereft>>,
           rebuild'.pc # "linking" => rebuild.pc # "linking"
    PROVE  StoreWhole'
  BY DEF StoreWhole, OnePer, Covered, Joined, Owed, Bound

LEMMA WorkerStaysWhole ==
    ASSUME NEW v \in Runners, WorkerWhole(v), UNCHANGED <<vector, edges, linked, bereft>>,
           rebuild'.pc # "linking" => rebuild.pc # "linking",
           worker'[v].new = worker[v].new, worker'[v].rewritten = worker[v].rewritten,
           worker'[v].flags = worker[v].flags
    PROVE  WorkerWhole(v)'
<1>1. Held(v)' = Held(v)
  BY DEF Held
<1>2. OnePer(Held(v))'
  BY <1>1 DEF WorkerWhole, OnePer
<1>3. ASSUME rebuild'.pc # "linking" PROVE Covered(linked \cup worker[v].flags, Held(v))'
  BY <1>1, <1>3 DEF WorkerWhole, Covered, Joined, Owed, Bound
<1> QED BY <1>2, <1>3 DEF WorkerWhole

LEMMA RebuildStaysWhole ==
    ASSUME RebuildWhole, UNCHANGED <<vector, edges, linked, rebuild>>
    PROVE  RebuildWhole'
<1>1. Corpus' = Corpus
  BY DEF Corpus
<1>3. \A r \in edges \cup rebuild.new : FromDone(r) => FromDone(r)'
  BY DEF FromDone
<1>4. rebuild'.pc = "linking" => \A r \in (edges \cup rebuild.new)' : FromDone(r)'
  BY <1>3 DEF RebuildWhole
<1>5. rebuild'.pc = "linking" => OnePer(edges \cup rebuild.new)'
  BY DEF RebuildWhole, OnePer
<1>6. rebuild'.pc = "linking" =>
        (\A i, j \in DOMAIN rebuild.corpus :
           i < rebuild.at /\ i < j /\ Bound(rebuild.corpus[i], rebuild.corpus[j])
           => Joined(rebuild.corpus[i], rebuild.corpus[j], edges \cup rebuild.new))'
  BY DEF RebuildWhole, Bound, Joined
<1> QED BY <1>1, <1>4, <1>5, <1>6 DEF RebuildWhole

LEMMA WholeInit == ASSUME GraphInit PROVE WholeInv
<1>1. GraphInv
  BY GraphInvInit
<1>2. /\ Resting.pc = "idle" /\ Resting.new = {} /\ Resting.rewritten = {}
      /\ Resting.flags = {} /\ Resting.todo = {}
  BY DEF Resting
<1>3. /\ NoRebuild.pc = "idle" /\ NoRebuild.new = {} /\ NoRebuild.flags = {}
      /\ NoRebuild.at = 1 /\ DOMAIN NoRebuild.corpus = {}
  BY DEF NoRebuild
<1>4. \A w \in Runners : Held(w) = {}
  BY <1>2 DEF GraphInit, Held
<1>5. RunShape
  BY <1>2, <1>3 DEF GraphInit, RunShape, Corpus
<1>6. Quiet
  BY <1>2, <1>3, <1>4 DEF GraphInit, Quiet, Alone, RunsWhole, RebuildWhole, StoreWhole, WorkerWhole, OnePer, Covered
<1> QED BY <1>1, <1>5, <1>6 DEF WholeInv, Quiet

LEMMA StoryMappedWhole ==
    ASSUME WholeInv, NEW e \in Stories, StoryMapped(e)
    PROVE  RunShape' /\ (~disturbed' => Quiet')
<1>1. UNCHANGED <<vector, linked, edges, worker, rebuild, disturbed, bereft>> /\ mappedStories \subseteq mappedStories'
  BY DEF StoryMapped
<1>2. RunShape'
  BY <1>1 DEF WholeInv, RunShape, Corpus
<1>3. ASSUME ~disturbed' PROVE Quiet'
  <2>1. Alone /\ RunsWhole /\ RebuildWhole
    BY <1>1, <1>3 DEF WholeInv
  <2>2. Alone'
    BY <1>1, <2>1 DEF Alone
  <2>3. RunsWhole'
    BY <1>1, <2>1, StoreStaysWhole, WorkerStaysWhole DEF RunsWhole
  <2>4. RebuildWhole'
    BY <1>1, <2>1, RebuildStaysWhole
  <2> QED BY <2>2, <2>3, <2>4 DEF Quiet
<1> QED BY <1>2, <1>3

\* A run that starts while nothing is under way finds everyone idle.
LEMMA StartsAlone ==
    ASSUME WholeInv, ~disturbed, ~Busy
    PROVE  /\ \A w \in Runners : worker[w].pc = "idle" /\ Held(w) = edges /\ worker[w].flags = {}
           /\ rebuild.pc = "idle" /\ OnePer(edges) /\ Covered(linked, edges)
<1>1. \A w \in Runners : worker[w].pc = "idle"
  BY DEF Busy
<1>2. rebuild.pc = "idle"
  BY DEF Busy
<1>3. \A w \in Runners : worker[w].new = {} /\ worker[w].rewritten = {} /\ worker[w].flags = {}
  BY <1>1 DEF WholeInv, RunShape
<1>4. OnePer(edges) /\ Covered(linked, edges)
  BY <1>2 DEF WholeInv, RunsWhole, StoreWhole
<1> QED BY <1>1, <1>2, <1>3, <1>4 DEF Held

LEMMA BackfillWhole ==
    ASSUME WholeInv, NEW w \in Runners, Backfill(w), [GraphNext]_graphVars
    PROVE  RunShape' /\ (~disturbed' => Quiet')
<1>1. /\ worker' = [worker EXCEPT ![w].pc = "embedded"] /\ worker[w].pc = "idle"
      /\ UNCHANGED <<mappedStories, linked, edges, rebuild, bereft>>
      /\ disturbed' = (disturbed \/ Busy)
  BY DEF Backfill
<1>2. worker \in [Runners -> RunStates] /\ GraphTypeOK /\ disturbed \in BOOLEAN
  BY DEF WholeInv, GraphInv, GraphTypeOK
<1>3. \A v \in Runners : /\ worker'[v].new = worker[v].new /\ worker'[v].flags = worker[v].flags
                         /\ worker'[v].rewritten = worker[v].rewritten
                         /\ worker'[v].todo = worker[v].todo
                         /\ worker'[v].pc = IF v = w THEN "embedded" ELSE worker[v].pc
  BY <1>1, <1>2 DEF RunStates
<1>4. RunShape'
  BY <1>1, <1>3 DEF WholeInv, RunShape, Corpus
<1>5. ASSUME ~disturbed' PROVE Quiet'
  <2>1. ~disturbed /\ ~Busy
    BY <1>1, <1>2, <1>5
  <2>2. /\ \A v \in Runners : worker[v].pc = "idle" /\ Held(v) = edges /\ worker[v].flags = {}
        /\ rebuild.pc = "idle" /\ OnePer(edges) /\ Covered(linked, edges)
    BY <2>1, StartsAlone
  <2>3. Covered(linked, edges)' /\ OnePer(edges)'
    <3>1. linked \subseteq Stories
      BY <1>2 DEF GraphTypeOK
    <3> QED BY <1>1, <1>2, <2>2, <3>1, BoundFades DEF Covered, Joined, Owed, OnePer
  <2>4. \A v \in Runners : Held(v)' = edges /\ worker'[v].flags = {}
    BY <1>1, <1>3, <2>2 DEF Held
  <2>5. Alone'
    BY <1>1, <1>3, <2>2 DEF Alone
  <2>6. RunsWhole'
    <3>1. ASSUME NEW v \in Runners PROVE WorkerWhole(v)'
      BY <1>1, <2>3, <2>4 DEF WorkerWhole, Covered, OnePer
    <3> QED BY <2>3, <3>1 DEF RunsWhole, StoreWhole
  <2>7. RebuildWhole'
    BY <1>1, <2>2 DEF RebuildWhole
  <2> QED BY <2>5, <2>6, <2>7 DEF Quiet
<1> QED BY <1>4, <1>5

LEMMA SelectWhole ==
    ASSUME WholeInv, NEW w \in Runners, SelectStories(w)
    PROVE  RunShape' /\ (~disturbed' => Quiet')
<1>1. PICK T \in SUBSET mappedStories :
        worker' = [worker EXCEPT ![w] = [@ EXCEPT !.pc = "connecting", !.todo = T]]
  BY DEF SelectStories, Atmost, ToConnect
<1>2. /\ worker[w].pc = "embedded"
      /\ UNCHANGED <<mappedStories, vector, linked, edges, rebuild, disturbed, bereft>>
  BY DEF SelectStories
<1>3. worker \in [Runners -> RunStates]
  BY DEF WholeInv, GraphInv, GraphTypeOK
<1>4. \A v \in Runners : /\ worker'[v].new = worker[v].new /\ worker'[v].flags = worker[v].flags
                         /\ worker'[v].rewritten = worker[v].rewritten
                         /\ worker'[v].todo = IF v = w THEN T ELSE worker[v].todo
                         /\ worker'[v].pc = IF v = w THEN "connecting" ELSE worker[v].pc
  BY <1>1, <1>3 DEF RunStates
<1>5. RunShape'
  BY <1>1, <1>2, <1>4 DEF WholeInv, RunShape, Corpus
<1>6. ASSUME ~disturbed' PROVE Quiet'
  <2>1. \A v \in Runners : Held(v)' = Held(v)
    BY <1>2, <1>4 DEF Held
  <2>2. Alone'
    BY <1>2, <1>4, <1>6 DEF WholeInv, Alone
  <2>3. RunsWhole'
    BY <1>2, <1>4, <1>6, StoreStaysWhole, WorkerStaysWhole DEF WholeInv, RunsWhole
  <2>4. RebuildWhole'
    BY <1>2, <1>6, RebuildStaysWhole DEF WholeInv
  <2> QED BY <2>2, <2>3, <2>4 DEF Quiet
<1> QED BY <1>5, <1>6

LEMMA RunDiesWhole ==
    ASSUME WholeInv, NEW w \in Runners, RunDies(w)
    PROVE  RunShape' /\ (~disturbed' => Quiet')
<1>1. /\ worker' = [worker EXCEPT ![w] = Resting]
      /\ UNCHANGED <<mappedStories, vector, linked, edges, rebuild, disturbed, bereft>>
  BY DEF RunDies
<1>2. worker \in [Runners -> RunStates]
  BY DEF WholeInv, GraphInv, GraphTypeOK
<1>3. \A v \in Runners : v # w => worker'[v] = worker[v]
  BY <1>1, <1>2
<1>4. /\ worker'[w].pc = "idle" /\ worker'[w].new = {} /\ worker'[w].rewritten = {}
      /\ worker'[w].flags = {} /\ worker'[w].todo = {}
  BY <1>1, <1>2 DEF Resting
<1>5. RunShape'
  BY <1>1, <1>3, <1>4 DEF WholeInv, RunShape, Corpus
<1>6. ASSUME ~disturbed' PROVE Quiet'
  <2>1. \A v \in Runners : v # w => Held(v)' = Held(v)
    BY <1>1, <1>3 DEF Held
  <2>2. Held(w)' = edges
    BY <1>1, <1>4 DEF Held
  <2>3. Alone'
    BY <1>1, <1>3, <1>4, <1>6 DEF WholeInv, Alone
  <2>4. RunsWhole'
    <3>1. StoreWhole'
      BY <1>1, <1>6, StoreStaysWhole DEF WholeInv, RunsWhole
    <3>2. ASSUME NEW v \in Runners PROVE WorkerWhole(v)'
      <4>1. CASE v = w
        BY <1>1, <1>4, <2>2, <3>1, <4>1 DEF StoreWhole, WorkerWhole, OnePer, Covered, Joined, Owed, Bound
      <4>2. CASE v # w
        BY <1>1, <1>3, <1>6, <4>2, WorkerStaysWhole DEF WholeInv, RunsWhole
      <4> QED BY <4>1, <4>2
    <3> QED BY <3>1, <3>2 DEF RunsWhole
  <2>5. RebuildWhole'
    BY <1>1, <1>6, RebuildStaysWhole DEF WholeInv
  <2> QED BY <2>3, <2>4, <2>5 DEF Quiet
<1> QED BY <1>5, <1>6

\* A pair that both its tags and its embeddings link is related at every moment.
LEMMA BoundIsRelated ==
    ASSUME NEW e \in Stories, NEW f \in Stories, Bound(e, f)
    PROVE  Related(e, f) /\ e # f
<1>1. e # f
  <2>1. Cardinality({e, f}) = 2
    BY EventGraphAssumption DEF Bound
  <2>2. e = f => {e, f} = {e}
    OBVIOUS
  <2> QED BY <2>1, <2>2, FS_Singleton
<1> QED BY <1>1 DEF Bound, Related, Cosine

\* Where no pair has two rows, a run's queries return all that is held, and at
\* most one row for a pair.
LEMMA SeenIsHeld ==
    ASSUME NEW w \in Runners, OnePer(Held(w))
    PROVE  /\ Seen(w) = Held(w)
           /\ \A e, f : ~(Cardinality({r \in Seen(w) : Joins(r, e, f)}) > 1)
<1>1. Seen(w) = Held(w)
  BY DEF Seen, Held, OnePer
<1>2. ASSUME NEW e, NEW f PROVE ~(Cardinality({r \in Seen(w) : Joins(r, e, f)}) > 1)
  <2> DEFINE of == {r \in Seen(w) : Joins(r, e, f)}
  <2>1. CASE of = {}
    BY <2>1, FS_EmptySet
  <2>2. CASE of # {}
    <3>1. PICK r : of = {r}
      BY <1>1, <2>2 DEF OnePer, Joins
    <3>2. Cardinality(of) = 1
      BY <3>1, FS_Singleton, Zenon
    <3> QED BY <3>2
  <2> QED BY <2>1, <2>2
<1> QED BY <1>1, <1>2

LEMMA ConnectWhole ==
    ASSUME WholeInv, NEW w \in Runners, NEW e \in Stories, ConnectStory(w, e)
    PROVE  RunShape' /\ (~disturbed' => Quiet')
<1> DEFINE related == {f \in mappedStories \ {e} : Related(e, f)}
           of(f) == {r \in Seen(w) : Joins(r, e, f)}
           twice == {f \in related : Cardinality(of(f)) > 1}
           other(r) == IF r.a = e THEN r.b ELSE r.a
           turned(r) == [r EXCEPT !.direction = Orient(CausalDirection(e, other(r)), r.a = e)]
           old(done) == UNION {of(f) : f \in done}
           again(done) == {turned(r) : r \in old(done)}
           new(done) == {[a |-> e, b |-> f, direction |-> CausalDirection(e, f), by |-> w] :
                            f \in {g \in done : of(g) = {}}}
           mine(r) == \E q \in worker[w].new : <<q.a, q.b>> = <<r.a, r.b>> /\ r.by = w
<1>1. PICK done \in IF twice = {} THEN {related} ELSE SUBSET (related \ twice) :
        worker' = [worker EXCEPT ![w] =
          [pc |-> "connecting", todo |-> @.todo \ {e},
           new |-> (@.new \ old(done)) \cup {r \in again(done) : mine(r)} \cup new(done),
           rewritten |-> (@.rewritten \ old(done)) \cup {r \in again(done) : ~mine(r)},
           flags |-> @.flags \cup IF twice = {} THEN FlagConnected(e, done) ELSE {}]]
  BY DEF ConnectStory
<1>2. /\ worker[w].pc = "connecting" /\ e \in worker[w].todo
      /\ UNCHANGED <<mappedStories, vector, linked, edges, rebuild, disturbed, bereft>>
  BY DEF ConnectStory
<1>3. /\ worker \in [Runners -> RunStates] /\ mappedStories \subseteq Stories
      /\ linked \subseteq mappedStories /\ worker[w].flags \cup worker[w].todo \subseteq mappedStories
  BY DEF WholeInv, GraphInv, GraphTypeOK, RunShape
<1>4. again(done) = old(done)
  BY SeenIsTimely, RewrittenIsTheSame DEF WholeInv, Joins
<1> DEFINE todo2 == worker[w].todo \ {e}
           new2 == (worker[w].new \ old(done)) \cup {r \in again(done) : mine(r)} \cup new(done)
           rewritten2 == (worker[w].rewritten \ old(done)) \cup {r \in again(done) : ~mine(r)}
           flags2 == worker[w].flags \cup IF twice = {} THEN FlagConnected(e, done) ELSE {}
<1>5. \A v \in Runners : v # w => worker'[v] = worker[v]
  BY <1>1, <1>3
<1>6. /\ worker'[w].pc = "connecting" /\ worker'[w].todo = todo2 /\ worker'[w].flags = flags2
      /\ worker'[w].new = new2 /\ worker'[w].rewritten = rewritten2
  <2> HIDE DEF todo2, new2, rewritten2, flags2
  <2>1. worker' = [worker EXCEPT ![w] = [pc |-> "connecting", todo |-> todo2, new |-> new2,
                                         rewritten |-> rewritten2, flags |-> flags2]]
    BY <1>1, Zenon DEF todo2, new2, rewritten2, flags2
  <2> QED BY <1>3, <2>1
<1>7. flags2 \cup todo2 \subseteq mappedStories
  BY <1>2, <1>3 DEF FlagConnected
<1>8. RunShape'
  <2> HIDE DEF todo2, new2, rewritten2, flags2
  <2> QED BY <1>2, <1>5, <1>6, <1>7 DEF WholeInv, RunShape, Corpus
<1>9. ASSUME ~disturbed' PROVE Quiet'
  <2>1. Alone /\ RunsWhole /\ RebuildWhole
    BY <1>2, <1>9 DEF WholeInv
  <2>2. rebuild.pc = "idle" /\ OnePer(Held(w)) /\ Covered(linked \cup worker[w].flags, Held(w))
    BY <1>2, <2>1 DEF Alone, RunsWhole, WorkerWhole
  <2>3. Seen(w) = Held(w) /\ twice = {}
    BY <2>2, SeenIsHeld
  <2>4. done = related
    BY <1>1, <2>3
  <2>5. Held(w)' = Held(w) \cup new(done)
    <3>1. old(done) \subseteq Held(w)
      BY <2>3
    <3>2. Held(w)' = edges \cup new2 \cup rewritten2
      BY <1>2, <1>6 DEF Held
    <3>3. edges \cup new2 \cup rewritten2 = Held(w) \cup new(done)
      <4> HIDE DEF old, new, mine
      <4> QED BY <1>4, <3>1 DEF Held
    <3> QED BY <3>2, <3>3
  <2>6. ASSUME NEW q \in new(done)
        PROVE  \E f \in done : of(f) = {} /\ q.a = e /\ q.b = f /\ q.direction = CausalDirection(e, f) /\ q.by = w
    BY <2>6
  <2>7. OnePer(Held(w))'
    <3>1. ASSUME NEW q \in Held(w), NEW r \in new(done), {q.a, q.b} = {r.a, r.b} PROVE q = r
      <4>1. PICK f \in done : of(f) = {} /\ r.a = e /\ r.b = f
        BY <2>6
      <4>2. Joins(q, e, f)
        BY <3>1, <4>1 DEF Joins
      <4> QED BY <2>3, <4>1, <4>2
    <3>2. ASSUME NEW q \in new(done), NEW r \in new(done), {q.a, q.b} = {r.a, r.b} PROVE q = r
      <4>1. PICK f \in done : q = [a |-> e, b |-> f, direction |-> CausalDirection(e, f), by |-> w]
        OBVIOUS
      <4>2. PICK g \in done : r = [a |-> e, b |-> g, direction |-> CausalDirection(e, g), by |-> w]
        OBVIOUS
      <4>3. f = g
        BY <3>2, <4>1, <4>2
      <4> QED BY <4>1, <4>2, <4>3
    <3> HIDE DEF new
    <3> QED BY <2>2, <2>5, <3>1, <3>2 DEF OnePer
  <2>8. ASSUME NEW h \in mappedStories, Bound(e, h) PROVE Joined(e, h, Held(w) \cup new(done))
    <3>1. h \in done
      BY <1>3, <2>4, <2>8, BoundIsRelated
    <3>2. CASE of(h) = {}
      <4>1. [a |-> e, b |-> h, direction |-> CausalDirection(e, h), by |-> w] \in new(done)
        BY <3>1, <3>2
      <4> HIDE DEF new
      <4> QED BY <4>1 DEF Joined
    <3>3. CASE of(h) # {}
      BY <2>3, <3>3 DEF Joined, Joins
    <3> QED BY <3>2, <3>3
  <2>9. Covered(linked \cup flags2, Held(w) \cup new(done))
    <3>1. flags2 = worker[w].flags \cup {e}
      BY <2>3 DEF FlagConnected
    <3>2. SUFFICES ASSUME NEW g \in linked \cup flags2, NEW h \in linked \cup flags2, Owed(g, h)
                   PROVE  Joined(g, h, Held(w) \cup new(done))
      BY DEF Covered
    <3>3. g \in mappedStories /\ h \in mappedStories
      BY <1>2, <1>3, <3>1
    <3>4. Bound(g, h) /\ Bound(h, g)
      BY <3>2 DEF Owed, Bound
    <3> HIDE DEF new
    <3>5. CASE g = e
      BY <2>8, <3>3, <3>4, <3>5
    <3>6. CASE h = e
      <4>1. Joined(h, g, Held(w) \cup new(done))
        BY <2>8, <3>3, <3>4, <3>6
      <4> QED BY <4>1 DEF Joined
    <3>7. CASE g # e /\ h # e
      BY <2>2, <3>1, <3>2, <3>7 DEF Covered, Joined
    <3> QED BY <3>5, <3>6, <3>7
  <2> HIDE DEF new, new2, rewritten2, flags2, todo2
  <2>10. WorkerWhole(w)'
    <3>1. Covered(linked \cup worker[w].flags, Held(w))'
      BY <1>2, <1>6, <2>5, <2>9 DEF Covered, Joined, Owed, Bound
    <3> QED BY <2>7, <3>1 DEF WorkerWhole
  <2>11. RunsWhole'
    <3>1. ASSUME NEW v \in Runners, v # w PROVE WorkerWhole(v)'
      BY <1>2, <1>5, <2>1, <3>1, WorkerStaysWhole DEF RunsWhole
    <3>2. StoreWhole'
      BY <1>2, <2>1, StoreStaysWhole DEF RunsWhole
    <3> QED BY <2>10, <3>1, <3>2 DEF RunsWhole
  <2>12. Alone'
    BY <1>2, <1>5, <1>6, <2>1 DEF Alone
  <2> QED BY <1>2, <2>1, <2>11, <2>12, RebuildStaysWhole DEF Quiet
<1> QED BY <1>8, <1>9

LEMMA CommitWhole ==
    ASSUME WholeInv, NEW w \in Runners, CommitConnections(w)
    PROVE  RunShape' /\ (~disturbed' => Quiet')
<1>1. /\ worker[w].pc = "connecting" /\ edges' = Seen(w) /\ linked' = linked \cup worker[w].flags
      /\ worker' = [worker EXCEPT ![w] = Resting]
      /\ UNCHANGED <<mappedStories, vector, rebuild, disturbed, bereft>>
  BY DEF CommitConnections
<1>2. worker \in [Runners -> RunStates]
  BY DEF WholeInv, GraphInv, GraphTypeOK
<1>3. \A v \in Runners : v # w => worker'[v] = worker[v]
  BY <1>1, <1>2
<1>4. /\ worker'[w].pc = "idle" /\ worker'[w].new = {} /\ worker'[w].rewritten = {}
      /\ worker'[w].flags = {} /\ worker'[w].todo = {}
  BY <1>1, <1>2 DEF Resting
<1>5. RunShape'
  BY <1>1, <1>3, <1>4 DEF WholeInv, RunShape, Corpus
<1>6. ASSUME ~disturbed' PROVE Quiet'
  <2>1. Alone /\ WorkerWhole(w) /\ rebuild.pc = "idle"
    BY <1>1, <1>6 DEF WholeInv, Alone, RunsWhole
  <2>2. edges' = Held(w)
    BY <1>1, <2>1, SeenIsHeld DEF WorkerWhole
  <2>3. \A v \in Runners : worker'[v].pc = "idle"
    BY <1>1, <1>3, <1>4, <2>1 DEF Alone
  <2>4. \A v \in Runners : worker'[v].new = {} /\ worker'[v].rewritten = {} /\ worker'[v].flags = {}
    BY <1>5, <2>3 DEF RunShape
  <2>5. OnePer(edges)' /\ Covered(linked, edges)'
    BY <1>1, <2>1, <2>2 DEF WorkerWhole, OnePer, Covered, Joined, Owed, Bound
  <2>6. RunsWhole'
    <3>1. ASSUME NEW v \in Runners PROVE WorkerWhole(v)'
      <4>1. Held(v)' = edges' /\ (linked \cup worker[v].flags)' = linked'
        BY <2>4 DEF Held
      <4> QED BY <2>5, <4>1 DEF WorkerWhole, OnePer, Covered
    <3> QED BY <2>5, <3>1 DEF RunsWhole, StoreWhole
  <2> QED BY <1>1, <2>1, <2>3, <2>6 DEF Quiet, Alone, RebuildWhole
<1> QED BY <1>5, <1>6

LEMMA RebuildEmbedWhole ==
    ASSUME WholeInv, RebuildEmbed, [GraphNext]_graphVars
    PROVE  RunShape' /\ (~disturbed' => Quiet')
<1>1. /\ rebuild' = [rebuild EXCEPT !.pc = "embedded"] /\ rebuild.pc = "idle"
      /\ UNCHANGED <<mappedStories, linked, edges, worker, bereft>>
      /\ disturbed' = (disturbed \/ Busy)
  BY DEF RebuildEmbed
<1>2. GraphTypeOK /\ rebuild \in RebuildStates /\ disturbed \in BOOLEAN /\ linked \subseteq Stories
  BY DEF WholeInv, GraphInv, GraphTypeOK
<1>3. /\ rebuild'.pc = "embedded" /\ rebuild'.new = rebuild.new /\ rebuild'.flags = rebuild.flags
      /\ rebuild'.at = rebuild.at /\ rebuild'.corpus = rebuild.corpus
  BY <1>1, <1>2 DEF RebuildStates
<1>4. RunShape'
  BY <1>1, <1>3 DEF WholeInv, RunShape, Corpus
<1>5. ASSUME ~disturbed' PROVE Quiet'
  <2>1. ~disturbed /\ ~Busy
    BY <1>1, <1>2, <1>5
  <2>2. /\ \A v \in Runners : worker[v].pc = "idle" /\ Held(v) = edges /\ worker[v].flags = {}
        /\ OnePer(edges) /\ Covered(linked, edges)
    BY <2>1, StartsAlone
  <2>3. Covered(linked, edges)' /\ OnePer(edges)'
    BY <1>1, <1>2, <2>2, BoundFades DEF Covered, Joined, Owed, OnePer
  <2>4. ASSUME NEW v \in Runners PROVE WorkerWhole(v)'
    <3>1. Held(v)' = edges' /\ worker'[v].flags = {}
      BY <1>1, <2>2 DEF Held
    <3> QED BY <2>3, <3>1 DEF WorkerWhole, Covered, OnePer
  <2> QED BY <1>1, <1>3, <2>2, <2>3, <2>4 DEF Quiet, Alone, RunsWhole, StoreWhole, RebuildWhole
<1> QED BY <1>4, <1>5

\* An ordering of a finite set names each of its elements once.
LEMMA OrderingNamesAll ==
    ASSUME NEW S, IsFiniteSet(S), NEW order \in SetToSeqs(S)
    PROVE  /\ DOMAIN order = 1..Cardinality(S)
           /\ {order[i] : i \in DOMAIN order} = S
           /\ \A i, j \in DOMAIN order : order[i] = order[j] => i = j
<1> DEFINE n == Cardinality(S)
<1>1. n \in Nat /\ IsFiniteSet(1..n) /\ Cardinality(1..n) = n
  BY FS_CardinalityType, FS_Interval
<1>2. order \in [1..n -> S] /\ \A i, j \in 1..n : i # j => order[i] # order[j]
  BY DEF SetToSeqs
<1>3. order \in Injection(1..n, S)
  BY <1>2 DEF Injection, IsInjective
<1>4. order \in Surjection(1..n, S)
  BY <1>1, <1>3, FS_Injection
<1> QED BY <1>2, <1>4 DEF Surjection

LEMMA RebuildReadWhole ==
    ASSUME WholeInv, RebuildRead
    PROVE  RunShape' /\ (~disturbed' => Quiet')
<1>1. PICK order \in SetToSeqs(mappedStories) : rebuild' = [rebuild EXCEPT !.pc = "read", !.corpus = order]
  BY DEF RebuildRead
<1>2. rebuild.pc = "embedded" /\ UNCHANGED <<mappedStories, vector, linked, edges, worker, disturbed, bereft>>
  BY DEF RebuildRead
<1>3. rebuild \in RebuildStates /\ linked \subseteq mappedStories /\ IsFiniteSet(mappedStories)
  BY EventGraphAssumption, FS_Subset DEF WholeInv, GraphInv, GraphTypeOK, RunShape
<1>4. /\ rebuild'.pc = "read" /\ rebuild'.new = rebuild.new /\ rebuild'.flags = rebuild.flags
      /\ rebuild'.at = rebuild.at /\ rebuild'.corpus = order
  BY <1>1, <1>3 DEF RebuildStates
<1>5. Corpus' = mappedStories
  BY <1>3, <1>4, OrderingNamesAll DEF Corpus
<1>6. \A i, j \in DOMAIN order : order[i] = order[j] => i = j
  BY <1>3, OrderingNamesAll
<1>7. rebuild.new = {} /\ rebuild.flags = {} /\ rebuild.at = 1
  BY <1>2 DEF WholeInv, RunShape
<1>8. RunShape'
  BY <1>2, <1>4, <1>5, <1>6, <1>7 DEF WholeInv, RunShape
<1>9. ASSUME ~disturbed' PROVE Quiet'
  <2>1. Alone'
    BY <1>2, <1>4, <1>9 DEF WholeInv, Alone
  <2>2. RunsWhole'
    BY <1>2, <1>4, <1>9, StoreStaysWhole, WorkerStaysWhole DEF WholeInv, RunsWhole
  <2> QED BY <1>2, <1>3, <1>4, <1>5, <2>1, <2>2 DEF Quiet, RebuildWhole
<1> QED BY <1>8, <1>9

LEMMA RebuildDeleteWhole ==
    ASSUME WholeInv, RebuildDelete
    PROVE  RunShape' /\ (~disturbed' => Quiet')
<1>1. /\ rebuild.pc = "read" /\ edges' = {} /\ rebuild' = [rebuild EXCEPT !.pc = "linking"]
      /\ UNCHANGED <<mappedStories, vector, linked, worker, disturbed, bereft>>
  BY DEF RebuildDelete
<1>2. rebuild \in RebuildStates
  BY DEF WholeInv, GraphInv, GraphTypeOK
<1>3. /\ rebuild'.pc = "linking" /\ rebuild'.new = rebuild.new /\ rebuild'.flags = rebuild.flags
      /\ rebuild'.at = rebuild.at /\ rebuild'.corpus = rebuild.corpus
  BY <1>1, <1>2 DEF RebuildStates
<1>4. rebuild.new = {} /\ rebuild.flags = {} /\ rebuild.at = 1
  BY <1>1 DEF WholeInv, RunShape
<1>5. Corpus' = Corpus
  BY <1>3 DEF Corpus
<1>6. RunShape'
  BY <1>1, <1>3, <1>4, <1>5 DEF WholeInv, RunShape
<1>7. ASSUME ~disturbed' PROVE Quiet'
  <2>1. Alone /\ RebuildWhole
    BY <1>1, <1>7 DEF WholeInv
  <2>2. \A v \in Runners : worker[v].pc = "idle" /\ worker[v].new = {} /\ worker[v].rewritten = {}
    BY <1>1, <2>1 DEF WholeInv, RunShape, Alone
  <2>3. ASSUME NEW v \in Runners PROVE WorkerWhole(v)'
    <3>1. Held(v)' = {}
      BY <1>1, <2>2 DEF Held
    <3> QED BY <1>3, <3>1 DEF WorkerWhole, OnePer
  <2>4. RunsWhole'
    BY <1>1, <1>3, <2>3 DEF RunsWhole, StoreWhole, OnePer
  <2>5. RebuildWhole'
    <3>1. \A i \in DOMAIN rebuild.corpus : ~(i < 1)
      BY <1>2 DEF RebuildStates
    <3> QED BY <1>1, <1>3, <1>4, <1>5, <2>1, <3>1 DEF RebuildWhole, OnePer
  <2> QED BY <1>1, <1>3, <2>1, <2>2, <2>4, <2>5 DEF Quiet, Alone
<1> QED BY <1>6, <1>7

LEMMA RebuildSourceWhole ==
    ASSUME WholeInv, RebuildSource
    PROVE  RunShape' /\ (~disturbed' => Quiet')
<1> DEFINE i == rebuild.at
           a == rebuild.corpus[i]
           after == {k \in i + 1..Len(rebuild.corpus) : Related(a, rebuild.corpus[k])}
           new == {[a |-> a, b |-> rebuild.corpus[j],
                    direction |-> CausalDirection(a, rebuild.corpus[j]), by |-> Nobody] : j \in after}
<1>1. PICK flush \in BOOLEAN :
        /\ edges' = IF flush THEN edges \cup rebuild.new \cup new ELSE edges
        /\ linked' = IF flush THEN linked \cup rebuild.flags \cup {a} ELSE linked
        /\ rebuild' = [pc |-> "linking", corpus |-> rebuild.corpus, at |-> i + 1,
                       new |-> IF flush THEN {} ELSE rebuild.new \cup new,
                       flags |-> IF flush THEN {} ELSE rebuild.flags \cup {a}]
  BY DEF RebuildSource
<1>2. /\ rebuild.pc = "linking" /\ i <= Len(rebuild.corpus)
      /\ UNCHANGED <<mappedStories, vector, worker, disturbed, bereft>>
  BY DEF RebuildSource
<1>3. i \in Nat \ {0} /\ rebuild.corpus \in Seq(Stories)
  BY DEF WholeInv, GraphInv, GraphTypeOK, RebuildStates
<1>4. i \in DOMAIN rebuild.corpus /\ DOMAIN rebuild.corpus = 1..Len(rebuild.corpus) /\ Len(rebuild.corpus) \in Nat
  BY <1>2, <1>3
<1>5. a \in Corpus /\ a \in Stories /\ Corpus \subseteq mappedStories /\ rebuild.flags \subseteq Corpus
  BY <1>3, <1>4 DEF Corpus, WholeInv, RunShape
<1> HIDE DEF new
<1>6. /\ rebuild'.pc = "linking" /\ rebuild'.corpus = rebuild.corpus /\ rebuild'.at = i + 1
      /\ (edges \cup rebuild.new)' = edges \cup rebuild.new \cup new
      /\ edges \subseteq edges' /\ edges' \subseteq edges \cup rebuild.new \cup new
      /\ linked' \subseteq linked \cup rebuild.flags \cup {a}
      /\ rebuild'.flags \subseteq rebuild.flags \cup {a}
  BY <1>1
<1>7. Corpus' = Corpus
  BY <1>6 DEF Corpus
<1>8. RunShape'
  BY <1>2, <1>5, <1>6, <1>7 DEF WholeInv, RunShape
<1>9. ASSUME ~disturbed' PROVE Quiet'
  <2>1. Alone /\ RunsWhole /\ RebuildWhole
    BY <1>2, <1>9 DEF WholeInv
  <2>2. \A j, k \in DOMAIN rebuild.corpus : rebuild.corpus[j] = rebuild.corpus[k] => j = k
    BY DEF WholeInv, RunShape
  <2>3. ASSUME NEW q \in new
        PROVE  \E j \in DOMAIN rebuild.corpus :
                 i < j /\ q = [a |-> a, b |-> rebuild.corpus[j],
                               direction |-> CausalDirection(a, rebuild.corpus[j]), by |-> Nobody]
    BY <1>3, <1>4 DEF new
  <2>4. \A r \in edges \cup rebuild.new \cup new : FromDone(r)'
    <3>1. ASSUME NEW r \in edges \cup rebuild.new PROVE FromDone(r)'
      <4>1. PICK j, k \in DOMAIN rebuild.corpus :
              j < rebuild.at /\ j < k /\ r.a = rebuild.corpus[j] /\ r.b = rebuild.corpus[k]
        BY <1>2, <2>1 DEF RebuildWhole, FromDone
      <4>2. j < rebuild'.at
        BY <1>3, <1>4, <1>6, <4>1
      <4> QED BY <1>6, <4>1, <4>2 DEF FromDone
    <3>2. ASSUME NEW r \in new PROVE FromDone(r)'
      <4>1. PICK j \in DOMAIN rebuild.corpus : i < j /\ r.a = a /\ r.b = rebuild.corpus[j]
        BY <2>3
      <4>2. i < rebuild'.at
        BY <1>3, <1>6
      <4> QED BY <1>4, <1>6, <4>1, <4>2 DEF FromDone
    <3> QED BY <3>1, <3>2
  <2>5. OnePer(edges \cup rebuild.new \cup new)
    <3>1. ASSUME NEW q \in edges \cup rebuild.new, NEW r \in new, {q.a, q.b} = {r.a, r.b} PROVE FALSE
      <4>1. PICK j \in DOMAIN rebuild.corpus : i < j /\ r.a = a /\ r.b = rebuild.corpus[j]
        BY <2>3
      <4>2. PICK k, l \in DOMAIN rebuild.corpus :
              k < i /\ k < l /\ q.a = rebuild.corpus[k] /\ q.b = rebuild.corpus[l]
        BY <1>2, <2>1 DEF RebuildWhole, FromDone
      <4>3. rebuild.corpus[k] = rebuild.corpus[i] \/ rebuild.corpus[k] = rebuild.corpus[j]
        BY <3>1, <4>1, <4>2
      <4>4. k = i \/ k = j
        BY <1>4, <2>2, <4>3
      <4> QED BY <1>4, <4>1, <4>2, <4>4
    <3>2. ASSUME NEW q \in new, NEW r \in new, {q.a, q.b} = {r.a, r.b} PROVE q = r
      <4>1. PICK j \in DOMAIN rebuild.corpus :
              q = [a |-> a, b |-> rebuild.corpus[j],
                   direction |-> CausalDirection(a, rebuild.corpus[j]), by |-> Nobody]
        BY <2>3
      <4>2. PICK k \in DOMAIN rebuild.corpus :
              r = [a |-> a, b |-> rebuild.corpus[k],
                   direction |-> CausalDirection(a, rebuild.corpus[k]), by |-> Nobody]
        BY <2>3
      <4>3. rebuild.corpus[j] = rebuild.corpus[k]
        BY <3>2, <4>1, <4>2
      <4> QED BY <4>1, <4>2, <4>3
    <3>3. OnePer(edges \cup rebuild.new)
      BY <1>2, <2>1 DEF RebuildWhole
    <3> QED BY <3>1, <3>2, <3>3 DEF OnePer
  <2>6. ASSUME NEW j \in DOMAIN rebuild.corpus, NEW k \in DOMAIN rebuild.corpus,
               j < i + 1, j < k, Bound(rebuild.corpus[j], rebuild.corpus[k])
        PROVE  Joined(rebuild.corpus[j], rebuild.corpus[k], edges \cup rebuild.new \cup new)
    <3>1. CASE j < i
      BY <1>2, <2>1, <2>6, <3>1 DEF RebuildWhole, Joined
    <3>2. CASE j = i
      <4>1. Related(a, rebuild.corpus[k])
        BY <1>3, <1>4, <2>6, <3>2, BoundIsRelated
      <4>2. k \in after
        BY <1>4, <2>6, <3>2, <4>1
      <4>3. [a |-> a, b |-> rebuild.corpus[k], direction |-> CausalDirection(a, rebuild.corpus[k]),
             by |-> Nobody] \in new
        BY <4>2 DEF new
      <4> QED BY <3>2, <4>3 DEF Joined
    <3> QED BY <1>4, <2>6, <3>1, <3>2
  <2>7. RebuildWhole'
    <3>1. linked' \subseteq Corpus'
      BY <1>2, <1>5, <1>6, <1>7, <2>1 DEF RebuildWhole
    <3>2. ASSUME NEW j \in DOMAIN rebuild'.corpus, NEW k \in DOMAIN rebuild'.corpus,
                 j < rebuild'.at, j < k, Bound(rebuild.corpus[j], rebuild.corpus[k])'
          PROVE  Joined(rebuild.corpus[j], rebuild.corpus[k], edges \cup rebuild.new)'
      <4>1. Bound(rebuild.corpus[j], rebuild.corpus[k])
        BY <1>2, <1>6, <3>2 DEF Bound
      <4>2. Joined(rebuild.corpus[j], rebuild.corpus[k], edges \cup rebuild.new \cup new)
        BY <1>6, <2>6, <3>2, <4>1
      <4> QED BY <1>6, <4>2 DEF Joined
    <3>3. OnePer(edges \cup rebuild.new)'
      BY <1>6, <2>5 DEF OnePer
    <3>4. \A r \in (edges \cup rebuild.new)' : FromDone(r)'
      BY <1>6, <2>4
    <3> QED BY <1>6, <3>1, <3>2, <3>3, <3>4 DEF RebuildWhole
  <2>8. ASSUME NEW v \in Runners PROVE WorkerWhole(v)'
    <3>1. Held(v)' = edges'
      BY <1>2, <2>1 DEF Held, WholeInv, RunShape, Alone
    <3> QED BY <1>6, <2>5, <3>1 DEF WorkerWhole, OnePer
  <2>9. RunsWhole'
    BY <1>6, <2>5, <2>8 DEF RunsWhole, StoreWhole, OnePer
  <2> QED BY <1>2, <1>6, <2>1, <2>7, <2>9 DEF Quiet, Alone
<1> QED BY <1>8, <1>9

LEMMA RebuildEndWhole ==
    ASSUME WholeInv, RebuildEnd
    PROVE  RunShape' /\ (~disturbed' => Quiet')
<1>1. /\ rebuild.pc = "linking" /\ rebuild.at > Len(rebuild.corpus)
      /\ edges' = edges \cup rebuild.new /\ linked' = linked \cup rebuild.flags
      /\ rebuild' = NoRebuild
      /\ UNCHANGED <<mappedStories, vector, worker, disturbed>>
  BY DEF RebuildEnd
<1>2. rebuild.corpus \in Seq(Stories) /\ rebuild.at \in Nat
  BY DEF WholeInv, GraphInv, GraphTypeOK, RebuildStates
<1>3. /\ rebuild'.pc = "idle" /\ rebuild'.new = {} /\ rebuild'.flags = {}
      /\ rebuild'.at = 1 /\ DOMAIN rebuild'.corpus = {}
  BY <1>1 DEF NoRebuild
<1>4. RunShape'
  BY <1>1, <1>3 DEF WholeInv, RunShape, Corpus
<1>5. ASSUME ~disturbed' PROVE Quiet'
  <2>1. Alone /\ RebuildWhole
    BY <1>1, <1>5 DEF WholeInv
  <2>2. linked \cup rebuild.flags \subseteq Corpus
    BY <1>1, <2>1 DEF RebuildWhole, WholeInv, RunShape
  <2>3. ASSUME NEW g \in linked \cup rebuild.flags, NEW h \in linked \cup rebuild.flags, Bound(g, h)
        PROVE  Joined(g, h, edges \cup rebuild.new)
    <3>2. PICK j, k \in DOMAIN rebuild.corpus : g = rebuild.corpus[j] /\ h = rebuild.corpus[k]
      BY <2>2 DEF Corpus
    <3>3. g \in Stories /\ h \in Stories /\ j \in Nat /\ k \in Nat
          /\ j < rebuild.at /\ k < rebuild.at
      BY <1>1, <1>2, <3>2
    <3>4. g # h
      BY <2>3, <3>3, BoundIsRelated
    <3>5. CASE j < k
      BY <1>1, <2>1, <2>3, <3>2, <3>3, <3>5 DEF RebuildWhole
    <3>6. CASE k < j
      <4>1. Bound(h, g)
        BY <2>3 DEF Bound
      <4>2. Joined(h, g, edges \cup rebuild.new)
        BY <1>1, <2>1, <3>2, <3>3, <3>6, <4>1 DEF RebuildWhole
      <4> QED BY <4>2 DEF Joined
    <3> QED BY <3>2, <3>3, <3>4, <3>5, <3>6
  <2>4. OnePer(edges)' /\ Covered(linked, edges)'
    <3>1. OnePer(edges \cup rebuild.new)
      BY <1>1, <2>1 DEF RebuildWhole
    <3>2. OnePer(edges)'
      BY <1>1, <3>1 DEF OnePer
    <3>3. Covered(linked, edges)'
      BY <1>1, <2>3 DEF Covered, Joined, Owed, Bound
    <3> QED BY <3>2, <3>3
  <2>5. ASSUME NEW v \in Runners PROVE WorkerWhole(v)'
    <3>1. Held(v)' = edges' /\ (linked \cup worker[v].flags)' = linked'
      BY <1>1, <2>1 DEF Held, WholeInv, RunShape, Alone
    <3> QED BY <2>4, <3>1 DEF WorkerWhole, OnePer, Covered
  <2> QED BY <1>1, <1>3, <2>1, <2>4, <2>5 DEF Quiet, Alone, RunsWhole, StoreWhole, RebuildWhole
<1> QED BY <1>4, <1>5

\* A rebuild that dies on an emptied table leaves the connected events bereft.
LEMMA RebuildDiesWhole ==
    ASSUME WholeInv, RebuildDies
    PROVE  RunShape' /\ (~disturbed' => Quiet')
<1>1. /\ rebuild.pc # "idle" /\ rebuild' = NoRebuild
      /\ bereft' = IF rebuild.pc = "linking" THEN linked ELSE bereft
      /\ UNCHANGED <<mappedStories, vector, linked, edges, worker, disturbed>>
  BY DEF RebuildDies
<1>2. /\ rebuild'.pc = "idle" /\ rebuild'.new = {} /\ rebuild'.flags = {}
      /\ rebuild'.at = 1 /\ DOMAIN rebuild'.corpus = {}
  BY <1>1 DEF NoRebuild
<1>3. RunShape'
  BY <1>1, <1>2 DEF WholeInv, RunShape, Corpus
<1>4. ASSUME ~disturbed' PROVE Quiet'
  <2>1. Alone /\ RunsWhole /\ RebuildWhole
    BY <1>1, <1>4 DEF WholeInv
  <2>2. \A v \in Runners : worker[v].pc = "idle" /\ Held(v) = edges /\ worker[v].flags = {}
    BY <1>1, <2>1 DEF Held, WholeInv, RunShape, Alone
  <2>3. OnePer(edges)'
    BY <1>1, <2>1 DEF RunsWhole, StoreWhole, OnePer
  <2>4. Covered(linked, edges)'
    <3>1. CASE rebuild.pc = "linking"
      <4>1. \A g, h \in linked : ~Owed(g, h)'
        BY <1>1, <3>1 DEF Owed
      <4> QED BY <1>1, <4>1 DEF Covered
    <3>2. CASE rebuild.pc # "linking"
      BY <1>1, <2>1, <3>2 DEF RunsWhole, StoreWhole, Covered, Joined, Owed, Bound
    <3> QED BY <3>1, <3>2
  <2>5. ASSUME NEW v \in Runners PROVE WorkerWhole(v)'
    <3>1. Held(v)' = edges' /\ (linked \cup worker[v].flags)' = linked'
      BY <1>1, <2>2 DEF Held
    <3> QED BY <2>3, <2>4, <3>1 DEF WorkerWhole, OnePer, Covered
  <2> QED BY <1>1, <1>2, <2>2, <2>3, <2>4, <2>5 DEF Quiet, Alone, RunsWhole, StoreWhole, RebuildWhole
<1> QED BY <1>3, <1>4

LEMMA WholeNext ==
    ASSUME WholeInv, [GraphNext]_graphVars
    PROVE  WholeInv'
<1>1. GraphInv'
  BY GraphInvNext DEF WholeInv
<1>2. RunShape' /\ (~disturbed' => Quiet')
  <2>1. CASE UNCHANGED graphVars
    <3>1. UNCHANGED <<mappedStories, vector, linked, edges, worker, rebuild, disturbed, bereft>>
      BY <2>1 DEF graphVars
    <3>2. RunShape'
      BY <3>1 DEF WholeInv, RunShape, Corpus
    <3>3. ASSUME ~disturbed' PROVE Quiet'
      <4>1. RunsWhole'
        BY <3>1, <3>3, StoreStaysWhole, WorkerStaysWhole DEF WholeInv, RunsWhole
      <4>2. Alone' /\ RebuildWhole'
        BY <3>1, <3>3, RebuildStaysWhole DEF WholeInv, Alone
      <4> QED BY <4>1, <4>2 DEF Quiet
    <3> QED BY <3>2, <3>3
  <2>2. CASE \E e \in Stories : StoryMapped(e)
    BY <2>2, StoryMappedWhole
  <2>3. CASE \E w \in Runners : RunStep(w) \/ RunDies(w)
    BY <2>3, BackfillWhole, SelectWhole, ConnectWhole, CommitWhole, RunDiesWhole DEF RunStep
  <2>4. CASE RebuildStep \/ RebuildDies
    BY <2>4, RebuildEmbedWhole, RebuildReadWhole, RebuildDeleteWhole, RebuildSourceWhole,
       RebuildEndWhole, RebuildDiesWhole DEF RebuildStep
  <2> QED BY <2>1, <2>2, <2>3, <2>4 DEF GraphNext
<1> QED BY <1>1, <1>2 DEF WholeInv, Quiet

\* workers/graph_worker.py, graph_connector.py, scripts/recompute_connections.py:
\* however many runs and rebuilds follow one another, and whichever of them dies,
\* as long as none overlaps no pair has two rows, and a pair of connected events
\* that belongs together lacks its row only if both were connected when a
\* rebuild died with the table emptied, and until one ends.
THEOREM LinksStayWhole == GraphSpec => []LinksAreWhole
<1>1. ASSUME WholeInv PROVE LinksAreWhole
  <2>1. ASSUME ~disturbed, NEW e \in Stories, NEW f \in Stories
        PROVE  Cardinality({r \in edges : {r.a, r.b} = {e, f}}) <= 1
    <3> DEFINE rows == {r \in edges : {r.a, r.b} = {e, f}}
    <3>1. OnePer(edges)
      BY <1>1, <2>1 DEF WholeInv, RunsWhole, StoreWhole
    <3>2. rows = {} \/ \E r : rows = {r}
      BY <3>1, SMTT(20) DEF OnePer
    <3>3. Cardinality(rows) = 0 \/ Cardinality(rows) = 1
      BY <3>2, FS_EmptySet, FS_Singleton, Zenon
    <3> QED BY <3>3
  <2>2. OneEdgePerPair
    BY <2>1 DEF OneEdgePerPair
  <2>3. ConnectedAreLinked
    BY <1>1 DEF WholeInv, RunsWhole, StoreWhole, Covered, Owed, Bound, Joined, ConnectedAreLinked
  <2> QED BY <2>2, <2>3 DEF LinksAreWhole
<1> QED BY <1>1, WholeInit, WholeNext, PTL DEF GraphSpec
=============================================================================
