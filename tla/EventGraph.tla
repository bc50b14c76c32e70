----------------------------- MODULE EventGraph -----------------------------
(***************************************************************************)
(* Links between events.  workers/graph_worker.py embeds mapped events and *)
(* connects those that are not connected yet, one transaction a run;       *)
(* consequence_engine/graph_connector.py links one event with all others;  *)
(* scripts/recompute_connections.py deletes and rebuilds every link.       *)
(* Nothing keeps two runs apart: the scheduler, the admin trigger and the  *)
(* script may overlap.                                                     *)
(***************************************************************************)
EXTENDS Naturals, FiniteSets, SequencesExt

CONSTANTS
    Stories,      \* events
    FirstSeen,    \* [Stories -> Nat], first_detected_at
    TagKin,       \* pairs {e, f} whose tags overlap enough with no embedding
    Kin,          \* pairs whose tags and good embeddings give enough weight
    Runners,      \* processes that run the graph worker
    ConnectLimit, \* events of one run
    VectorLimit,   \* events embedded by one run
    CommitEvery,  \* source events per commit of the rebuild
    MaxRebuilds, MaxFaults, \* bounds: rebuilds; failed embeddings and deaths
    Nobody

ASSUME EventGraphAssumption ==
    /\ IsFiniteSet(Stories) /\ FirstSeen \in [Stories -> Nat]
    /\ \A p \in Kin \cup TagKin : p \subseteq Stories /\ Cardinality(p) = 2
    /\ ConnectLimit \in Nat \ {0} /\ VectorLimit \in Nat \ {0}
    /\ CommitEvery \in Nat \ {0}

VARIABLES
    mappedStories, \* is_mapped
    vector,        \* per event: "none", "good" or "zero"
    linked,        \* is_graph_connected
    edges,         \* event_connections, committed: [a, b, direction, by]
    worker,        \* per runner: its step, its events, its open transaction
    rebuild,       \* the script: its step, what it read, its open transaction
    disturbed,     \* two runs have overlapped
    bereft,        \* events connected when a rebuild died on an emptied table
    rebuilds, graphFaults

graphVars == <<mappedStories, vector, linked, edges, worker, rebuild,
               disturbed, bereft, rebuilds, graphFaults>>

Resting == [pc |-> "idle", todo |-> {}, new |-> {}, rewritten |-> {}, flags |-> {}]
NoRebuild == [pc |-> "idle", corpus |-> <<>>, at |-> 1, new |-> {}, flags |-> {}]
-----------------------------------------------------------------------------
(* Scoring, as far as it decides whether and how two events are linked.    *)

Cosine(e, f) ==
    IF "none" \in {vector[e], vector[f]} THEN "unknown"
    ELSE IF "zero" \in {vector[e], vector[f]} THEN "zero" ELSE "known"

\* compute_connection_weight() is not None.
Related(e, f) ==
    \/ Cosine(e, f) = "unknown" /\ {e, f} \in TagKin
    \/ Cosine(e, f) = "known" /\ {e, f} \in Kin

CausalDirection(e, f) ==
    IF FirstSeen[e] = FirstSeen[f] THEN "none"
    ELSE IF FirstSeen[e] < FirstSeen[f] THEN "a_to_b" ELSE "b_to_a"

OrientNot(direction, forward) == direction \* mutant: stored as computed

Orient(direction, forward) ==
    IF direction = "none" \/ forward THEN direction
    ELSE IF direction = "a_to_b" THEN "b_to_a" ELSE "a_to_b"

JoinsForward(r, e, f) == r.a = e /\ r.b = f \* mutant: one order only
Joins(r, e, f) == {r.a, r.b} = {e, f}

\* What a run's queries return: committed rows and those of its own transaction.
Seen(w) == {r \in edges : \A q \in worker[w].rewritten : <<q.a, q.b, q.by>> # <<r.a, r.b, r.by>>}
           \cup worker[w].rewritten \cup worker[w].new
Locked(w, r) == \E v \in Runners \ {w} : \E q \in worker[v].rewritten :
                   <<q.a, q.b, q.by>> = <<r.a, r.b, r.by>>
-----------------------------------------------------------------------------
GraphInit ==
    /\ mappedStories = {} /\ linked = {} /\ edges = {}
    /\ vector = [e \in Stories |-> "none"]
    /\ worker = [w \in Runners |-> Resting]
    /\ rebuild = NoRebuild
    /\ disturbed = FALSE /\ bereft = {} /\ rebuilds = 0 /\ graphFaults = 0

\* The mapping worker maps an event.
StoryMapped(e) ==
    /\ e \notin mappedStories
    /\ mappedStories' = mappedStories \cup {e}
    /\ UNCHANGED <<vector, linked, edges, worker, rebuild, disturbed, bereft, rebuilds, graphFaults>>

Atmost(n, S) == {T \in SUBSET S : Cardinality(T) = IF Cardinality(S) < n THEN Cardinality(S) ELSE n}

Busy == (\E w \in Runners : worker[w].pc # "idle") \/ rebuild.pc # "idle"

\* A run first embeds mapped events; when the model fails it stores zero vectors.
Backfill(w) ==
    /\ worker[w].pc = "idle"
    /\ \E T \in Atmost(VectorLimit, {e \in mappedStories : vector[e] = "none"}),
          outcome \in {"good", "zero"} :
         /\ outcome = "zero" => T # {} /\ graphFaults < MaxFaults
         /\ graphFaults' = IF outcome = "zero" THEN graphFaults + 1 ELSE graphFaults
         /\ vector' = [e \in Stories |-> IF e \in T THEN outcome ELSE vector[e]]
    /\ worker' = [worker EXCEPT ![w].pc = "embedded"]
    /\ disturbed' = (disturbed \/ Busy)
    /\ UNCHANGED <<mappedStories, linked, edges, rebuild, bereft, rebuilds>>

ToConnect == mappedStories \ linked

SelectStories(w) ==
    /\ worker[w].pc = "embedded"
    /\ \E T \in Atmost(ConnectLimit, ToConnect) :
         worker' = [worker EXCEPT ![w] = [@ EXCEPT !.pc = "connecting", !.todo = T]]
    /\ UNCHANGED <<mappedStories, vector, linked, edges, rebuild, disturbed, bereft, rebuilds, graphFaults>>

FlagWhenLinked(e, found) == IF found = {} THEN {} ELSE {e} \* mutant: only with a link
FlagConnected(e, found) == {e}

\* One event against all mapped ones.  A pair with two rows makes
\* scalar_one_or_none raise: the event is given up, what was written before stays.
ConnectStory(w, e) ==
    LET related == {f \in mappedStories \ {e} : Related(e, f)}
        of(f) == {r \in Seen(w) : Joins(r, e, f)}
        twice == {f \in related : Cardinality(of(f)) > 1}
    IN
    /\ worker[w].pc = "connecting" /\ e \in worker[w].todo
    /\ \E done \in IF twice = {} THEN {related} ELSE SUBSET (related \ twice) :
         LET old == UNION {of(f) : f \in done}
             other(r) == IF r.a = e THEN r.b ELSE r.a
             again == {[r EXCEPT !.direction =
                          Orient(CausalDirection(e, other(r)), r.a = e)] : r \in old}
             new == {[a |-> e, b |-> f, direction |-> CausalDirection(e, f), by |-> w] :
                       f \in {g \in done : of(g) = {}}}
             mine(r) == \E q \in worker[w].new : <<q.a, q.b>> = <<r.a, r.b>> /\ r.by = w
         IN  /\ \A r \in old : ~Locked(w, r)
             /\ worker' = [worker EXCEPT ![w] =
                  [pc |-> "connecting", todo |-> @.todo \ {e},
                   new |-> (@.new \ old) \cup {r \in again : mine(r)} \cup new,
                   rewritten |-> (@.rewritten \ old) \cup {r \in again : ~mine(r)},
                   flags |-> @.flags \cup IF twice = {} THEN FlagConnected(e, done) ELSE {}]]
    /\ UNCHANGED <<mappedStories, vector, linked, edges, rebuild, disturbed, bereft, rebuilds, graphFaults>>

CommitConnections(w) ==
    /\ worker[w].pc = "connecting" /\ worker[w].todo = {}
    /\ edges' = Seen(w)
    /\ linked' = linked \cup worker[w].flags
    /\ worker' = [worker EXCEPT ![w] = Resting]
    /\ UNCHANGED <<mappedStories, vector, rebuild, disturbed, bereft, rebuilds, graphFaults>>

\* The process dies, a deadlock is broken, or a statement fails: nothing is kept.
RunDies(w) ==
    /\ worker[w].pc # "idle" /\ graphFaults < MaxFaults
    /\ graphFaults' = graphFaults + 1
    /\ worker' = [worker EXCEPT ![w] = Resting]
    /\ UNCHANGED <<mappedStories, vector, linked, edges, rebuild, disturbed, bereft, rebuilds>>
-----------------------------------------------------------------------------
(* The rebuild script.                                                     *)

\* embed_backlog(): zero vectors are not stored.
RebuildEmbed ==
    /\ rebuild.pc = "idle" /\ rebuilds < MaxRebuilds
    /\ \E outcome \in {"good", "none"} :
         vector' = [e \in Stories |-> IF e \in mappedStories /\ vector[e] = "none"
                                      THEN outcome ELSE vector[e]]
    /\ rebuild' = [rebuild EXCEPT !.pc = "embedded"]
    /\ rebuilds' = rebuilds + 1
    /\ disturbed' = (disturbed \/ Busy)
    /\ UNCHANGED <<mappedStories, linked, edges, worker, bereft, graphFaults>>

RebuildRead ==
    /\ rebuild.pc = "embedded"
    /\ \E order \in SetToSeqs(mappedStories) :
         rebuild' = [rebuild EXCEPT !.pc = "read", !.corpus = order]
    /\ UNCHANGED <<mappedStories, vector, linked, edges, worker, disturbed, bereft, rebuilds, graphFaults>>

RebuildDelete ==
    /\ rebuild.pc = "read"
    /\ \A w \in Runners : worker[w].rewritten = {}
    /\ edges' = {}
    /\ rebuild' = [rebuild EXCEPT !.pc = "linking"]
    /\ UNCHANGED <<mappedStories, vector, linked, worker, disturbed, bereft, rebuilds, graphFaults>>

\* One source event with those after it in the corpus.
RebuildSource ==
    LET i == rebuild.at
        a == rebuild.corpus[i]
        new == {[a |-> a, b |-> rebuild.corpus[j],
                 direction |-> CausalDirection(a, rebuild.corpus[j]), by |-> Nobody] :
                  j \in {k \in i + 1..Len(rebuild.corpus) : Related(a, rebuild.corpus[k])}}
        flush == (i - 1) % CommitEvery = 0
    IN
    /\ rebuild.pc = "linking" /\ i <= Len(rebuild.corpus)
    /\ edges' = IF flush THEN edges \cup rebuild.new \cup new ELSE edges
    /\ linked' = IF flush THEN linked \cup rebuild.flags \cup {a} ELSE linked
    /\ rebuild' = [pc |-> "linking", corpus |-> rebuild.corpus, at |-> i + 1,
                   new |-> IF flush THEN {} ELSE rebuild.new \cup new,
                   flags |-> IF flush THEN {} ELSE rebuild.flags \cup {a}]
    /\ UNCHANGED <<mappedStories, vector, worker, disturbed, bereft, rebuilds, graphFaults>>

RebuildEnd ==
    /\ rebuild.pc = "linking" /\ rebuild.at > Len(rebuild.corpus)
    /\ edges' = edges \cup rebuild.new
    /\ linked' = linked \cup rebuild.flags
    /\ rebuild' = NoRebuild /\ bereft' = {}
    /\ UNCHANGED <<mappedStories, vector, worker, disturbed, rebuilds, graphFaults>>

\* What was flushed stays, the deleted links too are gone for good: their events
\* keep is_graph_connected, so no later run takes them up.
RebuildDies ==
    /\ rebuild.pc # "idle" /\ graphFaults < MaxFaults
    /\ graphFaults' = graphFaults + 1
    /\ rebuild' = NoRebuild
    /\ bereft' = IF rebuild.pc = "linking" THEN linked ELSE bereft
    /\ UNCHANGED <<mappedStories, vector, linked, edges, worker, disturbed, rebuilds>>
-----------------------------------------------------------------------------
RunStep(w) ==
    \/ Backfill(w) \/ SelectStories(w) \/ CommitConnections(w)
    \/ \E e \in Stories : ConnectStory(w, e)
RebuildStep == RebuildEmbed \/ RebuildRead \/ RebuildDelete \/ RebuildSource \/ RebuildEnd

GraphNext ==
    \/ \E e \in Stories : StoryMapped(e)
    \/ \E w \in Runners : RunStep(w) \/ RunDies(w)
    \/ RebuildStep \/ RebuildDies

GraphSpec == GraphInit /\ [][GraphNext]_graphVars

\* The scheduler runs the graph worker for ever; the script, once begun, goes on.
GraphFairness ==
    /\ \A w \in Runners : WF_graphVars(RunStep(w))
    /\ WF_graphVars(RebuildRead \/ RebuildDelete \/ RebuildSource \/ RebuildEnd)

LiveGraphSpec == GraphSpec /\ GraphFairness
-----------------------------------------------------------------------------
EdgeRows == [a : Stories, b : Stories, direction : {"none", "a_to_b", "b_to_a"},
             by : Runners \cup {Nobody}]
RunStates == [pc : {"idle", "embedded", "connecting"}, todo : SUBSET Stories,
              new : SUBSET EdgeRows, rewritten : SUBSET EdgeRows, flags : SUBSET Stories]
RebuildStates == [pc : {"idle", "embedded", "read", "linking"}, corpus : Seq(Stories),
                  at : Nat \ {0}, new : SUBSET EdgeRows, flags : SUBSET Stories]

\* Types.
GraphTypeOK ==
    /\ mappedStories \subseteq Stories /\ linked \subseteq Stories
    /\ edges \subseteq EdgeRows
    /\ worker \in [Runners -> RunStates]
    /\ rebuild \in RebuildStates
    /\ vector \in [Stories -> {"none", "good", "zero"}]
    /\ disturbed \in BOOLEAN /\ bereft \subseteq Stories /\ rebuilds \in Nat /\ graphFaults \in Nat

\* Whichever end of a pair was connected first and whichever last rewrote the
\* row, the stored direction leads from the earlier event to the later one.
DirectionFollowsTime ==
    \A r \in edges : r.direction = CausalDirection(r.a, r.b)

\* Runs that do not overlap never give a pair a second row, in either order,
\* nor does a run after a rebuild that died half-way.
OneEdgePerPair ==
    ~disturbed => \A e, f \in Stories : Cardinality({r \in edges : {r.a, r.b} = {e, f}}) <= 1

\* Two connected events that their tags alone would link, and their embeddings
\* too, have an edge, however embedding, mapping and connecting fell out and
\* whatever died, unless a vector is the zero of a failed embedding, or both
\* were connected already when a rebuild died between its DELETE and its end:
\* the links of these stay lost until a later rebuild ends.
ConnectedAreLinked ==
    ~disturbed /\ rebuild.pc # "linking" =>
        \A e, f \in linked :
            /\ {e, f} \in Kin \cap TagKin /\ "zero" \notin {vector[e], vector[f]}
            /\ ~({e, f} \subseteq bereft)
            => \E r \in edges : {r.a, r.b} = {e, f}

\* Between overlaps the stored links are those of the related pairs: none is
\* doubled, and none of the connected is missing but for those a dead rebuild
\* had deleted.
LinksAreWhole == OneEdgePerPair /\ ConnectedAreLinked

\* Every mapped event is connected in the end, whatever run or rebuild dies on
\* the way, unless runs overlap (a pair with two rows makes its events fail for
\* ever).
EveryMappedGetsConnected ==
    \A e \in Stories : e \in mappedStories ~> (e \in linked \/ disturbed)
=============================================================================
