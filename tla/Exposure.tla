------------------------------ MODULE Exposure ------------------------------
(***************************************************************************)
(* What is computed from the event graph on every request, and what of it  *)
(* is shown: consequence_engine/propagation.py (the exposure model),       *)
(* tracer.py (the consequence chain) and corroboration.py, behind          *)
(* api/routes/exposure.py and api/routes/graph.py, and the snapshots of    *)
(* workers/exposure_snapshot_worker.py.                                    *)
(*                                                                         *)
(* A link of step s passes on Gain[s] / Whole = LAMBDA * weight of an      *)
(* effect, so that every number is exact; rounding and the saturating      *)
(* exponentials, which only keep the order of scores, are left out.        *)
(***************************************************************************)
EXTENDS Integers, Sequences, SequencesExt, FiniteSets, FiniteSetsExt, Functions

CONSTANTS Nodes,       \* events, 1..n in order of global importance
          BaseScore,        \* [Nodes -> Nat], importance x confidence x recency
          Emits,       \* [Nodes -> sets of <<target, strength, sign>>], the impacts
          FeedOf,      \* [Nodes -> feeds], NoFeed for a clustered event
          Converging,  \* pairs close in space and time, and related
          Menu,        \* bound: the links that may come to be
          Whole, Gain, \* what a link of each step passes on, in parts of Whole
          Stress,      \* [targets -> 0..2], the combined market stress in halves
          FreeLimit, PaidLimit, \* events a free and a paying user's numbers rest on
          EdgeLimit,   \* links loaded, strongest first
          MaxIters,    \* MAX_ITERS
          Tolerance,   \* 1 / EPSILON
          MaxUnbacked, \* bound: events that lose their backing
          NoFeed

ASSUME ExposureAssumption ==
    /\ Nodes \subseteq Nat /\ IsFiniteSet(Nodes) /\ BaseScore \in [Nodes -> Nat]
    /\ Whole \in Nat \ {0} /\ Gain \in Seq(1..Whole)
    /\ IsFiniteSet(Menu)
    /\ Menu \subseteq [a : Nodes, b : Nodes, direction : {"a_to_b", "b_to_a", "none"},
                       step : DOMAIN Gain, grounded : BOOLEAN]
    /\ \A e \in Nodes : /\ IsFiniteSet(Emits[e])
                        /\ \A i \in Emits[e] : i[1] \in DOMAIN Stress /\ i[2] \in Nat /\ i[3] \in {-1, 1}
    /\ IsFiniteSet(DOMAIN Stress) /\ Stress \in [DOMAIN Stress -> 0..2]
    /\ FreeLimit \in Nat /\ PaidLimit \in Nat /\ FreeLimit <= PaidLimit /\ EdgeLimit \in Nat
    /\ MaxIters \in Nat /\ Tolerance \in Nat

VARIABLES links,    \* event_connections: [a, b, direction, step, grounded]
          unbacked  \* events not mapped, merged into another, or without evidence

exposureVars == <<links, unbacked>>
-----------------------------------------------------------------------------
(* The loaded graph.                                                       *)

Backed == Nodes \ unbacked
MostImportant(S, n) == {e \in S : Cardinality({f \in S : f < e}) < n}

\* ORDER BY connection_weight DESC LIMIT n, ties one way or another.
Strongest(S, n) ==
    {r \in S : Cardinality({q \in S : q.step < r.step \/ (q.step = r.step /\ q.a + q.b * q.b < r.a + r.b * r.b)}) < n}

\* A link as the engine sees it: from cause to effect, both ways if undirected.
Oriented(r) ==
    LET there == [from |-> r.a, to |-> r.b, step |-> r.step, grounded |-> r.grounded]
        back == [from |-> r.b, to |-> r.a, step |-> r.step, grounded |-> r.grounded]
    IN  IF r.direction = "a_to_b" THEN {there} ELSE IF r.direction = "b_to_a" THEN {back}
        ELSE {there, back}

LoadFrom(rows, S) ==
    [events |-> S, flows |-> UNION {Oriented(r) : r \in Strongest({q \in rows : {q.a, q.b} \subseteq S}, EdgeLimit)}]
LoadGraph(S) == LoadFrom(links, S)
Slice(limit) == LoadGraph(MostImportant(Backed, limit))
Neighbourhood(root) ==
    LoadGraph(Backed \cap ({root} \cup UNION {{r.a, r.b} : r \in {q \in links : root \in {q.a, q.b}}}))
-----------------------------------------------------------------------------
(* Corroboration: other feeds that converge on an event.                   *)

Corroborating(S, e) ==
    {FeedOf[o] : o \in {x \in S \ {e} : {x, e} \in Converging
                                         /\ FeedOf[x] \notin {NoFeed, FeedOf[e]}}}
Backing(S) == [e \in S |-> Cardinality(Corroborating(S, e))]
Uncorroborated(S) == [e \in S |-> 0]

\* The uplift of the base shock, in fifths.
BaseOf(e, index) == BaseScore[e] * (5 + index)
-----------------------------------------------------------------------------
(* Katz diffusion over the flows, in units that shrink with every round.   *)

AbsInt(n) == IF n < 0 THEN -n ELSE n

PassOnShallow(x, fl, src) == \* mutant: only what the neighbour itself shocks
    IF src = fl.from THEN Gain[fl.step] * x.attr[fl.from][src] ELSE 0
PassOn(x, fl, src) == Gain[fl.step] * x.attr[fl.from][src]

Into(G, i) == {fl \in G.flows : fl.to = i}

\* One round: an event has its own shock and what the links into it pass on.
NextEffect(G, base, x) ==
    [i \in G.events |-> x.unit * Whole * base[i]
                         + SumFunction([fl \in Into(G, i) |-> Gain[fl.step] * x.eff[fl.from]])]
DiffuseOnce(G, base, x) ==
    LET unit == x.unit * Whole
        eff == NextEffect(G, base, x)
    IN  [eff |-> eff, unit |-> unit,
         attr |-> [i \in G.events |-> [src \in G.events |->
                     (IF src = i THEN unit * base[i] ELSE 0)
                     + SumFunction([fl \in Into(G, i) |-> PassOn(x, fl, src)])]],
         settled |-> \A i \in G.events : Tolerance * AbsInt(eff[i] - x.eff[i] * Whole) < unit]

DiffuseStart(G, base) ==
    [eff |-> base, unit |-> 1, settled |-> FALSE,
     attr |-> [i \in G.events |-> [src \in G.events |-> IF src = i THEN base[i] ELSE 0]]]

\* Rounds until an effect moves less than EPSILON, MAX_ITERS at most.
DiffuseFrom(G, base) ==
    LET round[k \in 0..MaxIters] ==
            IF k = 0 THEN DiffuseStart(G, base)
            ELSE LET x == round[k - 1] IN IF x.settled THEN x ELSE DiffuseOnce(G, base, x)
    IN  round[MaxIters]

Shocks(G, corroboration) == [e \in G.events |-> BaseOf(e, corroboration[e])]
Diffuse(G, corroboration) == DiffuseFrom(G, Shocks(G, corroboration))
-----------------------------------------------------------------------------
(* The exposure model.                                                     *)

Targets(G) == {i[1] : i \in UNION {Emits[e] : e \in G.events}}

\* What each event contributes to a target, mitigation counted negative.
Parts(G, x, target) ==
    [src \in G.events |->
       SumFunction([e \in G.events |->
         SumFunction([i \in {j \in Emits[e] : j[1] = target} |-> i[3] * i[2] * x.attr[e][src]])])]
Gained(parts) == SumFunction([s \in DOMAIN parts |-> IF parts[s] > 0 THEN parts[s] ELSE 0])
Relieved(parts) == SumFunction([s \in DOMAIN parts |-> IF parts[s] < 0 THEN -parts[s] ELSE 0])

\* An increasing function below 100, for 100 * (1 - e^(-net/K)).
Saturate(net, unit) == IF net <= 0 THEN 0 ELSE (100 * net) \div (net + 20 * unit)
Stressed(score, half) == score + ((100 - score) * half) \div 4

SectorScore(G, x, target) ==
    LET parts == Parts(G, x, target)
    IN  Stressed(Saturate(Gained(parts) - Relieved(parts), x.unit), Stress[target])

\* Stress also brings in a sector no event reaches.
ShownTargets(G) == Targets(G) \cup {t \in DOMAIN Stress : Stress[t] > 0}

ComputeExposure(G, corroboration) ==
    LET x == Diffuse(G, corroboration)
    IN  [scores |-> [t \in ShownTargets(G) |-> IF t \in Targets(G) THEN SectorScore(G, x, t)
                                        ELSE Stressed(0, Stress[t])],
         drivers |-> [t \in Targets(G) |-> {s \in G.events : Parts(G, x, t)[s] > 0}],
         drive |-> [s \in G.events |-> SumFunction([t \in Targets(G) |-> AbsInt(Parts(G, x, t)[s])])]]

Exposed(limit) ==
    LET G == Slice(limit) IN ComputeExposure(G, Backing(G.events))
GetExposure(tier) == Exposed(IF tier = "free" THEN FreeLimit ELSE PaidLimit)

\* The hourly snapshot has its own call, without corroboration.
Snapshot == LET G == Slice(PaidLimit) IN ComputeExposure(G, Uncorroborated(G.events))

\* profile_exposure(), over 20: 0.65 of the largest match and 0.35 of the mean.
ProfileExposure(model, wanted) ==
    LET matches == wanted \cap DOMAIN model.scores
        sum == SumFunction([t \in matches |-> model.scores[t]])
    IN  IF matches = {} THEN 0
        ELSE (13 * Max({model.scores[t] : t \in matches}) * Cardinality(matches) + 7 * sum)
             \div (20 * Cardinality(matches))
-----------------------------------------------------------------------------
(* The consequence chain: the strongest path from a root, by lazy Dijkstra *)
(* on the sum of steps, cut at a number of hops.                           *)

\* More than any chain of so many links can cost.
Unreached(depth) == depth * Len(Gain) + 1
Heavier(p, q) ==  \* heap order: strength, then hops, then identity
    \/ p[1] < q[1] \/ (p[1] = q[1] /\ p[2] < q[2])
    \/ (p[1] = q[1] /\ p[2] = q[2] /\ p[3] < q[3])

Better(cost, best) == cost < best

Expand(G, root, groundedOnly, s, top) ==
    LET u == top[3]
        better == {fl \in G.flows :
                     /\ fl.from = u /\ fl.to # root
                     /\ groundedOnly => fl.grounded
                     /\ Better(top[1] + fl.step, s.best[fl.to])}
        flowTo(v) == CHOOSE fl \in better : fl.to = v
        hit == {fl.to : fl \in better}
        cost(v) == top[1] + flowTo(v).step
    IN  [best |-> [v \in DOMAIN s.best |-> IF v \in hit THEN cost(v) ELSE s.best[v]],
         depth |-> [v \in DOMAIN s.depth |-> IF v \in hit THEN top[2] + 1 ELSE s.depth[v]],
         hop |-> [v \in DOMAIN s.hop |-> IF v \in hit THEN flowTo(v) ELSE s.hop[v]],
         heap |-> (s.heap \ {top}) \cup {<<cost(v), top[2] + 1, v>> : v \in hit}]

\* The next entry of the heap: stale, at the last hop, or expanded.
Pop(G, root, depth, groundedOnly, s) ==
    LET top == CHOOSE p \in s.heap : \A q \in s.heap \ {p} : Heavier(p, q)
        stale == top[1] > s.best[top[3]] \/ top[2] > s.depth[top[3]]
    IN  IF stale \/ top[2] >= depth THEN [s EXCEPT !.heap = @ \ {top}]
        ELSE Expand(G, root, groundedOnly, s, top)

\* An entry is only pushed when an event gets cheaper, which cannot go on.
MaxPops(ids, depth) == Cardinality(ids) * Unreached(depth) + 1

Walk(G, root, depth, groundedOnly) ==
    LET ids == G.events \cup {root}
        none == [from |-> root, to |-> root, step |-> 0, grounded |-> FALSE]
        start == [best |-> [v \in ids |-> IF v = root THEN 0 ELSE Unreached(depth)],
                  depth |-> [v \in ids |-> IF v = root THEN 0 ELSE depth],
                  hop |-> [v \in ids |-> none], heap |-> {<<0, 0, root>>}]
        after[n \in 0..MaxPops(ids, depth)] ==
            IF n = 0 THEN start
            ELSE LET s == after[n - 1]
                 IN  IF s.heap = {} THEN s ELSE Pop(G, root, depth, groundedOnly, s)
    IN  after[MaxPops(ids, depth)]

TraceConsequences(G, root, depth, groundedOnly) ==
    LET s == Walk(G, root, depth, groundedOnly)
    IN  [best |-> s.best, depth |-> s.depth, hop |-> s.hop,
         reached |-> {v \in G.events \ {root} : s.best[v] < Unreached(depth)}]

GetTrace(root, depth, groundedOnly) ==
    TraceConsequences(Neighbourhood(root), root, depth, groundedOnly)
-----------------------------------------------------------------------------
(* The graph endpoints.                                                    *)

GetWorldGraph(tier) ==
    LET nodes == MostImportant(Backed, IF tier = "free" THEN FreeLimit ELSE PaidLimit)
    IN  [nodes |-> nodes,
         edges |-> IF tier = "free" THEN {} ELSE {r \in links : {r.a, r.b} \subseteq nodes}]
GetEventGraph(root) ==
    LET near == {r \in links : root \in {r.a, r.b}}
    IN  [connected |-> (UNION {{r.a, r.b} : r \in near} \ {root}) \cap Backed, connections |-> near]
-----------------------------------------------------------------------------
ExposureInit == links = {} /\ unbacked = {}

\* The graph worker links two events.
LinkMade(r) ==
    /\ \A q \in links : {q.a, q.b} # {r.a, r.b}
    /\ links' = links \cup {r}
    /\ UNCHANGED unbacked

\* An event is merged into another or loses its articles.
LosesBacking(e) ==
    /\ e \notin unbacked /\ Cardinality(unbacked) < MaxUnbacked
    /\ unbacked' = unbacked \cup {e}
    /\ UNCHANGED links

ExposureNext ==
    \/ \E r \in Menu : LinkMade(r)
    \/ \E e \in Nodes : LosesBacking(e)
ExposureSpec == ExposureInit /\ [][ExposureNext]_exposureVars
-----------------------------------------------------------------------------
\* What an event is attributed to the others adds up to its effect, in each
\* sum the diffusion makes, cycles and early stop included.
AttributionAddsUp ==
    LET G == Slice(PaidLimit)  x == Diffuse(G, Backing(G.events))
    IN  \A i \in G.events : SumFunction(x.attr[i]) = x.eff[i]

\* The effect along all causal paths of n links or fewer.
PathSums(G, base, n) ==
    LET sum[k \in 0..n] ==
            IF k = 0 THEN [eff |-> base, unit |-> 1]
            ELSE LET x == sum[k - 1] IN [eff |-> NextEffect(G, base, x), unit |-> x.unit * Whole]
    IN  sum[n]

\* When links only lead from earlier to later events (here: upwards in the numbering)
\* a diffusion with rounds enough settles, on no more than the sum over all causal
\* paths, and on exactly that unless it stopped while effects still moved.
DiffusionIsThePathSum ==
    LET G == Slice(PaidLimit)
        base == Shocks(G, Backing(G.events))
        x == DiffuseFrom(G, base)
        paths == PathSums(G, base, Cardinality(G.events))
    IN  (\A r \in links : r.direction = "a_to_b" /\ r.a < r.b) =>
            /\ MaxIters > Cardinality(G.events) => x.settled
            /\ \A i \in G.events : x.eff[i] * paths.unit <= paths.eff[i] * x.unit
            /\ (\A i \in G.events : NextEffect(G, base, x)[i] = x.eff[i] * Whole) =>
                 \A i \in G.events : x.eff[i] * paths.unit = paths.eff[i] * x.unit

\* An event without backing shows nowhere, though its links stay: not as a driver,
\* a stage on a path or an end of a drawn link.
UnbackedIsInert ==
    LET kept == {r \in links : {r.a, r.b} \cap unbacked = {}}
    IN  /\ \A t \in {"free", "paid"} :
             /\ GetWorldGraph(t).nodes \cap unbacked = {} /\ GetWorldGraph(t).edges \subseteq kept
             /\ DOMAIN GetExposure(t).drive \cap unbacked = {}
        /\ \A root \in Nodes :
             /\ GetEventGraph(root).connected \cap unbacked = {}
             /\ LET t == GetTrace(root, 3, FALSE)
                IN  \A v \in t.reached : {v, t.hop[v].from} \cap unbacked = {}

\* All walks of n links or fewer from a root that do not come back to it: where each
\* ends, what it costs and how many links it has.
Walks(G, root, groundedOnly, n) ==
    LET w[k \in 0..n] ==
          IF k = 0 THEN {<<root, 0>>}
          ELSE {<<x[2].to, x[1][2] + x[2].step>> :
                  x \in {y \in w[k - 1] \X G.flows :
                           y[2].from = y[1][1] /\ y[2].to # root /\ (groundedOnly => y[2].grounded)}}
    IN  UNION {{<<x[1], x[2], k>> : x \in w[k]} : k \in 1..n}

\* The chain reports a walk of at most depth links of exactly the strength it
\* says, and finds the strongest path whenever no strongest path is longer.
TraceIsStrongest ==
    \A root \in Nodes, groundedOnly \in BOOLEAN, depth \in 1..3 :
        LET G == LoadGraph(Backed)
            walks == Walks(G, root, groundedOnly, Cardinality(G.events) + 2 * depth)
            t == TraceConsequences(G, root, depth, groundedOnly)
            to(v) == {x \in walks : x[1] = v}
            costs(v) == {x[2] : x \in to(v)}
        IN  root \in Backed => \A v \in Backed \ {root} :
              /\ v \in t.reached =>
                   /\ t.depth[v] \in 1..depth /\ <<v, t.best[v], t.depth[v]>> \in walks
                   /\ t.hop[v].to = v /\ t.depth[v] = t.depth[t.hop[v].from] + 1
                   /\ t.best[v] = t.best[t.hop[v].from] + t.hop[v].step
              /\ to(v) # {} /\ (\A x \in to(v) : x[2] = Min(costs(v)) => x[3] <= depth)
                   => v \in t.reached /\ t.best[v] = Min(costs(v))

\* Another link never takes effect away from an event, nor does it shorten the
\* diffusion so that less arrives.
LinksOnlyAddEffect ==
    LET G == Slice(PaidLimit)  x == Diffuse(G, Uncorroborated(G.events))
    IN  Cardinality(links) <= EdgeLimit => \A r \in links :
          LET y == Diffuse(LoadFrom(links \ {r}, G.events), Uncorroborated(G.events))
          IN  \A i \in G.events : x.eff[i] * y.unit >= y.eff[i] * x.unit

\* Whatever stress, mitigation and diffusion do, a score stays in 0..100, a
\* profile's lies between the least and the greatest of its matches, and is 0
\* for a profile that matches nothing.
ScoresStayInScale ==
    \A model \in {GetExposure("free"), GetExposure("paid"), Snapshot} :
            /\ \A t \in DOMAIN model.scores : model.scores[t] \in 0..100
            /\ \A wanted \in SUBSET DOMAIN Stress :
                 LET scores == {model.scores[t] : t \in wanted \cap DOMAIN model.scores}
                 IN  ProfileExposure(model, wanted) \in
                       IF scores = {} THEN {0} ELSE Min(scores)..Max(scores)

\* consequence_engine/propagation.py and tracer.py: scores, their attribution, the
\* diffusion over links and the traced paths are those of the definitions above.
ScoresAreExplained ==
    /\ AttributionAddsUp /\ DiffusionIsThePathSum
    /\ UnbackedIsInert /\ TraceIsStrongest /\ LinksOnlyAddEffect /\ ScoresStayInScale
=============================================================================
