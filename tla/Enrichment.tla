----------------------------- MODULE Enrichment -----------------------------
(***************************************************************************)
(* What is known of an address, a domain, a vulnerability, a file or a     *)
(* wallet: services/osint_enrich.py asks the keyless providers of its kind *)
(* one after the other, projects a consequence from what they say and      *)
(* keeps the answer in Redis for a while.                                  *)
(***************************************************************************)
EXTENDS Naturals, Sequences, SequencesExt

CONSTANTS
    Entities,
    Registered, \* per entity: the providers of its kind, in the order of PROVIDERS
    Reported,   \* per entity: those of them that have something on it
    Scored,     \* providers whose facts carry a CVSS score
    Score,      \* per provider of those: the importance that makes
    Base,       \* per entity: _BASE_IMPORTANCE of its kind
    Lookups,    \* requests that may be under way at once
    Asked       \* the one that is made again and again

AllProviders == UNION {Range(Registered[v]) : v \in Entities}

ASSUME EnrichmentAssumption ==
    /\ \A v \in Entities : Registered[v] \in Seq(AllProviders) /\ Reported[v] \subseteq Range(Registered[v])
    /\ Scored \subseteq AllProviders /\ Score \in [Scored -> 0 .. 100]
    /\ Base \in [Entities -> 0 .. 100]
    /\ Asked \in Lookups

VARIABLES
    down,    \* providers that fail or time out at present
    redis,   \* the cache can be reached
    inRedis, \* per entity: the payload in the cache, a sequence of length 0 or 1
    lookup,  \* per request: idle, or the entity, whom to ask yet and what was said
    shown    \* per entity: the answers given last, likewise

enrichVars == <<down, redis, inRedis, lookup, shown>>

Waiting == [of |-> "none", left |-> <<>>, facts |-> <<>>]
-----------------------------------------------------------------------------
EnrichmentInit ==
    /\ down = {} /\ redis = TRUE
    /\ inRedis = [v \in Entities |-> <<>>] /\ shown = [v \in Entities |-> <<>>]
    /\ lookup = [q \in Lookups |-> Waiting]

\* The first score named counts; without one the kind decides. (What a flagged address
\* or a named malware family adds is left out.)
ProjectConsequence(v, facts) ==
    LET scores == SelectSeq(facts, LAMBDA p : p \in Scored)
    IN  IF scores = <<>> THEN Base[v] ELSE Score[scores[1]]

Payload(v, facts) ==
    [facts |-> facts, importance |-> IF facts = <<>> THEN <<>> ELSE <<ProjectConsequence(v, facts)>>]

\* A cached answer is served as it was inRedis.
ServeCached(q, v) ==
    /\ lookup[q] = Waiting /\ redis /\ inRedis[v] # <<>>
    /\ shown' = [shown EXCEPT ![v] = inRedis[v]]
    /\ UNCHANGED <<down, redis, inRedis, lookup>>

Enrich(q, v) ==
    /\ lookup[q] = Waiting /\ (redis => inRedis[v] = <<>>)
    /\ lookup' = [lookup EXCEPT ![q] = [of |-> v, left |-> Registered[v], facts |-> <<>>]]
    /\ UNCHANGED <<down, redis, inRedis, shown>>

\* One provider that fails is passed over.
Fetch(q) ==
    LET l == lookup[q] IN
    /\ l # Waiting /\ l.left # <<>>
    /\ lookup' = [lookup EXCEPT
           ![q].left = Tail(l.left),
           ![q].facts = IF Head(l.left) \in Reported[l.of] \ down
                        THEN Append(l.facts, Head(l.left)) ELSE l.facts]
    /\ UNCHANGED <<down, redis, inRedis, shown>>

Respond(q) ==
    LET l == lookup[q]
        answer == Payload(l.of, l.facts)
    IN  /\ l # Waiting /\ l.left = <<>>
        /\ shown' = [shown EXCEPT ![l.of] = <<answer>>]
        /\ inRedis' = IF redis /\ l.facts # <<>> THEN [inRedis EXCEPT ![l.of] = <<answer>>] ELSE inRedis
        /\ lookup' = [lookup EXCEPT ![q] = Waiting]
        /\ UNCHANGED <<down, redis>>

KeptForGood(v) == FALSE /\ UNCHANGED enrichVars \* mutant: inRedis without a time to live
Expire(v) ==
    /\ inRedis[v] # <<>>
    /\ inRedis' = [inRedis EXCEPT ![v] = <<>>]
    /\ UNCHANGED <<down, redis, lookup, shown>>

ProviderFails(p) ==
    /\ down' = IF p \in down THEN down \ {p} ELSE down \cup {p}
    /\ UNCHANGED <<redis, inRedis, lookup, shown>>

RedisFails == redis' = ~redis /\ UNCHANGED <<down, inRedis, lookup, shown>>

EnrichmentNext ==
    \/ \E q \in Lookups : \/ \E v \in Entities : ServeCached(q, v) \/ Enrich(q, v)
                          \/ Fetch(q) \/ Respond(q)
    \/ \E v \in Entities : Expire(v)
    \/ \E p \in AllProviders : ProviderFails(p)
    \/ RedisFails

\* Each entity is looked up again and again, a request has time limits, and what Redis
\* keeps expires.
EnrichmentFairness ==
    /\ \A q \in Lookups : WF_enrichVars(Fetch(q)) /\ WF_enrichVars(Respond(q))
    /\ \A v \in Entities : /\ SF_enrichVars(ServeCached(Asked, v) \/ Enrich(Asked, v))
                           /\ WF_enrichVars(Expire(v))

EnrichmentSpec == EnrichmentInit /\ [][EnrichmentNext]_enrichVars /\ EnrichmentFairness
-----------------------------------------------------------------------------

InFull(v) == Payload(v, SelectSeq(Registered[v], LAMBDA p : p \in Reported[v]))

\* An answer that was composed while a provider was out is cached like any other, for
\* up to a week, with the importance it has without that provider's score: once the
\* providers answer for good, such answers cease, whatever Redis did meanwhile.
AnswersCatchUp ==
    \A v \in Entities : <>[](down = {}) => <>[](shown[v] \in {<<>>, <<InFull(v)>>})
=============================================================================
