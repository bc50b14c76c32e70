------------------------------- MODULE Readers -------------------------------
(***************************************************************************)
(* What readers are shown: the event list and the drill-in                 *)
(* (api/routes/events.py), the personal feed (api/routes/feed.py) over the *)
(* cache that workers/feed_worker.py builds, the one rule of               *)
(* consequence_engine/evidence.py about what can be backed up, the         *)
(* administrator's override (api/routes/admin.py) and the re-synthesis of  *)
(* thin maps (admin/resynthesize_maps.py).  The pipeline changes the       *)
(* events underneath.                                                      *)
(***************************************************************************)
EXTENDS Rows, FiniteSets, SequencesExt

CONSTANTS
    Reports,    \* events
    Origin,     \* per event: "cluster" (source NULL), "osint" or "official"
    Publishers, \* registrable domains
    Labels,     \* names of the feeds they reach us under
    CacheSize, PaidSize, FreeSize, \* FEED_SIZE and the limits of the route
    MaxMaps, MaxChanges            \* bounds

ASSUME ReadersAssumption ==
    /\ IsFiniteSet(Reports) /\ Origin \in [Reports -> {"cluster", "osint", "official"}]
    /\ CacheSize \in Nat \ {0} /\ FreeSize \in Nat /\ PaidSize \in Nat /\ FreeSize <= PaidSize

VARIABLES
    status,  \* per event: mapped, merged, resolved
    papers,  \* per event: the <<publisher, label>> pairs of its articles
    charts,  \* per event: its consequence maps, in the order they were written
    ranking, \* the events by importance
    segment, \* the cached feed of a segment; empty without one
    changes

readersVars == <<status, papers, charts, ranking, segment, changes>>
-----------------------------------------------------------------------------
ReadersInit ==
    /\ status = [e \in Reports |-> [mapped |-> FALSE, merged |-> FALSE, resolved |-> FALSE]]
    /\ papers = [e \in Reports |-> {}]
    /\ charts = [e \in Reports |-> <<>>]
    /\ ranking = SetToSeq(Reports)
    /\ segment = <<>> /\ changes = 0

Changed == changes < MaxChanges /\ changes' = changes + 1

\* The pipeline: an event is mapped (with a map), waits to be mapped again when an
\* article joins, is merged away, resolved, or loses its articles.
GetsArticle(e, p, l) ==
    /\ Changed
    /\ papers' = [papers EXCEPT ![e] = @ \cup {<<p, l>>}]
    /\ status' = [status EXCEPT ![e].mapped = FALSE]
    /\ UNCHANGED <<charts, ranking, segment>>

LosesArticles(e) ==
    /\ Changed /\ papers' = [papers EXCEPT ![e] = {}]
    /\ UNCHANGED <<status, charts, ranking, segment>>

Sets(e, field) ==
    /\ Changed /\ ~status[e][field]
    /\ status' = [status EXCEPT ![e][field] = TRUE]
    /\ UNCHANGED <<papers, charts, ranking, segment>>

Chart(version, thin) == [version |-> version, thin |-> thin, suppressed |-> FALSE]

IsMapped(e, thin) ==
    /\ Changed /\ ~status[e].mapped /\ Len(charts[e]) < MaxMaps
    /\ status' = [status EXCEPT ![e].mapped = TRUE]
    /\ charts' = [charts EXCEPT ![e] = Append(@, Chart(Len(@) + 1, thin))]
    /\ UNCHANGED <<papers, ranking, segment>>
-----------------------------------------------------------------------------
\* evidence.py: the SQL predicate, its mirror in Python, and what an outlet is.
ArticleDerived(e) == Origin[e] \in {"cluster", "osint"}
Evidenced(e) == papers[e] # {} \/ ~ArticleDerived(e)

Outlets(e) == {a[1] : a \in papers[e]}

EvidenceLabel(e) ==
    IF Outlets(e) # {} THEN "sourced"
    ELSE IF ArticleDerived(e) THEN "severed" ELSE "official_feed"

First(n, s) == SubSeq(s, 1, IF n < Len(s) THEN n ELSE Len(s))
Limit(tier) == IF tier = "free" THEN FreeSize ELSE PaidSize

Gated(e) == ~status[e].merged /\ Evidenced(e)

\* The rows of a query, in its order, that meet its conditions.
Ranked == Meeting(ranking, {e \in Reports : status[e].mapped /\ Gated(e)})

\* list_events without filters.
EventList(tier) == First(Limit(tier), Ranked)

\* get_feed: gate the cached list, then slice; without a cache, rank by importance.
CacheAsBuilt(tier) == First(Limit(tier), segment) \* mutant: only the worker gates
CachedFeed(tier) == First(Limit(tier), Meeting(segment, {e \in Reports : Gated(e)}))

Feed(tier) == IF segment = <<>> THEN First(Limit(tier), Ranked) ELSE CachedFeed(tier)

\* The map that every route shows: the highest version that is not suppressed.
Unsuppressed(e) == SelectSeq(charts[e], LAMBDA c : ~c.suppressed)
Newest(s) == CHOOSE i \in DOMAIN s : \A j \in DOMAIN s :
    \/ s[j].version < s[i].version
    \/ s[j].version = s[i].version /\ j <= i
ShownMap(e) == IF Unsuppressed(e) = <<>> THEN <<>> ELSE <<Unsuppressed(e)[Newest(Unsuppressed(e))]>>

\* build_feed_for_segment: mapped and unresolved, merged and severed ones too; how
\* the segment ranks them is its own business.
RebuildFeed ==
    \E s \in SetToSeqs({e \in Reports : status[e].mapped /\ ~status[e].resolved}) :
        /\ segment' = First(CacheSize, s)
        /\ UNCHANGED <<status, papers, charts, ranking, changes>>
-----------------------------------------------------------------------------
\* override_event: an importance puts the event first, and a takedown marks the
\* latest map, suppressed or not.
Override(e, suppress) ==
    /\ Changed
    /\ ranking' = <<e>> \o Meeting(ranking, Reports \ {e})
    /\ charts' = IF charts[e] = <<>> THEN charts
                 ELSE [charts EXCEPT ![e][Newest(charts[e])].suppressed = suppress]
    /\ UNCHANGED <<status, papers, segment>>

\* resynthesize_maps --apply: a feed event whose shown map is thin gets a full one
\* in place, one that shows none a map of version 1.
Thin(e) == ShownMap(e) # <<>> => ShownMap(e)[1].thin

Resynthesize ==
    /\ \E e \in Reports : Origin[e] # "cluster" /\ ~status[e].merged /\ Thin(e)
    /\ Changed
    /\ charts' = [e \in Reports |->
            IF Origin[e] = "cluster" \/ status[e].merged \/ ~Thin(e) THEN charts[e]
            ELSE IF ShownMap(e) = <<>> THEN Append(charts[e], Chart(1, FALSE))
            ELSE [i \in DOMAIN charts[e] |->
                    IF charts[e][i] = ShownMap(e)[1] THEN [charts[e][i] EXCEPT !.thin = FALSE]
                    ELSE charts[e][i]]]
    /\ UNCHANGED <<status, papers, ranking, segment>>

ReadersNext ==
    \/ \E e \in Reports :
        \/ \E p \in Publishers, l \in Labels : GetsArticle(e, p, l)
        \/ LosesArticles(e)
        \/ Sets(e, "merged") \/ Sets(e, "resolved")
        \/ \E thin \in BOOLEAN : IsMapped(e, thin)
        \/ \E suppress \in BOOLEAN : Override(e, suppress)
    \/ RebuildFeed
    \/ Resynthesize

ReadersSpec == ReadersInit /\ [][ReadersNext]_readersVars
-----------------------------------------------------------------------------
Shown(tier) == Range(EventList(tier)) \cup Range(Feed(tier))

\* evidence.py:4, "One rule, applied by every route that serves events": however
\* stale the cached feed is, what either route shows has not been folded into
\* another event and is not labelled severed; and a free reader sees a beginning of
\* what a paying one sees.
OneRuleOnEveryRoute ==
    /\ \A tier \in {"free", "paid"} : \A e \in Shown(tier) :
            ~status[e].merged /\ EvidenceLabel(e) # "severed"
    /\ IsPrefix(Feed("free"), Feed("paid")) /\ IsPrefix(EventList("free"), EventList("paid"))
=============================================================================
