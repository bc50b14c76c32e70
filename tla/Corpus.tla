------------------------------- MODULE Corpus -------------------------------
(***************************************************************************)
(* The tables every worker of the pipeline shares: `articles` and          *)
(* `narrative_events` (src/backend/models/article.py, narrative_event.py). *)
(* Only the columns that more than one component reads are here; a column  *)
(* one component owns is a variable of that component's module.            *)
(***************************************************************************)
EXTENDS Naturals, FiniteSetsExt

CONSTANTS
    Articles,   \* rows the `articles` table may come to hold
    Events,     \* rows the `narrative_events` table may come to hold
    NoEvent     \* NULL in articles.narrative_event_id

ASSUME CorpusAssumption == NoEvent \notin Events

VARIABLES
    events,     \* rows of narrative_events that are committed
    merged,     \* those folded into another one (merged_into_id is not NULL)
    home,       \* articles.narrative_event_id
    vectors     \* articles whose `embedding` column is not NULL

corpusVars == <<events, merged, home, vectors>>

CorpusTypeOK ==
    /\ events \subseteq Events
    /\ merged \subseteq events
    /\ home \in [Articles -> Events \cup {NoEvent}]
    /\ vectors \subseteq Articles

CorpusInit ==
    /\ events = {} /\ merged = {}
    /\ home = [a \in Articles |-> NoEvent]
    /\ vectors = {}

Members(e) == {a \in Articles : home[a] = e}

(* What `ORDER BY key DESC LIMIT n` may return of S: rows with equal keys  *)
(* come back in any order, so any of them may be the ones cut off.         *)
TopSets(S, n, key) ==
    {R \in SUBSET S :
        /\ Cardinality(R) = Min({n, Cardinality(S)})
        /\ \A a \in R, b \in S \ R : key[a] >= key[b]}
=============================================================================
