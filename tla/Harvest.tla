------------------------------- MODULE Harvest -------------------------------
(***************************************************************************)
(* The health of the news sources: scrapers/engine.py and                  *)
(* workers/scrape_worker.py.  A run loads every active source, reads each  *)
(* that is not quarantined and commits once; two runs overlap when the     *)
(* worker is triggered by hand, and each writes the columns it changed.    *)
(* Time is counted in ages, as far as something is compared with them.     *)
(***************************************************************************)
EXTENDS Naturals

CONSTANTS
    Feeds,      \* sources rows that name something to fetch
    Pages,      \* those of them whose scrape_method is bs4 or playwright
    Runs,
    Nightly,    \* the run that the scheduler makes again and again
    QuarantineAfter, RetryAfter, StaleAfter,
    Never,      \* NULL
    MaxLost     \* bound on the runs that die or whose commit is refused, and on
                \* the visits that raise

ASSUME HarvestAssumption ==
    /\ Pages \subseteq Feeds /\ Nightly \in Runs
    /\ {QuarantineAfter, RetryAfter} \subseteq Nat \ {0} /\ StaleAfter \in Nat /\ MaxLost \in Nat
    /\ Never \notin Nat

Ages(n) == 0 .. n \cup {Never}
Older(age, n) == IF age = Never \/ age = n THEN age ELSE age + 1

VARIABLES
    source,   \* per feed: scrape_error_count (kept up to the bar) and the ages of
              \* last_scraped_at and last_article_at
    switchedOn, \* is_active
    dead,     \* feeds that cannot be read at present
    harvest,  \* per run: what it has left to visit, the counts it loaded, its copy
              \* of the rows, which of them it changed, which gave something new,
              \* which it could not make use of and at which of these it raised
    failures, \* history: how often in a row a visit to the feed failed
    given,    \* history: the age of the last delivery that is stored
    overlapped, \* history: two runs were under way at once
    lost

harvestVars == <<source, switchedOn, dead, harvest, failures, given, overlapped, lost>>

AtRest == [on |-> FALSE, todo |-> {}, loaded |-> <<>>, row |-> <<>>, touched |-> {},
           fresh |-> {}, unread |-> {}, stumbled |-> {}]
-----------------------------------------------------------------------------
HarvestInit ==
    /\ source = [f \in Feeds |-> [count |-> 0, read |-> Never, gave |-> Never]]
    /\ switchedOn = Feeds /\ dead = {}
    /\ harvest = [r \in Runs |-> AtRest]
    /\ failures = [f \in Feeds |-> 0] /\ given = [f \in Feeds |-> Never]
    /\ overlapped = FALSE /\ lost = 0

Begin(r) ==
    /\ ~harvest[r].on
    /\ harvest' = [harvest EXCEPT ![r] =
           [AtRest EXCEPT !.on = TRUE, !.todo = switchedOn, !.row = source,
                          !.loaded = [f \in Feeds |-> source[f].count]]]
    /\ overlapped' = (overlapped \/ \E q \in Runs : harvest[q].on)
    /\ UNCHANGED <<source, switchedOn, dead, failures, given, lost>>

IsRetired(row) == row.count >= QuarantineAfter /\ row.read # Never \* mutant: never probed again
IsQuarantined(row) ==
    row.count >= QuarantineAfter /\ row.read # Never /\ row.read < RetryAfter

Skip(r, f) ==
    /\ f \in harvest[r].todo /\ IsQuarantined(harvest[r].row[f])
    /\ harvest' = [harvest EXCEPT ![r].todo = @ \ {f}]
    /\ UNCHANGED <<source, switchedOn, dead, failures, given, overlapped, lost>>

Atop(n) == IF n < QuarantineAfter THEN n + 1 ELSE n

\* fetch_rss answers None for a feed it cannot read; the two page scrapers answer
\* with no articles, which counts as a reading.
SeenDead(f) == f \in dead \ Pages

AfterReading(row, isNew) ==
    [count |-> 0, read |-> 0, gave |-> IF isNew THEN 0 ELSE row.gave]
Forgives(row) == [row EXCEPT !.read = 0] \* mutant: only an exception counts as an error
AfterFailure(row) == [row EXCEPT !.count = Atop(@), !.read = 0]

Visit(r, f) ==
    /\ f \in harvest[r].todo /\ ~IsQuarantined(harvest[r].row[f])
    /\ \E isNew \in BOOLEAN :
        /\ isNew => f \notin dead
        /\ harvest' = [harvest EXCEPT
               ![r].todo = @ \ {f},
               ![r].row[f] = IF SeenDead(f) THEN AfterFailure(@) ELSE AfterReading(@, isNew),
               ![r].touched = @ \cup {f},
               ![r].fresh = IF isNew THEN @ \cup {f} ELSE @,
               ![r].unread = IF f \in dead THEN @ \cup {f} ELSE @]
    /\ UNCHANGED <<source, switchedOn, dead, failures, given, overlapped, lost>>

\* What a feed answered cannot be parsed or stored, and the database knows nothing of
\* it: the visit raises before the row is stamped, and only the count goes up.
Stumble(r, f) ==
    /\ f \in harvest[r].todo /\ ~IsQuarantined(harvest[r].row[f])
    /\ ~SeenDead(f) /\ lost < MaxLost
    /\ lost' = lost + 1
    /\ harvest' = [harvest EXCEPT
           ![r].todo = @ \ {f},
           ![r].row[f].count = Atop(@),
           ![r].touched = @ \cup {f},
           ![r].unread = @ \cup {f},
           ![r].stumbled = @ \cup {f}]
    /\ UNCHANGED <<source, switchedOn, dead, failures, given, overlapped>>

\* The visits that made the count go up.
Counted(h) == (h.unread \ Pages) \cup h.stumbled

\* A column is written when its value differs from the one that was loaded.
Written(f, h) ==
    [count |-> IF h.row[f].count # h.loaded[f] \/ f \in Counted(h) THEN h.row[f].count ELSE source[f].count,
     read  |-> IF f \in h.stumbled THEN source[f].read ELSE h.row[f].read,
     gave  |-> IF f \in h.fresh THEN h.row[f].gave ELSE source[f].gave]

CommitFeeds(r) ==
    LET h == harvest[r]
    IN  /\ h.on /\ h.todo = {}
        /\ source' = [f \in Feeds |-> IF f \in h.touched THEN Written(f, h) ELSE source[f]]
        /\ failures' = [f \in Feeds |-> IF f \in h.unread THEN Atop(failures[f])
                                        ELSE IF f \in h.touched THEN 0 ELSE failures[f]]
        /\ given' = [f \in Feeds |-> IF f \in h.fresh /\ (given[f] = Never \/ given[f] > h.row[f].gave)
                                     THEN h.row[f].gave ELSE given[f]]
        /\ harvest' = [harvest EXCEPT ![r] = AtRest]
        /\ UNCHANGED <<switchedOn, dead, overlapped, lost>>

\* One row the database refuses fails every later statement and the commit.
Lose(r) ==
    /\ harvest[r].on /\ lost < MaxLost
    /\ lost' = lost + 1
    /\ harvest' = [harvest EXCEPT ![r] = AtRest]
    /\ UNCHANGED <<source, switchedOn, dead, failures, given, overlapped>>

Toggle(f) ==
    /\ switchedOn' = IF f \in switchedOn THEN switchedOn \ {f} ELSE switchedOn \cup {f}
    /\ UNCHANGED <<source, dead, harvest, failures, given, overlapped, lost>>

Outage(f) ==
    /\ dead' = IF f \in dead THEN dead \ {f} ELSE dead \cup {f}
    /\ UNCHANGED <<source, switchedOn, harvest, failures, given, overlapped, lost>>

Aged(row) == [row EXCEPT !.read = Older(@, RetryAfter), !.gave = Older(@, StaleAfter + 1)]

Tick ==
    /\ source' = [f \in Feeds |-> Aged(source[f])]
    /\ harvest' = [r \in Runs |->
           IF harvest[r].on
           THEN [harvest[r] EXCEPT !.row = [f \in Feeds |-> Aged(harvest[r].row[f])]]
           ELSE harvest[r]]
    /\ given' = [f \in Feeds |-> Older(given[f], StaleAfter + 1)]
    /\ UNCHANGED <<switchedOn, dead, failures, overlapped, lost>>

HarvestNext ==
    \/ \E r \in Runs : Begin(r) \/ CommitFeeds(r) \/ Lose(r)
                       \/ \E f \in Feeds : Skip(r, f) \/ Visit(r, f) \/ Stumble(r, f)
    \/ \E f \in Feeds : Toggle(f) \/ Outage(f)
    \/ Tick

\* The scheduler makes its runs, a run gets through its list, time passes.
HarvestFairness ==
    /\ WF_harvestVars(Begin(Nightly)) /\ WF_harvestVars(Tick)
    /\ \A r \in Runs :
        /\ WF_harvestVars(CommitFeeds(r))
        /\ \A f \in Feeds : WF_harvestVars(Skip(r, f) \/ Visit(r, f))

HarvestSpec == HarvestInit /\ [][HarvestNext]_harvestVars /\ HarvestFairness
-----------------------------------------------------------------------------

\* feed_health, of a row that names something to fetch.
Health(f) ==
    CASE f \notin switchedOn                     -> "disabled"
      [] f \in switchedOn /\ source[f].count >= QuarantineAfter -> "quarantined"
      [] f \in switchedOn /\ source[f].count \in 1 .. QuarantineAfter - 1 -> "failing"
      [] f \in switchedOn /\ source[f].count = 0 /\ source[f].gave = Never -> "never_yielded"
      [] OTHER -> IF source[f].gave > StaleAfter THEN "stalled" ELSE "ok"

\* engine.py:76, "Never guesses in its own favour": whichever runs overlapped, a feed
\* that the console shows as sound was read when it was last tried, and one shown as
\* ok delivered something lately.  The first is true of RSS feeds alone: no failure of
\* a page scraper is ever counted.
HealthNeverFlatters ==
    \A f \in Feeds :
        /\ f \notin Pages /\ Health(f) \in {"never_yielded", "stalled", "ok"} => failures[f] = 0
        /\ Health(f) = "ok" => given[f] # Never /\ given[f] <= StaleAfter

\* engine.py:37, "failed this many consecutive cycles": a feed is passed over only if
\* it could not be read that often in a row. Runs that overlap lose each other's
\* counts, so this is about the rest.
QuarantineIsEarned ==
    overlapped \/ \A f \in Feeds : IsQuarantined(source[f]) => failures[f] >= QuarantineAfter

\* What the console and the scheduler conclude from a row is what the feed did:
\* neither too kind to it nor too hard on it.
HealthIsEarned == HealthNeverFlatters /\ QuarantineIsEarned

\* engine.py:42-45, "NEVER retired permanently ... the feed rejoins the rotation on its
\* own": a feed that can be read again and stays switched on is in the end no longer
\* counted as failing, however long it was dead.
ReturningFeedRejoins ==
    \A f \in Feeds : <>[](f \in switchedOn \ dead) => <>[](source[f].count = 0)
=============================================================================
