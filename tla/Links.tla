-------------------------------- MODULE Links --------------------------------
(***************************************************************************)
(* Evidence from Google News: feeds/rss_osint.py offers redirect links,    *)
(* feeds/gnews_resolve.py asks Google where they lead and remembers the    *)
(* answers in its process, the ingest stores each kept candidate's         *)
(* document (_persist_evidence of workers/hazard_ingest_worker.py), and    *)
(* scripts/backfill_gnews_urls.py repairs the redirects stored before.     *)
(* Two calls overlap in one process when a worker is triggered by hand.    *)
(***************************************************************************)
EXTENDS Naturals, Sequences, FiniteSets, SequencesExt

CONSTANTS
    Links,      \* article ids of Google News
    Address,    \* per link: the page it leads to
    Paper,      \* per page: its publisher, which the feed names too
    Story,      \* per link: the event its candidate becomes or is folded into
    Window,     \* links that the feeds offer again in every cycle
    News,       \* what they may offer before those
    Fetches,    \* calls under way at once
    Scheduled,  \* the one that the scheduler makes again and again
    Budget, MaxAttempts, CacheCap,
    MaxRestarts \* bound

ASSUME LinksAssumption ==
    /\ Window \in Seq(Links) /\ News \subseteq Seq(Links) /\ Scheduled \in Fetches
    /\ {Budget, MaxAttempts, CacheCap} \subseteq Nat \ {0} /\ MaxRestarts \in Nat

VARIABLES
    resolved, \* _RESOLVED, in the order of insertion
    attempts, \* _ATTEMPTS, in the order of insertion: <<link, count>>
    calls,
    papers,   \* articles rows: url, publisher, event
    forgotten,\* history: an entry was dropped to keep the memo small
    restarts

linksVars == <<resolved, attempts, calls, papers, forgotten, restarts>>

NoCall == [todo |-> {}, flying |-> {}, out |-> {}, offered |-> <<>>, asks |-> FALSE]
-----------------------------------------------------------------------------
LinksInit ==
    /\ resolved = <<>> /\ attempts = <<>> /\ papers = {}
    /\ calls = [f \in Fetches |-> NoCall]
    /\ forgotten = FALSE /\ restarts = 0

Known(i) == i \in Range(resolved)
Tries(i) == LET at == {k \in DOMAIN attempts : attempts[k][1] = i}
            IN  IF at = {} THEN 0 ELSE attempts[CHOOSE k \in at : TRUE][2]

Due(i) == ~Known(i) /\ Tries(i) < MaxAttempts

\* The links offered, each once, and of those that are due as many as the budget
\* allows; the remembered ones cost nothing.
Offer(f, news) ==
    /\ calls[f] = NoCall
    /\ LET offered == FoldLeft(LAMBDA s, i : IF i \in Range(s) THEN s ELSE Append(s, i),
                               <<>>, news \o Window)
           due == SelectSeq(offered, Due)
           todo == Range(SubSeq(due, 1, IF Len(due) < Budget THEN Len(due) ELSE Budget))
       IN  calls' = [calls EXCEPT ![f] =
               [todo |-> todo, flying |-> {}, out |-> {i \in Range(offered) : Known(i)},
                offered |-> offered, asks |-> todo # {}]]
    /\ UNCHANGED <<resolved, attempts, papers, forgotten, restarts>>

NotCounted(i) == attempts \* mutant: only answers are counted
Counted(i) ==
    IF Tries(i) = 0 THEN Append(attempts, <<i, 1>>)
    ELSE [k \in DOMAIN attempts |-> IF attempts[k][1] = i THEN <<i, attempts[k][2] + 1>> ELSE attempts[k]]

AskGoogle(f, i) ==
    /\ i \in calls[f].todo
    /\ calls' = [calls EXCEPT ![f].todo = @ \ {i}, ![f].flying = @ \cup {i}]
    /\ attempts' = Counted(i)
    /\ UNCHANGED <<resolved, papers, forgotten, restarts>>

\* An answer is remembered; whatever goes wrong keeps the redirect.
Answer(f, i, found) ==
    /\ i \in calls[f].flying
    /\ calls' = [calls EXCEPT ![f].flying = @ \ {i},
                              ![f].out = IF found THEN @ \cup {i} ELSE @]
    /\ resolved' = IF found /\ ~Known(i) THEN Append(resolved, i) ELSE resolved
    /\ attempts' = IF found THEN SelectSeq(attempts, LAMBDA a : a[1] # i) ELSE attempts
    /\ UNCHANGED <<papers, forgotten, restarts>>

Redirect(i) == <<"google", i>>
Page(i) == <<"page", Address[i]>>

\* url_hash is unique: a document that is stored is not stored again.
Persist(rows, url, i) ==
    IF \E d \in rows : d.url = url THEN rows
    ELSE rows \cup {[url |-> url, paper |-> Paper[Address[i]], event |-> Story[i]]}

Newest(s) == SubSeq(s, IF Len(s) > CacheCap THEN Len(s) - CacheCap + 1 ELSE 1, Len(s))

\* The memo is trimmed, the links are rewritten, and of the candidates those that
\* triage keeps are stored; none if the ingest does not commit.
Ingest(f, kept) ==
    LET c == calls[f]
    IN  /\ c # NoCall /\ c.todo = {} /\ c.flying = {}
        /\ kept \subseteq Range(c.offered)
        /\ resolved' = IF c.asks THEN Newest(resolved) ELSE resolved
        /\ attempts' = IF c.asks THEN Newest(attempts) ELSE attempts
        /\ forgotten' = (forgotten \/ resolved' # resolved \/ attempts' # attempts)
        /\ papers' = FoldLeft(
               LAMBDA rows, i : Persist(rows, IF i \in c.out THEN Page(i) ELSE Redirect(i), i),
               papers, SelectSeq(c.offered, LAMBDA i : i \in kept))
        /\ calls' = [calls EXCEPT ![f] = NoCall]
        /\ UNCHANGED restarts

\* A new process remembers nothing.
Restart ==
    /\ restarts < MaxRestarts
    /\ restarts' = restarts + 1
    /\ resolved' = <<>> /\ attempts' = <<>>
    /\ calls' = [f \in Fetches |-> NoCall]
    /\ UNCHANGED <<papers, forgotten>>

\* backfill_gnews_urls, one transaction of a process of its own: redirects it can
\* resolve get the page's address, unless a row has it.
Repaired(rows, i) ==
    IF \E d \in rows : d.url = Page(i) THEN rows
    ELSE {IF d.url = Redirect(i) THEN [d EXCEPT !.url = Page(i)] ELSE d : d \in rows}

RepairStored ==
    \E s \in SetToSeqs({i \in Links : \E d \in papers : d.url = Redirect(i)}) :
        \E n \in 1 .. Len(s) :
            /\ papers' = FoldLeft(Repaired, papers, SubSeq(s, 1, n))
            /\ UNCHANGED <<resolved, attempts, calls, forgotten, restarts>>

LinksNext ==
    \/ \E f \in Fetches :
        \/ \E news \in News : Offer(f, news)
        \/ \E i \in Links : AskGoogle(f, i) \/ \E found \in BOOLEAN : Answer(f, i, found)
        \/ \E kept \in SUBSET Links : Ingest(f, kept)
    \/ Restart
    \/ RepairStored

\* The scheduler calls again, requests have a time limit and a call that got its
\* answers returns.
LinksFairness ==
    /\ WF_linksVars(\E news \in News : Offer(Scheduled, news))
    /\ \A f \in Fetches :
        /\ \A i \in Links : WF_linksVars(AskGoogle(f, i))
        /\ \A i \in Links : WF_linksVars(\E found \in BOOLEAN : Answer(f, i, found))
        /\ WF_linksVars(\E kept \in SUBSET Links : Ingest(f, kept))

LinksSpec == LinksInit /\ [][LinksNext]_linksVars /\ LinksFairness
-----------------------------------------------------------------------------

\* gnews_resolve.py:26-28, "re-offered next cycle, so the backlog drains on its own":
\* however much news comes first, a link that stays on offer is resolved or given up,
\* and is again after a restart, as long as the memo holds.
BacklogDrains ==
    \A i \in Range(Window) : (\E f \in Fetches : i \in Range(calls[f].offered))
                            ~> (Known(i) \/ Tries(i) >= MaxAttempts \/ forgotten)

\* What evidence.outlet_key makes of a row.
OutletKey(d) == IF d.url[1] = "google" THEN "google" ELSE d.paper

\* routes/events.py:170-171, "one newsroom reaching us under two feed names cannot
\* corroborate itself": an event never counts more outlets than published it.
NoSelfCorroboration ==
    \A e \in Range(Story) :
        LET rows == {d \in papers : d.event = e}
        IN  Cardinality({OutletKey(d) : d \in rows}) <= Cardinality({d.paper : d \in rows})
=============================================================================
