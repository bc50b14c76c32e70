-------------------------------- MODULE Advice --------------------------------
(***************************************************************************)
(* The advice library: workers/advisory_worker.py over models/advisory.py. *)
(* The sheets of one authority about one country, which no other pair's    *)
(* rows touch.  A run stores what the authority serves, a savepoint per    *)
(* sheet, and commits once; the authority serves older snapshots again.    *)
(* A second host, or a run started by hand, may overlap the first.         *)
(***************************************************************************)
EXTENDS Naturals, FiniteSets, FiniteSetsExt

CONSTANTS
    Levels,
    LastDate,   \* publication dates are 1 .. LastDate; 0 is none
    Fullness,   \* sizes of text a snapshot of a sheet may have
    Librarians, \* runs that may be under way
    MaxSheets   \* bound: sheets served in all

ASSUME AdviceAssumption == LastDate \in Nat /\ Fullness \subseteq Nat /\ MaxSheets \in Nat

\* What _hash makes the identity of an advisory.
Sheet == [level : Levels, date : 0 .. LastDate]

VARIABLES
    library,  \* committed rows: sheet -> [current, text]
    draft,    \* per run: the rows it has written and not committed
    visit,    \* per run: the sheet under way and what has been read about it
    served,
    alone     \* history: no two runs have overlapped

adviceVars == <<library, draft, visit, served, alone>>

Home == [pc |-> "home"]
Between == [pc |-> "between"]
NoRows == [s \in {} |-> 0]
-----------------------------------------------------------------------------
AdviceInit ==
    /\ library = NoRows
    /\ draft = [w \in Librarians |-> NoRows]
    /\ visit = [w \in Librarians |-> Home]
    /\ served = 0 /\ alone = TRUE

Abroad == {w \in Librarians : visit[w] # Home}

StartVisit(w) ==
    /\ visit[w] = Home
    /\ visit' = [visit EXCEPT ![w] = Between]
    /\ alone' = (alone /\ Abroad = {})
    /\ UNCHANGED <<library, draft, served>>

Over(shelf, rows) == [s \in DOMAIN rows \cup DOMAIN shelf |->
                         IF s \in DOMAIN rows THEN rows[s] ELSE shelf[s]]

\* What the run's session sees: its own rows over the committed ones.
Shelf(w) == Over(library, draft[w])

CurrentOn(shelf) == {s \in DOMAIN shelf : shelf[s].current}

\* Dated rows sort before undated ones; without a dated row anything is newest.
NewestDate(shelf) == Max({s.date : s \in DOMAIN shelf} \cup {0})

LastArrived(sheet, shelf) == TRUE \* mutant: what arrives last is current
IsNewest(sheet, shelf) ==
    \/ NewestDate(shelf) = 0
    \/ sheet.date # 0 /\ sheet.date >= NewestDate(shelf)

\* _store reads: is the sheet known, and would it be the current one?
ReadShelf(w, sheet, text) ==
    /\ visit[w] = Between /\ served < MaxSheets
    /\ visit' = [visit EXCEPT ![w] =
                    [pc |-> "read", sheet |-> sheet, text |-> text,
                     known |-> IF sheet \in DOMAIN Shelf(w) THEN Shelf(w)[sheet].text ELSE 0,
                     isKnown |-> sheet \in DOMAIN Shelf(w),
                     newest |-> IsNewest(sheet, Shelf(w)),
                     current |-> CurrentOn(Shelf(w))]]
    /\ served' = served + 1
    /\ UNCHANGED <<library, draft, alone>>

\* A row another run has written is waited for.
LockedOut(w, sheets) == \E v \in Librarians \ {w} : sheets \cap DOMAIN draft[v] # {}

Write(w, written) ==
    /\ ~LockedOut(w, DOMAIN written)
    /\ draft' = [draft EXCEPT ![w] = Over(@, written)]
    /\ visit' = [visit EXCEPT ![w] = Between]
    /\ UNCHANGED <<library, served, alone>>

\* A known sheet: only a fuller text is taken, and only if it was fuller than read.
FillOut(w) ==
    /\ visit[w].pc = "read" /\ visit[w].isKnown
    /\ LET v == visit[w]
           row == Shelf(w)[v.sheet]
       IN  IF v.text > v.known
           THEN Write(w, [s \in {v.sheet} |-> [row EXCEPT !.text = v.text]])
           ELSE /\ visit' = [visit EXCEPT ![w] = Between]
                /\ UNCHANGED <<library, draft, served, alone>>

Superseded(sheets) == sheets

\* A new sheet: the rows the UPDATE sees are those of its own start, which may be
\* later than the read of the dates, and a row it waited for is looked at again.
AddSheet(w, seesLater) ==
    /\ visit[w].pc = "read" /\ ~visit[w].isKnown
    /\ LET v == visit[w]
           sees == IF seesLater THEN CurrentOn(Shelf(w)) ELSE v.current
           old == IF v.newest THEN Superseded(sees \cap CurrentOn(Shelf(w))) ELSE {}
       IN  /\ v.sheet \notin DOMAIN Shelf(w)
           /\ Write(w, [s \in old \cup {v.sheet} |->
                  IF s = v.sheet THEN [current |-> v.newest, text |-> v.text]
                  ELSE [Shelf(w)[s] EXCEPT !.current = FALSE]])

\* The unique key refuses what another run committed meanwhile, a deadlock or a
\* malformed sheet raises: the savepoint undoes this sheet and no other.
SkipSheet(w) ==
    /\ visit[w].pc = "read"
    /\ visit' = [visit EXCEPT ![w] = Between]
    /\ UNCHANGED <<library, draft, served, alone>>

CommitVisit(w) ==
    /\ visit[w] = Between
    /\ library' = Shelf(w)
    /\ draft' = [draft EXCEPT ![w] = NoRows]
    /\ visit' = [visit EXCEPT ![w] = Home]
    /\ UNCHANGED <<served, alone>>

\* The process dies or the commit fails.
AbandonVisit(w) ==
    /\ visit[w] # Home
    /\ draft' = [draft EXCEPT ![w] = NoRows]
    /\ visit' = [visit EXCEPT ![w] = Home]
    /\ UNCHANGED <<library, served, alone>>

AdviceNext ==
    \E w \in Librarians :
        \/ StartVisit(w)
        \/ \E sheet \in Sheet, text \in Fullness : ReadShelf(w, sheet, text)
        \/ FillOut(w)
        \/ \E seesLater \in BOOLEAN : AddSheet(w, seesLater)
        \/ SkipSheet(w)
        \/ CommitVisit(w)
        \/ AbandonVisit(w)

AdviceSpec == AdviceInit /\ [][AdviceNext]_adviceVars
-----------------------------------------------------------------------------
\* models/advisory.py, "is_current marks the latest sheet per (authority,
\* country)".  There is a current row as soon as there is a row, whatever overlaps;
\* and it is the only one, of the latest date, if no two runs ever overlapped.
CurrentIsLatest ==
    /\ library # NoRows => CurrentOn(library) # {}
    /\ alone => \A s \in CurrentOn(library) :
           CurrentOn(library) = {s} /\ s.date = NewestDate(library)
=============================================================================
