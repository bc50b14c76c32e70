----------------------------- MODULE LedgerBook -----------------------------
(***************************************************************************)
(* What the forward prediction ledger promises its readers: a forecast is  *)
(* entered once, is never changed or removed, and is graded at most once.  *)
(***************************************************************************)

CONSTANTS Refs,     \* what is forecast: consequence maps and market questions
          Grades,   \* what a forecast may turn out to be
          Ungraded  \* not graded yet

VARIABLES entries,  \* the published rows, each with the forecast it records
          result    \* per forecast, its grade

bookVars == <<entries, result>>

BookInit == entries = {} /\ result = [r \in Refs |-> Ungraded]

\* A forecast nobody has entered before is entered.
Enter(e) ==
    /\ \A f \in entries : f.ref # e.ref
    /\ entries' = entries \cup {e}
    /\ UNCHANGED result

\* Forecasts that are in the book and have no grade get one.
GradeSome(news) ==
    /\ \A r \in DOMAIN news : /\ result[r] = Ungraded
                              /\ \E e \in entries : e.ref = r
    /\ result' = [r \in Refs |-> IF r \in DOMAIN news THEN news[r] ELSE result[r]]
    /\ UNCHANGED entries

BookNext ==
    \/ \E e \in entries' : Enter(e)
    \/ \E due \in SUBSET Refs : \E news \in [due -> Grades] : GradeSome(news)

BookSpec == BookInit /\ [][BookNext]_bookVars
=============================================================================
