-------------------------------- MODULE Rows --------------------------------
(***************************************************************************)
(* What a query or a comprehension does to a list of rows: keep those that *)
(* meet a condition, add up a column.                                      *)
(***************************************************************************)
EXTENDS Integers, Sequences

\* The rows of a list, in its order, that are in a set.
Meeting(s, set) ==
    LET kept[n \in 0..Len(s)] ==
            IF n = 0 THEN <<>>
            ELSE IF s[n] \in set THEN Append(kept[n - 1], s[n]) ELSE kept[n - 1]
    IN  kept[Len(s)]

\* The sum of a column.
Total(column) ==
    LET upTo[n \in 0..Len(column)] == IF n = 0 THEN 0 ELSE upTo[n - 1] + column[n]
    IN  upTo[Len(column)]
=============================================================================
