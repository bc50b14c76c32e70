----------------------------- MODULE MapHistory -----------------------------
(***************************************************************************)
(* What the consequence maps of an event promise their readers, who take   *)
(* "the latest" to be ORDER BY version DESC LIMIT 1: versions are handed   *)
(* out one by one from 1, none is skipped or given twice, and a published  *)
(* map is never renumbered or withdrawn.                                   *)
(***************************************************************************)
EXTENDS Naturals, Sequences

CONSTANT Events

VARIABLE history    \* the versions of each event's maps, as committed

HistoryInit == history = [e \in Events |-> <<>>]

Publish(e) == Append(history[e], Len(history[e]) + 1)

(* One commit may publish the next version of several events.              *)
HistoryNext ==
    \E S \in SUBSET Events :
        history' = [e \in Events |-> IF e \in S THEN Publish(e)
                                                ELSE history[e]]

HistorySpec == HistoryInit /\ [][HistoryNext]_history
=============================================================================
