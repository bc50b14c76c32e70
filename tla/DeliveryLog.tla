---------------------------- MODULE DeliveryLog -----------------------------
(***************************************************************************)
(* What the delivery table promises, whoever writes it: a digest for one   *)
(* recipient has at most one row, a row is never changed or removed, and a *)
(* row that says "sent" is about a message that left.  Messages leave      *)
(* before their row is there, so the promise goes no further.              *)
(***************************************************************************)
EXTENDS Naturals

CONSTANTS
    Keys,     \* what dedup_key is the hash of
    Contents  \* what a digest can say

VARIABLES
    ledger,   \* the committed rows of deliveries
    mails     \* how many messages left for each key

logVars == <<ledger, mails>>

Statuses == {"sent", "failed", "suppressed"}

\* A row.  The table keeps the subject and the item count of what was said.
Rows == [key : Keys, status : Statuses, said : Contents]

KeysOf(R) == {r.key : r \in R}

\* Rows that the unique index accepts side by side.
Distinct(R) == \A r, q \in R : r.key = q.key => r = q

LogTypeOK ==
    /\ ledger \subseteq Rows
    /\ mails \in [Keys -> Nat]

LogInit ==
    /\ ledger = {}
    /\ mails = [k \in Keys |-> 0]

MailOne(k) ==
    /\ mails' = [mails EXCEPT ![k] = @ + 1]
    /\ UNCHANGED ledger

Append(R) ==
    /\ \A r \in R : r.status = "sent" => mails[r.key] > 0
    /\ ledger' = ledger \cup R
    /\ Distinct(ledger')
    /\ UNCHANGED mails

LogNext ==
    \/ \E k \in Keys : MailOne(k)
    \/ \E R \in SUBSET Rows : Append(R)

LogSpec == LogInit /\ [][LogNext]_logVars

\* One row per key: a digest is never recorded twice for a recipient.
OneRowPerKey == Distinct(ledger)

\* A row that says "sent" is about a message that left.
SentWasMailed == \A r \in ledger : r.status = "sent" => mails[r.key] > 0
=============================================================================
