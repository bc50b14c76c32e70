--------------------------- MODULE DeliveryProofs ---------------------------
(***************************************************************************)
(* Proofs about Delivery for any number of hosts, subscriptions, people,   *)
(* situations and days.                                                    *)
(***************************************************************************)
EXTENDS Delivery, FiniteSetTheorems, TLAPS

USE DeliveryAssumption

LEMMA WindowBound ==
    ASSUME NEW s \in Subs, NEW d \in 0..MaxDay
    PROVE  Window(s, d) \in 0..MaxDay
<1>1. d \div DaysPerWeek \in 0..d
  BY SMTT(30)
<1> QED
  BY <1>1 DEF Window

LEMMA HashType ==
    ASSUME NEW c \in Contents
    PROVE  Hash(c) \in [escalated : SUBSET Situations,
                        held : 0..Cardinality(Situations)]
<1> DEFINE H == {x \in Situations : c[x] = "held"}
<1>1. IsFiniteSet(H) /\ Cardinality(H) <= Cardinality(Situations)
  BY FS_Subset
<1>2. Cardinality(H) \in Nat /\ Cardinality(Situations) \in Nat
  BY <1>1, FS_CardinalityType
<1> QED
  BY <1>1, <1>2 DEF Hash

LEMMA KeyType ==
    ASSUME NEW s \in Subs, NEW p \in People, NEW d \in 0..MaxDay,
           NEW c \in Contents
    PROVE  Key(s, p, d, c) \in Keys
  BY WindowBound, HashType DEF Key, Keys

-----------------------------------------------------------------------------
(* The inductive invariant.  A host without a run holds nothing; a key is  *)
(* looked up only for a recipient of the subscription the run is at.       *)
RunShape ==
    \A h \in Hosts :
        /\ h \notin running => /\ subsTodo[h] = {} /\ todo[h] = {}
                              /\ one[h] = NoOne /\ pending[h] = {}
                              /\ owed[h] = {}
        /\ todo[h] # {} \/ one[h] # NoOne => cur[h] \in Subs
        /\ result[h] # "none" => one[h] # NoOne

(* Rows, committed or not, are about different keys: the unique index sees *)
(* them all.  And a message left before its row says so.                   *)
AllRows == ledger \cup UNION {pending[g] : g \in Hosts}

RowsInv ==
    /\ Log!Distinct(AllRows)
    /\ \A r \in AllRows : r.status = "sent" => mails[r.key] > 0
    /\ \A h \in Hosts : result[h] = "sent" => mails[KeyFor(h, one[h])] > 0

LogInv == DeliveryTypeOK /\ RunShape /\ RowsInv

LEMMA LogInvInit == DeliveryInit => LogInv
<1> SUFFICES ASSUME DeliveryInit PROVE LogInv
  OBVIOUS
<1> USE DEF DeliveryInit
<1>1. Quiet \in Contents
  BY DEF Quiet, Contents, Stages
<1>2. DeliveryTypeOK
  <2>1. Log!LogTypeOK
    BY DEF Log!LogTypeOK, Log!LogInit
  <2>2. 0 \in 0..MaxDay /\ 0 \in 0..MaxCrashes
    BY SMT
  <2>4. due \in BOOLEAN
    BY Zenon
  <2>3. at \in [Hosts -> 0..MaxDay]
    OBVIOUS
  <2> QED
    BY <1>1, <2>1, <2>2, <2>3, <2>4 DEF DeliveryTypeOK
<1>3. RunShape
  BY DEF RunShape
<1>4. AllRows = {}
  BY DEF AllRows, Log!LogInit
<1>5. RowsInv
  BY <1>4 DEF RowsInv, Log!Distinct
<1> QED
  BY <1>2, <1>3, <1>5 DEF LogInv

LEMMA TypeStep ==
    DeliveryTypeOK /\ RunShape /\ [DeliveryNext]_vars => DeliveryTypeOK'
<1> SUFFICES ASSUME DeliveryTypeOK, RunShape, [DeliveryNext]_vars
             PROVE  DeliveryTypeOK'
  OBVIOUS
<1> USE DEF DeliveryTypeOK
<1>1. CASE Outside
  <2> USE DEF runVars, rosterVars, clockVars, Log!LogTypeOK
  <2>1. CASE SendHour
    BY <2>1 DEF SendHour
  <2>2. CASE Midnight
    <3>1. day' \in 0..MaxDay
      BY <2>2 DEF Midnight
    <3>2. due' \in BOOLEAN
      BY <2>2 DEF Midnight
    <3> QED
      BY <2>2, <3>1, <3>2 DEF Midnight
  <2>3. ASSUME NEW x \in Situations, News(x) PROVE DeliveryTypeOK'
    BY <2>3 DEF News, Contents
  <2>4. ASSUME NEW s \in Subs, CreateSubscription(s) \/ DeleteSubscription(s)
        PROVE  DeliveryTypeOK'
    BY <2>4 DEF CreateSubscription, DeleteSubscription
  <2>5. ASSUME NEW l \in Lists, NEW p \in People,
               AddMember(l, p) \/ RemoveMember(l, p)
        PROVE  DeliveryTypeOK'
    <3> DEFINE Standings == {"none", "on", "off"}
    <3>2. PICK v \in Standings : standing' = [standing EXCEPT ![l][p] = v]
      BY <2>5 DEF AddMember, RemoveMember
    <3>3. standing \in [Lists -> [People -> Standings]]
      OBVIOUS
    <3> HIDE DEF Standings
    <3>4. standing' \in [Lists -> [People -> Standings]]
      BY ONLY <3>2, <3>3, l \in Lists, p \in People
    <3>1. standing' \in [Lists -> [People -> {"none", "on", "off"}]]
      BY <3>4 DEF Standings
    <3> QED
      BY <2>5, <3>1 DEF AddMember, RemoveMember
  <2> QED
    BY <1>1, <2>1, <2>2, <2>3, <2>4, <2>5 DEF Outside
<1>2. ASSUME NEW h \in Hosts, DigestStep(h) \/ Crash(h) PROVE DeliveryTypeOK'
  <2>1. CASE Start(h)
    BY <2>1 DEF Start, Off, rosterVars, clockVars, Log!LogTypeOK
  <2>2. ASSUME NEW s \in Subs, Compose(h, s) PROVE DeliveryTypeOK'
    <3> USE <2>2 DEF Compose
    <3>1. Recipients(s) \subseteq People
      BY DEF Recipients
    <3>2. \A p \in Recipients(s) : Key(s, p, at[h], stage) \in Keys
      BY <3>1, KeyType
    <3>3. owed' \in [Hosts -> SUBSET Keys]
      BY <3>2
    <3> QED
      BY <3>1, <3>3 DEF rosterVars, clockVars, Log!LogTypeOK
  <2>3. ASSUME NEW p \in People, Lookup(h, p) PROVE DeliveryTypeOK'
    BY <2>3 DEF Lookup, rosterVars, clockVars, Log!LogTypeOK
  <2>4. CASE Send(h)
    <3> USE <2>4 DEF Send
    <3>1. result' \in [Hosts -> Log!Statuses \cup {"none"}]
      BY DEF Log!Statuses
    <3>2. PICK left \in 0..1 :
             mails' = [mails EXCEPT ![KeyFor(h, one[h])] = @ + left]
      OBVIOUS
    <3>3. \A n \in Nat : n + left \in Nat
      OBVIOUS
    <3>4. mails' \in [Keys -> Nat]
      BY <3>2, <3>3 DEF Log!LogTypeOK
    <3> QED
      BY <3>1, <3>4 DEF rosterVars, clockVars, Log!LogTypeOK
  <2>5. CASE Savepoint(h) /\ Insert(h)
    <3> USE <2>5 DEF Savepoint, Insert, NextRecipient
    <3>1. cur[h] \in Subs /\ one[h] \in People
      BY DEF RunShape
    <3>2. KeyFor(h, one[h]) \in Keys
      BY <3>1, KeyType DEF KeyFor
    <3>3. pending' \in [Hosts -> SUBSET Log!Rows]
      BY <3>2 DEF Log!Rows, Log!Statuses
    <3> QED
      BY <3>3 DEF rosterVars, clockVars, Log!LogTypeOK
  <2>6. CASE InsertFails(h)
    BY <2>6 DEF InsertFails, NextRecipient, rosterVars, clockVars, Log!LogTypeOK
  <2>7. CASE Commit(h)
    <3>1. Quiet \in Contents
      BY DEF Quiet, Contents, Stages
    <3> QED
      BY <2>7, <3>1 DEF Commit, Forget, rosterVars, clockVars, Log!LogTypeOK
  <2>8. CASE Crash(h)
    <3>1. Quiet \in Contents
      BY DEF Quiet, Contents, Stages
    <3> QED
      BY <2>8, <3>1 DEF Crash, Forget, rosterVars, clockVars, Log!LogTypeOK
  <2> QED
    BY <1>2, <2>1, <2>2, <2>3, <2>4, <2>5, <2>6, <2>7, <2>8 DEF DigestStep, Savepoint
<1>3. CASE UNCHANGED vars
  BY <1>3 DEF vars, runVars, rosterVars, clockVars, Log!LogTypeOK
<1> QED
  BY <1>1, <1>2, <1>3 DEF DeliveryNext

LEMMA ShapeStep ==
    DeliveryTypeOK /\ RunShape /\ [DeliveryNext]_vars => RunShape'
<1> SUFFICES ASSUME DeliveryTypeOK, RunShape, [DeliveryNext]_vars
             PROVE  RunShape'
  OBVIOUS
<1> USE DEF RunShape, DeliveryTypeOK
<1>1. CASE Outside
  BY <1>1 DEF Outside, SendHour, Midnight, News, CreateSubscription,
              DeleteSubscription, AddMember, RemoveMember, runVars
<1>2. ASSUME NEW h \in Hosts, DigestStep(h) \/ Crash(h) PROVE RunShape'
  <2>1. CASE Start(h)
    BY <2>1 DEF Start
  <2>2. ASSUME NEW s \in Subs, Compose(h, s) PROVE RunShape'
    BY <2>2 DEF Compose, BetweenSubs
  <2>3. ASSUME NEW p \in People, Lookup(h, p) PROVE RunShape'
    BY <2>3 DEF Lookup
  <2>4. CASE Send(h)
    BY <2>4 DEF Send
  <2>5. CASE Savepoint(h) /\ Insert(h)
    BY <2>5 DEF Savepoint, Insert, NextRecipient
  <2>6. CASE InsertFails(h)
    BY <2>6 DEF InsertFails, NextRecipient
  <2>7. CASE Commit(h)
    BY <2>7 DEF Commit, Forget
  <2>8. CASE Crash(h)
    BY <2>8 DEF Crash, Forget
  <2> QED
    BY <1>2, <2>1, <2>2, <2>3, <2>4, <2>5, <2>6, <2>7, <2>8 DEF DigestStep, Savepoint
<1>3. CASE UNCHANGED vars
  BY <1>3 DEF vars, runVars
<1> QED
  BY <1>1, <1>2, <1>3 DEF DeliveryNext

(* How a step moves the rows: an insert adds one whose key nobody has, a   *)
(* commit moves some, a crash drops some.                                  *)
RowFor(h) ==
    [key |-> KeyFor(h, one[h]), status |-> result[h], said |-> digest[h]]

LEMMA RowsOfInsert ==
    ASSUME NEW h \in Hosts, DeliveryTypeOK, Savepoint(h), Insert(h)
    PROVE  /\ AllRows' = AllRows \cup {RowFor(h)}
           /\ \A r \in AllRows : r.key # KeyFor(h, one[h])
<1>1. \A g \in Hosts : pending'[g] = IF g = h THEN pending[h] \cup {RowFor(h)}
                                             ELSE pending[g]
  BY DEF Insert, DeliveryTypeOK, RowFor
<1>2. ledger' = ledger
  BY DEF Insert, NextRecipient
<1>3. AllRows' = AllRows \cup {RowFor(h)}
  BY <1>1, <1>2 DEF AllRows
<1>4. \A r \in AllRows : r.key # KeyFor(h, one[h])
  BY DEF Savepoint, Insert, AllRows, Visible, Waits, Log!KeysOf
<1> QED
  BY <1>3, <1>4

LEMMA RowsOfCommit ==
    ASSUME NEW h \in Hosts, DeliveryTypeOK, Commit(h)
    PROVE  AllRows' = AllRows
<1>1. \A g \in Hosts : pending'[g] = IF g = h THEN {} ELSE pending[g]
  BY DEF Commit, Forget, DeliveryTypeOK
<1>2. ledger' = ledger \cup pending[h]
  BY DEF Commit
<1> QED
  BY <1>1, <1>2 DEF AllRows

LEMMA RowsOfCrash ==
    ASSUME NEW h \in Hosts, DeliveryTypeOK, Crash(h)
    PROVE  AllRows' \subseteq AllRows
<1>1. \A g \in Hosts : pending'[g] \subseteq pending[g]
  BY DEF Crash, Forget, DeliveryTypeOK
<1>2. ledger' = ledger
  BY DEF Crash
<1> QED
  BY <1>1, <1>2 DEF AllRows

LEMMA KeyForType ==
    ASSUME DeliveryTypeOK, RunShape, NEW h \in Hosts, one[h] # NoOne
    PROVE  KeyFor(h, one[h]) \in Keys
  BY KeyType DEF KeyFor, RunShape, DeliveryTypeOK

LEMMA RowsStep == LogInv /\ [DeliveryNext]_vars => RowsInv'
<1> SUFFICES ASSUME LogInv, [DeliveryNext]_vars
             PROVE  RowsInv'
  OBVIOUS
<1> USE DEF LogInv
<1>1. CASE Outside
  BY <1>1 DEF Outside, SendHour, Midnight, News, CreateSubscription,
              DeleteSubscription, AddMember, RemoveMember, runVars, RowsInv,
              AllRows, KeyFor, Log!Distinct
<1>2. ASSUME NEW h \in Hosts, DigestStep(h) \/ Crash(h) PROVE RowsInv'
  <2> USE DEF RowsInv
  <2>1. CASE Start(h)
    <3>1. \A g \in Hosts : result[g] # "none" => at'[g] = at[g]
      BY <2>1 DEF Start, RunShape, DeliveryTypeOK
    <3> QED
      BY <2>1, <3>1 DEF Start, AllRows, KeyFor, Log!Distinct
  <2>2. ASSUME NEW s \in Subs, Compose(h, s) PROVE RowsInv'
    <3>1. \A g \in Hosts : result[g] # "none" =>
                               cur'[g] = cur[g] /\ digest'[g] = digest[g]
      BY <2>2 DEF Compose, BetweenSubs, RunShape, DeliveryTypeOK
    <3> QED
      BY <2>2, <3>1 DEF Compose, AllRows, KeyFor, Log!Distinct
  <2>3. ASSUME NEW p \in People, Lookup(h, p) PROVE RowsInv'
    <3>1. \A g \in Hosts : result[g] # "none" => one'[g] = one[g]
      BY <2>3 DEF Lookup, RunShape, DeliveryTypeOK
    <3> QED
      BY <2>3, <3>1 DEF Lookup, AllRows, KeyFor, Log!Distinct
  <2>4. CASE Send(h)
    <3>1. KeyFor(h, one[h]) \in Keys
      BY <2>4, KeyForType DEF Send
    <3>2. PICK r \in Log!Statuses, left \in 0..1 :
             /\ r = "sent" => left = 1
             /\ result' = [result EXCEPT ![h] = r]
             /\ mails' = [mails EXCEPT ![KeyFor(h, one[h])] = @ + left]
      BY <2>4 DEF Send, Log!Statuses
    <3>3. \A k \in Keys : mails[k] \in Nat
      BY DEF DeliveryTypeOK, Log!LogTypeOK
    <3>4. \A k \in Keys : mails[k] > 0 => mails'[k] > 0
      BY <3>1, <3>2, <3>3 DEF DeliveryTypeOK, Log!LogTypeOK
    <3>5. r = "sent" => mails'[KeyFor(h, one[h])] > 0
      BY <3>1, <3>2, <3>3 DEF DeliveryTypeOK, Log!LogTypeOK
    <3>6. /\ AllRows' = AllRows
          /\ \A g \in Hosts : KeyFor(g, one[g])' = KeyFor(g, one[g])
      BY <2>4 DEF Send, AllRows, KeyFor
    <3>7. \A q \in AllRows : q.key \in Keys
      BY DEF AllRows, DeliveryTypeOK, Log!LogTypeOK, Log!Rows
    <3>8. \A g \in Hosts : result'[g] = "sent" => mails'[KeyFor(g, one[g])] > 0
      <4> SUFFICES ASSUME NEW g \in Hosts, result'[g] = "sent"
                   PROVE  mails'[KeyFor(g, one[g])] > 0
        OBVIOUS
      <4>1. CASE g = h
        BY <3>2, <3>5, <4>1 DEF DeliveryTypeOK
      <4>2. CASE g # h
        <5>1. result[g] = "sent"
          BY <3>2, <4>2 DEF DeliveryTypeOK
        <5>2. KeyFor(g, one[g]) \in Keys
          BY <5>1, KeyForType DEF RunShape
        <5> QED
          BY <5>1, <5>2, <3>4
      <4> QED
        BY <4>1, <4>2
    <3> QED
      BY <3>4, <3>6, <3>7, <3>8 DEF Log!Distinct
  <2>5. CASE Savepoint(h) /\ Insert(h)
    <3>1. mails' = mails
      BY <2>5 DEF Insert, NextRecipient
    <3>2. Log!Distinct(AllRows)'
      BY <2>5, RowsOfInsert DEF Log!Distinct, RowFor
    <3>3. \A r \in AllRows' : r.status = "sent" => mails'[r.key] > 0
      BY <2>5, <3>1, RowsOfInsert DEF RowFor
    <3>4. \A g \in Hosts : result'[g] = "sent" =>
             result[g] = "sent" /\ KeyFor(g, one[g])' = KeyFor(g, one[g])
      BY <2>5 DEF Insert, NextRecipient, DeliveryTypeOK, KeyFor
    <3> QED
      BY <3>1, <3>2, <3>3, <3>4
  <2>6. CASE InsertFails(h)
    <3>1. mails' = mails /\ AllRows' = AllRows
      BY <2>6 DEF InsertFails, NextRecipient, AllRows
    <3>2. \A g \in Hosts : result'[g] = "sent" =>
             result[g] = "sent" /\ KeyFor(g, one[g])' = KeyFor(g, one[g])
      BY <2>6 DEF InsertFails, NextRecipient, DeliveryTypeOK, KeyFor
    <3> QED
      BY <3>1, <3>2 DEF Log!Distinct
  <2>7. CASE Commit(h)
    <3>1. mails' = mails /\ AllRows' = AllRows
      BY <2>7, RowsOfCommit DEF Commit
    <3>2. \A g \in Hosts : result'[g] = "sent" =>
             result[g] = "sent" /\ KeyFor(g, one[g])' = KeyFor(g, one[g])
      BY <2>7 DEF Commit, Forget, DeliveryTypeOK, KeyFor
    <3> QED
      BY <3>1, <3>2 DEF Log!Distinct
  <2>8. CASE Crash(h)
    <3>1. mails' = mails /\ AllRows' \subseteq AllRows
      BY <2>8, RowsOfCrash DEF Crash
    <3>2. \A g \in Hosts : result'[g] = "sent" =>
             result[g] = "sent" /\ KeyFor(g, one[g])' = KeyFor(g, one[g])
      BY <2>8 DEF Crash, Forget, DeliveryTypeOK, KeyFor
    <3> QED
      BY <3>1, <3>2 DEF Log!Distinct
  <2> QED
    BY <1>2, <2>1, <2>2, <2>3, <2>4, <2>5, <2>6, <2>7, <2>8 DEF DigestStep, Savepoint
<1>3. CASE UNCHANGED vars
  BY <1>3 DEF vars, runVars, RowsInv, AllRows, KeyFor, Log!Distinct
<1> QED
  BY <1>1, <1>2, <1>3 DEF DeliveryNext

(* The dedup key, the savepoints and the commit of digest_worker.py keep   *)
(* what a log of deliveries promises, however many hosts run at once.      *)
THEOREM DeliveryInvariant == DeliverySpec => []LogInv
<1>1. LogInv /\ [DeliveryNext]_vars => LogInv'
  BY TypeStep, ShapeStep, RowsStep DEF LogInv
<1> QED
  BY LogInvInit, <1>1, PTL DEF DeliverySpec

(* What the model's variables hold, at every step of any number of runs.   *)
THEOREM DeliveryTypeCorrect == DeliverySpec => []DeliveryTypeOK
<1>1. LogInv => DeliveryTypeOK
  BY DEF LogInv
<1> QED
  BY <1>1, DeliveryInvariant, PTL

LEMMA StepIsLogged ==
    LogInv /\ [DeliveryNext]_vars => [Log!LogNext]_(Log!logVars)
<1> SUFFICES ASSUME LogInv, [DeliveryNext]_vars,
                    ~UNCHANGED Log!logVars
             PROVE  Log!LogNext
  OBVIOUS
<1> USE DEF Log!logVars
<1>1. ~Outside /\ ~UNCHANGED vars
  BY DEF Outside, SendHour, Midnight, News, CreateSubscription,
         DeleteSubscription, AddMember, RemoveMember, vars
<1>2. PICK h \in Hosts : DigestStep(h) \/ Crash(h)
  BY <1>1 DEF DeliveryNext
<1>3. Send(h) \/ Commit(h)
  BY <1>2 DEF DigestStep, Savepoint, Start, Compose, Lookup, Insert, InsertFails,
              NextRecipient, Crash
<1>4. CASE Send(h)
  <2>1. KeyFor(h, one[h]) \in Keys
    BY <1>4, KeyForType DEF Send, LogInv
  <2>2. PICK left \in 0..1 :
           mails' = [mails EXCEPT ![KeyFor(h, one[h])] = @ + left]
    BY <1>4 DEF Send
  <2>3. mails[KeyFor(h, one[h])] \in Nat /\ mails \in [Keys -> Nat]
    BY <2>1 DEF LogInv, DeliveryTypeOK, Log!LogTypeOK
  <2>4. left # 0
    <3>1. mails[KeyFor(h, one[h])] + 0 = mails[KeyFor(h, one[h])]
      BY <2>3
    <3> QED
      BY <2>2, <2>3, <3>1, <1>4 DEF Send
  <2>5. Log!MailOne(KeyFor(h, one[h]))
    <3>1. left = 1
      BY <2>4
    <3>2. ledger' = ledger
      BY <1>4 DEF Send
    <3> QED
      BY <2>2, <3>1, <3>2 DEF Log!MailOne
  <2> QED
    BY <2>1, <2>5 DEF Log!LogNext
<1>5. CASE Commit(h)
  <2>1. pending[h] \in SUBSET Log!Rows
    BY DEF LogInv, DeliveryTypeOK
  <2>2. ledger' = ledger \cup pending[h] /\ mails' = mails
    BY <1>5 DEF Commit
  <2>3. ledger' \subseteq AllRows
    BY <2>2 DEF AllRows
  <2>4. Log!Distinct(ledger')
    BY <2>3 DEF LogInv, RowsInv, Log!Distinct
  <2>5. \A r \in pending[h] : r.status = "sent" => mails[r.key] > 0
    BY DEF LogInv, RowsInv, AllRows
  <2>6. Log!Append(pending[h])
    BY <2>2, <2>4, <2>5 DEF Log!Append
  <2> QED
    BY <2>1, <2>6 DEF Log!LogNext
<1> QED
  BY <1>3, <1>4, <1>5

(* The digest worker implements the log: rows are only ever added, one per *)
(* key, and "sent" is never said of a message that did not leave.          *)
THEOREM DeliveryImplementsLog == DeliverySpec => LogSpec
<1>1. DeliveryInit => Log!LogInit
  BY DEF DeliveryInit
<1> QED
  BY <1>1, StepIsLogged, DeliveryInvariant, PTL DEF DeliverySpec, LogSpec,
     Log!LogSpec

(* The unique index and the savepoints: no two rows have one dedup key.    *)
THEOREM DeliveryOneRowPerKey == DeliverySpec => []OneRowPerKey
<1>1. LogInv => OneRowPerKey
  BY DEF LogInv, RowsInv, AllRows, OneRowPerKey, Log!OneRowPerKey, Log!Distinct
<1> QED
  BY <1>1, DeliveryInvariant, PTL

-----------------------------------------------------------------------------
(* Nobody is left out.  Until a run has died, every key for which a message*)
(* left has a row or is at the mailer, and every key a run owes has a row, *)
(* or its recipient is still to come.                                      *)
AtMailer(h, k) == result[h] # "none" /\ k = KeyFor(h, one[h])
StillToCome(h, k) ==
    \/ \E p \in todo[h] : k = KeyFor(h, p)
    \/ one[h] # NoOne /\ k = KeyFor(h, one[h])

Accounted ==
    crashes = 0 =>
        /\ \A k \in Keys : mails[k] > 0 =>
               k \in Log!KeysOf(AllRows) \/ \E h \in Hosts : AtMailer(h, k)
        /\ \A h \in Hosts : \A k \in owed[h] :
               k \in Log!KeysOf(AllRows) \/ StillToCome(h, k)

FullInv == LogInv /\ Accounted

LEMMA RowsGrow ==
    ASSUME LogInv, [DeliveryNext]_vars, crashes' = 0
    PROVE  crashes = 0 /\ AllRows \subseteq AllRows'
<1> USE DEF LogInv
<1>1. CASE Outside
  BY <1>1 DEF Outside, SendHour, Midnight, News, CreateSubscription,
              DeleteSubscription, AddMember, RemoveMember, runVars, AllRows
<1>2. ASSUME NEW h \in Hosts, DigestStep(h)
      PROVE  crashes = 0 /\ AllRows \subseteq AllRows'
  <2>1. CASE Savepoint(h) /\ Insert(h)
    BY <2>1, RowsOfInsert DEF Insert, NextRecipient
  <2>2. CASE Commit(h)
    BY <2>2, RowsOfCommit DEF Commit
  <2>3. CASE ~(Savepoint(h) /\ Insert(h)) /\ ~Commit(h)
    BY <1>2, <2>3 DEF DigestStep, Savepoint, Start, Compose, Lookup, Send, InsertFails,
                      NextRecipient, AllRows
  <2> QED
    BY <2>1, <2>2, <2>3
<1>3. ASSUME NEW h \in Hosts, Crash(h) PROVE FALSE
  BY <1>3 DEF Crash, DeliveryTypeOK
<1>4. CASE UNCHANGED vars
  BY <1>4 DEF vars, runVars, AllRows
<1> QED
  BY <1>1, <1>2, <1>3, <1>4 DEF DeliveryNext

LEMMA AccountedStep == FullInv /\ [DeliveryNext]_vars => Accounted'
<1> SUFFICES ASSUME FullInv, [DeliveryNext]_vars, crashes' = 0
             PROVE  /\ \A k \in Keys : mails'[k] > 0 =>
                          \/ k \in Log!KeysOf(AllRows)'
                          \/ \E h \in Hosts : AtMailer(h, k)'
                    /\ \A h \in Hosts : \A k \in owed'[h] :
                          k \in Log!KeysOf(AllRows)' \/ StillToCome(h, k)'
  BY DEF Accounted
<1> USE DEF FullInv, LogInv
<1>0. crashes = 0 /\ Log!KeysOf(AllRows) \subseteq Log!KeysOf(AllRows)'
  BY RowsGrow DEF Log!KeysOf
<1>a. \A k \in Keys : mails[k] > 0 =>
         k \in Log!KeysOf(AllRows)' \/ \E h \in Hosts : AtMailer(h, k)
  BY <1>0 DEF Accounted
<1>b. \A h \in Hosts : \A k \in owed[h] :
         k \in Log!KeysOf(AllRows)' \/ StillToCome(h, k)
  BY <1>0 DEF Accounted
<1>m. ASSUME mails' = mails,
             \A h \in Hosts, k \in Keys : AtMailer(h, k) =>
                 AtMailer(h, k)' \/ k \in Log!KeysOf(AllRows)'
      PROVE  \A k \in Keys : mails'[k] > 0 =>
                 k \in Log!KeysOf(AllRows)' \/ \E h \in Hosts : AtMailer(h, k)'
  BY <1>a, <1>m
<1>o. ASSUME NEW h \in Hosts,
             \A g \in Hosts : g # h => owed'[g] \subseteq owed[g],
             \A g \in Hosts : g # h =>
                 \A k : StillToCome(g, k) => StillToCome(g, k)',
             \A k \in owed'[h] : \/ k \in Log!KeysOf(AllRows)'
                                 \/ StillToCome(h, k)'
      PROVE  \A g \in Hosts : \A k \in owed'[g] :
                 k \in Log!KeysOf(AllRows)' \/ StillToCome(g, k)'
  BY <1>b, <1>o
<1>1. CASE Outside
  BY <1>a, <1>b, <1>1
     DEF Outside, SendHour, Midnight, News, CreateSubscription,
         DeleteSubscription, AddMember, RemoveMember, runVars, AtMailer,
         StillToCome, KeyFor
<1>2. CASE UNCHANGED vars
  BY <1>a, <1>b, <1>2 DEF vars, runVars, AtMailer, StillToCome, KeyFor
<1>3. ASSUME NEW h \in Hosts, DigestStep(h)
      PROVE  /\ \A k \in Keys : mails'[k] > 0 =>
                   \/ k \in Log!KeysOf(AllRows)'
                   \/ \E g \in Hosts : AtMailer(g, k)'
             /\ \A g \in Hosts : \A k \in owed'[g] :
                   k \in Log!KeysOf(AllRows)' \/ StillToCome(g, k)'
  <2> USE DEF DeliveryTypeOK
  <2>1. CASE Start(h)
    <3>1. \A g \in Hosts, k \in Keys : AtMailer(g, k) => AtMailer(g, k)'
      BY <2>1 DEF Start, AtMailer, KeyFor, RunShape
    <3>2. owed'[h] = {}
      BY <2>1 DEF Start, RunShape
    <3> QED
      BY <2>1, <3>1, <3>2, <1>m, <1>o DEF Start, StillToCome, KeyFor
  <2>2. ASSUME NEW s \in Subs, Compose(h, s)
        PROVE  /\ \A k \in Keys : mails'[k] > 0 =>
                   \/ k \in Log!KeysOf(AllRows)'
                   \/ \E g \in Hosts : AtMailer(g, k)'
             /\ \A g \in Hosts : \A k \in owed'[g] :
                   k \in Log!KeysOf(AllRows)' \/ StillToCome(g, k)'
    <3> USE <2>2 DEF Compose, BetweenSubs
    <3>1. \A g \in Hosts, k \in Keys : AtMailer(g, k) => AtMailer(g, k)'
      BY DEF AtMailer, KeyFor, RunShape
    <3>2. \A k \in owed[h] : k \in Log!KeysOf(AllRows)'
      BY <1>b DEF StillToCome
    <3>3. \A p \in Recipients(s) : KeyFor(h, p)' = Key(s, p, at[h], stage)
      BY DEF KeyFor
    <3>4. todo'[h] = Recipients(s)
      OBVIOUS
    <3>5. \A k \in owed'[h] : k \in Log!KeysOf(AllRows)' \/ StillToCome(h, k)'
      BY <3>2, <3>3, <3>4 DEF StillToCome
    <3> QED
      BY <3>1, <3>5, <1>m, <1>o DEF StillToCome, KeyFor
  <2>3. ASSUME NEW p \in People, Lookup(h, p)
        PROVE  /\ \A k \in Keys : mails'[k] > 0 =>
                   \/ k \in Log!KeysOf(AllRows)'
                   \/ \E g \in Hosts : AtMailer(g, k)'
             /\ \A g \in Hosts : \A k \in owed'[g] :
                   k \in Log!KeysOf(AllRows)' \/ StillToCome(g, k)'
    <3> USE <2>3 DEF Lookup
    <3>1. \A g \in Hosts, k \in Keys : AtMailer(g, k) => AtMailer(g, k)'
      BY DEF AtMailer, KeyFor, RunShape
    <3>2. KeyFor(h, p) \in Visible(h) => KeyFor(h, p) \in Log!KeysOf(AllRows)'
      BY <1>0 DEF Visible, AllRows, Log!KeysOf
    <3>3. KeyFor(h, p) \notin Visible(h) => one'[h] = p
      OBVIOUS
    <3>4. \A q \in People : KeyFor(h, q)' = KeyFor(h, q)
      BY DEF KeyFor
    <3>5. p # NoOne
      OBVIOUS
    <3>6. ASSUME NEW k \in owed'[h]
          PROVE  k \in Log!KeysOf(AllRows)' \/ StillToCome(h, k)'
      <4>1. k \in Log!KeysOf(AllRows)' \/ \E q \in todo[h] : k = KeyFor(h, q)
        BY <3>6, <1>b DEF StillToCome
      <4> QED
        BY <4>1, <3>2, <3>3, <3>4, <3>5 DEF StillToCome
    <3>7. \A g \in Hosts : g # h =>
             /\ owed'[g] = owed[g] /\ todo'[g] = todo[g] /\ one'[g] = one[g]
             /\ \A q : KeyFor(g, q)' = KeyFor(g, q)
      BY DEF KeyFor
    <3>8. \A g \in Hosts : g # h =>
             \A k : StillToCome(g, k) => StillToCome(g, k)'
      BY <3>7 DEF StillToCome
    <3>9. mails' = mails
      OBVIOUS
    <3> QED
      BY ONLY <3>1, <3>6, <3>7, <3>8, <3>9, <1>m, <1>o, h \in Hosts
  <2>4. CASE Send(h)
    <3> USE <2>4 DEF Send
    <3>1. KeyFor(h, one[h]) \in Keys
      BY KeyForType
    <3>2. \A k \in Keys : k # KeyFor(h, one[h]) => mails'[k] = mails[k]
      BY DEF Log!LogTypeOK
    <3>3. \A k \in Keys : k = KeyFor(h, one[h]) => AtMailer(h, k)'
      BY DEF AtMailer, KeyFor
    <3>4. \A g \in Hosts, k \in Keys : AtMailer(g, k) => AtMailer(g, k)'
      BY DEF AtMailer, KeyFor
    <3>5. \A g \in Hosts : \A k : StillToCome(g, k) => StillToCome(g, k)'
      BY DEF StillToCome, KeyFor
    <3>6. owed' = owed
      OBVIOUS
    <3>7. \A k \in Keys : mails'[k] > 0 =>
             k \in Log!KeysOf(AllRows)' \/ \E g \in Hosts : AtMailer(g, k)'
      <4> SUFFICES ASSUME NEW k \in Keys, mails'[k] > 0
                   PROVE  \/ k \in Log!KeysOf(AllRows)'
                          \/ \E g \in Hosts : AtMailer(g, k)'
        OBVIOUS
      <4>1. CASE k = KeyFor(h, one[h])
        BY ONLY <3>3, <4>1, h \in Hosts, k \in Keys
      <4>2. CASE k # KeyFor(h, one[h])
        <5>1. mails[k] > 0
          BY <3>2, <4>2
        <5> QED
          BY <5>1, <1>a, <3>4
      <4> QED
        BY <4>1, <4>2
    <3> QED
      BY ONLY <1>b, <3>5, <3>6, <3>7
  <2>5. CASE Savepoint(h)
    <3>1. KeyFor(h, one[h]) \in Log!KeysOf(AllRows)'
      <4>1. CASE Savepoint(h) /\ Insert(h)
        <5>1. RowFor(h) \in AllRows'
          BY <4>1, RowsOfInsert
        <5>2. RowFor(h).key = KeyFor(h, one[h])
          BY DEF RowFor
        <5> QED
          BY <5>1, <5>2 DEF Log!KeysOf
      <4>2. CASE Savepoint(h) /\ InsertFails(h)
        <5>1. KeyFor(h, one[h]) \in Log!KeysOf(AllRows)
          <6>1. CASE KeyFor(h, one[h]) \in Visible(h)
            BY <6>1 DEF Visible, AllRows, Log!KeysOf
          <6>2. CASE Deadlocked(h)
            <7>1. PICK g \in Hosts : Waits(h, g)
              BY <6>2 DEF Deadlocked
            <7>2. PICK r \in pending[g] : r.key = KeyFor(h, one[h])
              BY <7>1 DEF Waits, Log!KeysOf
            <7> QED
              BY <7>2 DEF AllRows, Log!KeysOf
          <6> QED
            BY <4>2, <6>1, <6>2 DEF InsertFails
        <5> QED
          BY <5>1, <1>0
      <4> QED
        BY <2>5, <4>1, <4>2 DEF Savepoint
    <3>2. NextRecipient(h)
      BY <2>5 DEF Savepoint, Insert, InsertFails
    <3>3. \A g \in Hosts, k \in Keys : AtMailer(g, k) =>
               AtMailer(g, k)' \/ k \in Log!KeysOf(AllRows)'
      BY <3>1, <3>2 DEF NextRecipient, AtMailer, KeyFor
    <3>4. \A k \in owed'[h] : k \in Log!KeysOf(AllRows)' \/ StillToCome(h, k)'
      BY <3>1, <3>2, <1>b DEF NextRecipient, StillToCome, KeyFor
    <3> QED
      BY <3>2, <3>3, <3>4, <1>m, <1>o DEF NextRecipient, StillToCome, KeyFor
  <2>6. CASE Commit(h)
    <3> USE <2>6 DEF Commit, Forget, BetweenSubs
    <3>1. \A g \in Hosts, k \in Keys : AtMailer(g, k) => AtMailer(g, k)'
      BY DEF AtMailer, KeyFor, RunShape
    <3>2. owed'[h] = {}
      OBVIOUS
    <3> QED
      BY <3>1, <3>2, <1>m, <1>o DEF StillToCome, KeyFor
  <2> QED
    BY <1>3, <2>1, <2>2, <2>3, <2>4, <2>5, <2>6 DEF DigestStep, Savepoint
<1>4. ASSUME NEW h \in Hosts, Crash(h) PROVE FALSE
  BY <1>4 DEF Crash, DeliveryTypeOK
<1> QED
  BY <1>1, <1>2, <1>3, <1>4 DEF DeliveryNext

LEMMA FullInvariant == DeliverySpec => []FullInv
<1>1. DeliveryInit => Accounted
  BY DEF DeliveryInit, Accounted, Log!LogInit
<1>2. FullInv /\ [DeliveryNext]_vars => FullInv'
  BY TypeStep, ShapeStep, RowsStep, AccountedStep DEF FullInv, LogInv
<1> QED
  BY LogInvInit, <1>1, <1>2, PTL DEF DeliverySpec, FullInv

(* "Recorded, never swallowed": when all runs are over and none has died,  *)
(* whatever left is in the log, even where two hosts ran into a deadlock.  *)
THEOREM DeliveryMailedIsLogged == DeliverySpec => []MailedIsLogged
<1>1. FullInv => MailedIsLogged
  <2> SUFFICES ASSUME FullInv, crashes = 0, running = {},
                      NEW k \in Keys, mails[k] > 0
               PROVE  k \in Log!KeysOf(ledger)
    BY DEF MailedIsLogged
  <2>1. \A h \in Hosts : result[h] = "none" /\ pending[h] = {}
    BY DEF FullInv, LogInv, RunShape
  <2>2. AllRows = ledger
    BY <2>1 DEF AllRows
  <2> QED
    BY <2>1, <2>2 DEF FullInv, Accounted, AtMailer
<1> QED
  BY <1>1, FullInvariant, PTL

(* "One bad recipient costs one recipient": a commit leaves nobody out.    *)
THEOREM DeliveryNobodyDropped == DeliverySpec => NobodyDropped
<1>1. FullInv /\ [DeliveryNext]_vars =>
        [\A h \in Hosts :
            Commit(h) /\ crashes = 0 =>
              owed[h] \subseteq
                Log!KeysOf(ledger' \cup UNION {pending'[g] : g \in Hosts})]_vars
  <2> SUFFICES ASSUME FullInv, NEW h \in Hosts, Commit(h), crashes = 0
               PROVE  owed[h] \subseteq Log!KeysOf(AllRows')
    BY DEF AllRows
  <2>1. \A k : ~StillToCome(h, k)
    BY DEF Commit, BetweenSubs, StillToCome
  <2>2. owed[h] \subseteq Log!KeysOf(AllRows)
    BY <2>1 DEF FullInv, Accounted
  <2>3. AllRows' = AllRows
    BY RowsOfCommit DEF FullInv, LogInv
  <2> QED
    BY <2>2, <2>3
<1> QED
  BY <1>1, FullInvariant, PTL DEF DeliverySpec, NobodyDropped

-----------------------------------------------------------------------------
(* Who has left a list stays off it, so what a run knew of the leavers when*)
(* it began still holds when it reads the members, however late.           *)
LeaversInv ==
    \A h \in Hosts :
        /\ leftBefore[h] \subseteq Off
        /\ \A p \in todo[h] \cup {one[h]} :
              cur[h] # NoSub => <<To[cur[h]], p>> \notin leftBefore[h]

LEMMA LeaversStep ==
    LogInv /\ LeaversInv /\ [DeliveryNext]_vars => LeaversInv'
<1> SUFFICES ASSUME LogInv, LeaversInv, [DeliveryNext]_vars PROVE LeaversInv'
  OBVIOUS
<1> USE DEF LogInv, DeliveryTypeOK, LeaversInv
<1>1. CASE Outside
  <2>1. Off \subseteq Off'
    <3>1. ASSUME NEW l \in Lists, NEW p \in People,
                 AddMember(l, p) \/ RemoveMember(l, p)
          PROVE  Off \subseteq Off'
      <4>1. PICK v \in {"on", "off"} :
               /\ standing' = [standing EXCEPT ![l][p] = v]
               /\ standing[l][p] # "off"
        BY <3>1 DEF AddMember, RemoveMember
      <4>2. \A k \in Lists, q \in People :
               standing[k][q] = "off" => standing'[k][q] = "off"
        BY <4>1
      <4> QED
        BY <4>2 DEF Off
    <3>2. CASE ~\E l \in Lists, p \in People :
                  AddMember(l, p) \/ RemoveMember(l, p)
      BY <1>1, <3>2 DEF Outside, SendHour, Midnight, News,
           CreateSubscription, DeleteSubscription, rosterVars, Off
    <3> QED
      BY <3>1, <3>2
  <2> QED
    BY <1>1, <2>1
       DEF Outside, SendHour, Midnight, News, CreateSubscription,
           DeleteSubscription, AddMember, RemoveMember, runVars
<1>2. ASSUME NEW h \in Hosts, DigestStep(h) \/ Crash(h) PROVE LeaversInv'
  <2>0. Off' = Off
    BY <1>2 DEF DigestStep, Savepoint, Start, Compose, Lookup, Send, Insert, InsertFails,
                NextRecipient, Commit, Crash, rosterVars, Off
  <2>1. CASE Start(h)
    <3>1. todo'[h] \cup {one'[h]} = {NoOne}
      BY <2>1 DEF Start, RunShape
    <3>2. \A l : <<l, NoOne>> \notin Off
      BY DEF Off
    <3> QED
      BY <2>0, <2>1, <3>1, <3>2 DEF Start
  <2>2. ASSUME NEW s \in Subs, Compose(h, s) PROVE LeaversInv'
    <3>1. \A p \in Recipients(s) \cup {NoOne} : <<To[s], p>> \notin Off
      BY DEF Recipients, Off
    <3> QED
      BY <2>0, <2>2, <3>1 DEF Compose, BetweenSubs
  <2>3. ASSUME NEW p \in People, Lookup(h, p) PROVE LeaversInv'
    BY <2>0, <2>3 DEF Lookup
  <2>4. CASE Send(h)
    BY <2>0, <2>4 DEF Send
  <2>5. CASE Insert(h) \/ InsertFails(h)
    <3>1. \A l : <<l, NoOne>> \notin Off
      BY DEF Off
    <3> QED
      BY <2>0, <2>5, <3>1 DEF Insert, InsertFails, NextRecipient
  <2>6. CASE Commit(h) \/ Crash(h)
    BY <2>0, <2>6 DEF Commit, Crash, Forget
  <2> QED
    BY <1>2, <2>1, <2>2, <2>3, <2>4, <2>5, <2>6 DEF DigestStep, Savepoint
<1>3. CASE UNCHANGED vars
  BY <1>3 DEF vars, runVars, rosterVars, Off
<1> QED
  BY <1>1, <1>2, <1>3 DEF DeliveryNext

(* Who was removed before a run began is sent nothing by it: add_member    *)
(* never takes back an address that has a row, whatever the row says.      *)
THEOREM DeliveryLeaversLeftAlone == DeliverySpec => []LeaversLeftAlone
<1>1. DeliveryInit => LeaversInv
  BY DEF DeliveryInit, LeaversInv
<1>2. LeaversInv /\ LogInv => LeaversLeftAlone
  BY DEF LeaversInv, LeaversLeftAlone, LogInv, DeliveryTypeOK
<1> QED
  BY <1>1, <1>2, LeaversStep, DeliveryInvariant, PTL DEF DeliverySpec

-----------------------------------------------------------------------------
(* One host: what is on its way was not in the log, and each message beyond*)
(* the one a row stands for was sent by a run that died.                   *)
Settled(h, k) == k \in Log!KeysOf(AllRows) \/ AtMailer(h, k)

SoloInv(h) ==
    /\ one[h] # NoOne => KeyFor(h, one[h]) \notin Log!KeysOf(AllRows)
    /\ \A k \in Keys :
          /\ mails[k] <= 1 + crashes
          /\ ~Settled(h, k) => mails[k] <= crashes

LEMMA SoloStep ==
    ASSUME NEW h, Hosts = {h}
    PROVE  LogInv /\ SoloInv(h) /\ [DeliveryNext]_vars => SoloInv(h)'
<1> SUFFICES ASSUME LogInv, SoloInv(h), [DeliveryNext]_vars PROVE SoloInv(h)'
  OBVIOUS
<1> USE DEF LogInv, DeliveryTypeOK
<1>0. h \in Hosts
  OBVIOUS
<1>t. crashes \in Nat /\ \A k \in Keys : mails[k] \in Nat
  BY DEF Log!LogTypeOK
<1>v. Visible(h) = Log!KeysOf(AllRows)
  <2>1. UNION {pending[g] : g \in Hosts} = pending[h]
    OBVIOUS
  <2> QED
    BY <2>1 DEF Visible, AllRows
<1>1. CASE Outside
  <2>1. UNCHANGED <<ledger, mails, crashes, runVars>>
    BY <1>1 DEF Outside, SendHour, Midnight, News, CreateSubscription,
                DeleteSubscription, AddMember, RemoveMember
  <2> QED
    BY <2>1 DEF runVars, AllRows, SoloInv, Settled, AtMailer, KeyFor
<1>2. CASE Start(h)
  BY <1>2 DEF Start, RunShape, SoloInv, Settled, AtMailer, AllRows, KeyFor
<1>3. ASSUME NEW s \in Subs, Compose(h, s) PROVE SoloInv(h)'
  <2>1. one'[h] = NoOne /\ result'[h] = "none" /\ result[h] = "none"
    BY <1>3 DEF Compose, BetweenSubs, RunShape
  <2> QED
    BY <1>3, <2>1 DEF Compose, SoloInv, Settled, AtMailer, AllRows
<1>4. ASSUME NEW p \in People, Lookup(h, p) PROVE SoloInv(h)'
  <2>1. result'[h] = "none" /\ result[h] = "none"
    BY <1>4 DEF Lookup, RunShape
  <2>2. AllRows' = AllRows /\ mails' = mails /\ crashes' = crashes
    BY <1>4 DEF Lookup, AllRows
  <2>3. one'[h] # NoOne =>
          KeyFor(h, one[h])' \notin Log!KeysOf(AllRows)
    BY <1>4, <1>v DEF Lookup, KeyFor
  <2> QED
    BY <2>1, <2>2, <2>3 DEF SoloInv, Settled, AtMailer, Log!KeysOf
<1>5. CASE Send(h)
  <2>1. KeyFor(h, one[h]) \in Keys
    BY <1>5, KeyForType DEF Send
  <2>2. PICK left \in 0..1 :
           mails' = [mails EXCEPT ![KeyFor(h, one[h])] = @ + left]
    BY <1>5 DEF Send
  <2>3. /\ AllRows' = AllRows /\ crashes' = crashes /\ one' = one
        /\ KeyFor(h, one[h])' = KeyFor(h, one[h])
        /\ result'[h] # "none" /\ result[h] = "none" /\ one[h] # NoOne
    BY <1>5 DEF Send, AllRows, KeyFor
  <2>4. mails[KeyFor(h, one[h])] <= crashes
    BY <2>1, <2>3 DEF SoloInv, Settled, AtMailer
  <2>5. \A k \in Keys :
           mails'[k] = IF k = KeyFor(h, one[h]) THEN mails[k] + left
                                                ELSE mails[k]
    BY <2>1, <2>2 DEF Log!LogTypeOK
  <2>6. mails'[KeyFor(h, one[h])] <= 1 + crashes
    BY <2>1, <2>4, <2>5, <1>t
  <2>7. \A k \in Keys : k # KeyFor(h, one[h]) =>
           mails'[k] = mails[k] /\ (Settled(h, k)' <=> Settled(h, k))
    BY <2>3, <2>5 DEF Settled, AtMailer, Log!KeysOf
  <2>8. \A k \in Keys : k = KeyFor(h, one[h]) => Settled(h, k)'
    BY <2>3 DEF Settled, AtMailer
  <2> QED
    BY <2>3, <2>6, <2>7, <2>8 DEF SoloInv, Log!KeysOf
<1>6. CASE Savepoint(h) /\ Insert(h)
  <2>1. /\ AllRows' = AllRows \cup {RowFor(h)}
        /\ mails' = mails /\ crashes' = crashes /\ one'[h] = NoOne
    BY <1>6, RowsOfInsert DEF Insert, NextRecipient
  <2>2. RowFor(h).key = KeyFor(h, one[h])
    BY DEF RowFor
  <2>3. \A k \in Keys : Settled(h, k) => Settled(h, k)'
    BY <2>1, <2>2 DEF Settled, AtMailer, Log!KeysOf
  <2> QED
    BY <2>1, <2>3 DEF SoloInv
<1>7. CASE Savepoint(h) /\ InsertFails(h)
  <2>1. ~Deadlocked(h)
    BY DEF Deadlocked, Waits
  <2>2. one[h] # NoOne
    BY <1>7 DEF Savepoint, InsertFails, RunShape
  <2> QED
    BY <1>7, <2>1, <2>2, <1>v DEF InsertFails, SoloInv
<1>8. CASE Commit(h)
  <2>1. AllRows' = AllRows /\ mails' = mails /\ crashes' = crashes
    BY <1>8, RowsOfCommit DEF Commit
  <2>2. one'[h] = NoOne /\ result'[h] = "none" /\ result[h] = "none"
    BY <1>8 DEF Commit, Forget, BetweenSubs, RunShape
  <2> QED
    BY <2>1, <2>2 DEF SoloInv, Settled, AtMailer
<1>9. CASE Crash(h)
  <2>1. mails' = mails /\ crashes' = crashes + 1 /\ one'[h] = NoOne
    BY <1>9 DEF Crash, Forget
  <2> QED
    BY <2>1, <1>t DEF SoloInv
<1>10. CASE UNCHANGED vars
  BY <1>10 DEF vars, runVars, SoloInv, Settled, AtMailer, AllRows, KeyFor
<1> QED
  BY <1>0, <1>1, <1>2, <1>3, <1>4, <1>5, <1>6, <1>7, <1>8, <1>9, <1>10
     DEF DeliveryNext, DigestStep, Savepoint

(* With one host, the dedup key lets a digest out once more only for a run *)
(* that died between sending and committing.                               *)
THEOREM DeliveryOneCopyPerRun ==
    ASSUME NEW h, Hosts = {h}
    PROVE  DeliverySpec => []OneCopyPerRun
<1>1. DeliveryInit => SoloInv(h)
  BY DEF DeliveryInit, SoloInv, Log!LogInit
<1>2. SoloInv(h) => OneCopyPerRun
  BY DEF SoloInv, OneCopyPerRun
<1> QED
  BY <1>1, <1>2, SoloStep, DeliveryInvariant, PTL DEF DeliverySpec
=============================================================================
