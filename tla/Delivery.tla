------------------------------ MODULE Delivery ------------------------------
(***************************************************************************)
(* The digest worker and the routes that say who gets a digest.  A run     *)
(* reads the clock and the subscriptions once, composes the digest of one  *)
(* subscription after the other, and for each recipient looks the dedup    *)
(* key up, sends, and inserts a row in a savepoint; one commit at the end  *)
(* makes all its rows visible.  Every host runs the worker, Enabled ones   *)
(* send.  Between any two steps other runs, the routes and the news go on. *)
(***************************************************************************)
EXTENDS Naturals, FiniteSets

CONSTANTS
    Hosts,       \* processes that run the digest worker
    Enabled,     \* those with EMAIL_SEND_ENABLED and a mail server
    Subs,        \* alert subscriptions
    Weekly,      \* those with the weekly cadence, the others are daily
    Lists,       \* distribution lists
    People,      \* e-mail addresses
    To,          \* whom a subscription is for: a list, or one person
    Situations,  \* events near a site
    DaysPerWeek,
    MaxDay,      \* bound of the model: days
    MaxCrashes,  \* bound of the model: runs that die before their commit
    NoSub, NoOne

ASSUME DeliveryAssumption ==
    /\ Enabled \subseteq Hosts
    /\ Weekly \subseteq Subs
    /\ To \in [Subs -> Lists \cup People]
    /\ Lists \cap People = {}
    /\ IsFiniteSet(Situations)
    /\ DaysPerWeek \in Nat \ {0}
    /\ MaxDay \in Nat /\ MaxCrashes \in Nat
    /\ NoSub \notin Subs /\ NoOne \notin People

VARIABLES
    ledger,    \* committed rows of deliveries
    mails,     \* messages that left, per dedup key
    day, due,  \* the clock: the day, and whether the send hour has passed
    stage,     \* what a digest composed now says of each situation
    status,    \* of a subscription: "new", "active", "deleted"
    standing,  \* of a person on a list: "none", "on", "off"
    crashes,   \* how many runs died
    running,   \* hosts with a run under way
    at,        \* the day its `now` was read
    subsTodo,  \* due subscriptions it has not come to
    cur,       \* the subscription it is at
    digest,    \* what it composed for it
    todo,      \* recipients it has not come to
    one,       \* the recipient whose key it found free
    result,    \* what the mailer returned for that one, "none" before
    pending,   \* rows it inserted and has not committed
    owed,      \* history: keys of everyone it composed a digest for
    leftBefore \* history: who had left which list when it began

clockVars == <<day, due>>
rosterVars == <<status, standing>>
runVars == <<running, at, subsTodo, cur, digest, todo, one, result, pending,
             owed, leftBefore>>
vars == <<ledger, mails, clockVars, stage, rosterVars, crashes, runVars>>

-----------------------------------------------------------------------------
Stages == {"out", "held", "escalated"}
Contents == [Situations -> Stages]

\* Which situations are escalated and how many are held, not which.
Hash(c) == [escalated |-> {x \in Situations : c[x] = "escalated"},
            held      |-> Cardinality({x \in Situations : c[x] = "held"})]

\* The day, or the number of the week.
Window(s, d) == IF s \in Weekly THEN d \div DaysPerWeek ELSE d

\* At or after the send hour, for a weekly digest of a Monday.
IsDue(s) == due /\ (s \in Weekly => day % DaysPerWeek = 0)

Keys == [sub : Subs, to : People, window : 0..MaxDay,
         hash : [escalated : SUBSET Situations,
                 held : 0..Cardinality(Situations)]]

Key(s, p, d, c) ==
    [sub |-> s, to |-> p, window |-> Window(s, d), hash |-> Hash(c)]

Log == INSTANCE DeliveryLog

RecipientsEver(s) == \* mutant: no is_active filter
    IF To[s] \in People THEN {To[s]}
                        ELSE {p \in People : standing[To[s]][p] # "none"}

\* The one person, or the members of the list that have not left it.
Recipients(s) ==
    IF To[s] \in People THEN {To[s]}
                        ELSE {p \in People : standing[To[s]][p] = "on"}

Off == {m \in Lists \X People : standing[m[1]][m[2]] = "off"}

DeliveryTypeOK ==
    /\ Log!LogTypeOK
    /\ day \in 0..MaxDay /\ due \in BOOLEAN
    /\ stage \in Contents
    /\ status \in [Subs -> {"new", "active", "deleted"}]
    /\ standing \in [Lists -> [People -> {"none", "on", "off"}]]
    /\ crashes \in 0..MaxCrashes
    /\ running \subseteq Hosts
    /\ at \in [Hosts -> 0..MaxDay]
    /\ subsTodo \in [Hosts -> SUBSET Subs]
    /\ cur \in [Hosts -> Subs \cup {NoSub}]
    /\ digest \in [Hosts -> Contents]
    /\ todo \in [Hosts -> SUBSET People]
    /\ one \in [Hosts -> People \cup {NoOne}]
    /\ result \in [Hosts -> Log!Statuses \cup {"none"}]
    /\ pending \in [Hosts -> SUBSET Log!Rows]
    /\ owed \in [Hosts -> SUBSET Keys]
    /\ leftBefore \in [Hosts -> SUBSET (Lists \X People)]

Quiet == [x \in Situations |-> "out"]

DeliveryInit ==
    /\ Log!LogInit
    /\ day = 0 /\ due = FALSE
    /\ stage = Quiet
    /\ status = [s \in Subs |-> "new"]
    /\ standing = [l \in Lists |-> [p \in People |-> "none"]]
    /\ crashes = 0
    /\ running = {}
    /\ at = [h \in Hosts |-> 0]
    /\ subsTodo = [h \in Hosts |-> {}]
    /\ cur = [h \in Hosts |-> NoSub]
    /\ digest = [h \in Hosts |-> Quiet]
    /\ todo = [h \in Hosts |-> {}]
    /\ one = [h \in Hosts |-> NoOne]
    /\ result = [h \in Hosts |-> "none"]
    /\ pending = [h \in Hosts |-> {}]
    /\ owed = [h \in Hosts |-> {}]
    /\ leftBefore = [h \in Hosts |-> {}]

-----------------------------------------------------------------------------
(* The world and the routes.                                               *)

SendHour ==
    /\ ~due /\ due' = TRUE
    /\ UNCHANGED <<ledger, mails, day, stage, rosterVars, crashes, runVars>>

Midnight ==
    /\ due /\ day < MaxDay
    /\ day' = day + 1 /\ due' = FALSE
    /\ UNCHANGED <<ledger, mails, stage, rosterVars, crashes, runVars>>

\* A situation comes up with one outlet or with two, is corroborated, or
\* leaves the window.  Outlets are never taken away, so no way leads back
\* from escalated to held.
News(x) ==
    /\ \E to \in Stages \ {stage[x]} :
          /\ ~(stage[x] = "escalated" /\ to = "held")
          /\ stage' = [stage EXCEPT ![x] = to]
    /\ UNCHANGED <<ledger, mails, clockVars, rosterVars, crashes, runVars>>

CreateSubscription(s) ==
    /\ status[s] = "new"
    /\ status' = [status EXCEPT ![s] = "active"]
    /\ UNCHANGED <<ledger, mails, clockVars, stage, standing, crashes,
                   runVars>>

DeleteSubscription(s) ==
    /\ status[s] = "active"
    /\ status' = [status EXCEPT ![s] = "deleted"]
    /\ UNCHANGED <<ledger, mails, clockVars, stage, standing, crashes,
                   runVars>>

\* An address with a row is refused, whatever its row says.
AddMember(l, p) ==
    /\ standing[l][p] = "none"
    /\ standing' = [standing EXCEPT ![l][p] = "on"]
    /\ UNCHANGED <<ledger, mails, clockVars, stage, status, crashes, runVars>>

RemoveMember(l, p) ==
    /\ standing[l][p] = "on"
    /\ standing' = [standing EXCEPT ![l][p] = "off"]
    /\ UNCHANGED <<ledger, mails, clockVars, stage, status, crashes, runVars>>

Outside ==
    \/ SendHour \/ Midnight
    \/ \E x \in Situations : News(x)
    \/ \E s \in Subs : CreateSubscription(s) \/ DeleteSubscription(s)
    \/ \E l \in Lists, p \in People : AddMember(l, p) \/ RemoveMember(l, p)

-----------------------------------------------------------------------------
(* A run of the worker on host h.                                          *)

Start(h) ==
    /\ h \notin running
    /\ running' = running \cup {h}
    /\ at' = [at EXCEPT ![h] = day]
    /\ subsTodo' = [subsTodo EXCEPT
                      ![h] = {s \in Subs : status[s] = "active" /\ IsDue(s)}]
    /\ leftBefore' = [leftBefore EXCEPT ![h] = Off]
    /\ UNCHANGED <<ledger, mails, clockVars, stage, rosterVars, crashes, cur,
                   digest, todo, one, result, pending, owed>>

\* The recipients of the current subscription are all done.
BetweenSubs(h) == h \in running /\ todo[h] = {} /\ one[h] = NoOne

ComposeSilent(h, s) == \* mutant: a digest that escalates nothing is not sent
    /\ BetweenSubs(h) /\ s \in subsTodo[h]
    /\ subsTodo' = [subsTodo EXCEPT ![h] = @ \ {s}]
    /\ cur' = [cur EXCEPT ![h] = s]
    /\ digest' = [digest EXCEPT ![h] = stage]
    /\ todo' = [todo EXCEPT ![h] =
                  {p \in Recipients(s) :
                     \E x \in Situations : stage[x] = "escalated"}]
    /\ UNCHANGED <<ledger, mails, clockVars, stage, rosterVars, crashes,
                   running, at, one, result, pending, owed,
                   leftBefore>>

Compose(h, s) ==
    /\ BetweenSubs(h) /\ s \in subsTodo[h]
    /\ subsTodo' = [subsTodo EXCEPT ![h] = @ \ {s}]
    /\ cur' = [cur EXCEPT ![h] = s]
    /\ digest' = [digest EXCEPT ![h] = stage]
    /\ todo' = [todo EXCEPT ![h] = Recipients(s)]
    /\ owed' = [owed EXCEPT
                  ![h] = @ \cup {Key(s, p, at[h], stage) : p \in Recipients(s)}]
    /\ UNCHANGED <<ledger, mails, clockVars, stage, rosterVars, crashes,
                   running, at, one, result, pending, leftBefore>>

KeyFor(h, p) == Key(cur[h], p, at[h], digest[h])

\* The rows that a query of this run sees.
Visible(h) == Log!KeysOf(ledger \cup pending[h])

LookupNone(h, p) == \* mutant: left to the unique index
    /\ one[h] = NoOne /\ p \in todo[h]
    /\ todo' = [todo EXCEPT ![h] = @ \ {p}]
    /\ one' = [one EXCEPT ![h] = p]
    /\ UNCHANGED <<ledger, mails, clockVars, stage, rosterVars, crashes,
                   running, at, subsTodo, cur, digest, result, pending, owed,
                   leftBefore>>

\* The key is taken: passed over.  Otherwise the message is rendered.
Lookup(h, p) ==
    /\ one[h] = NoOne /\ p \in todo[h]
    /\ todo' = [todo EXCEPT ![h] = @ \ {p}]
    /\ one' = IF KeyFor(h, p) \in Visible(h) THEN one
                                             ELSE [one EXCEPT ![h] = p]
    /\ UNCHANGED <<ledger, mails, clockVars, stage, rosterVars, crashes,
                   running, at, subsTodo, cur, digest, result, pending, owed,
                   leftBefore>>

\* A disabled host refuses.  An enabled one sends, or the server raises,
\* before or after it has accepted the message.
Send(h) ==
    /\ one[h] # NoOne /\ result[h] = "none"
    /\ \E r \in IF h \in Enabled THEN {"sent", "failed"} ELSE {"suppressed"},
          left \in 0..1 :
          /\ r = "sent" => left = 1
          /\ r = "suppressed" => left = 0
          /\ result' = [result EXCEPT ![h] = r]
          /\ mails' = [mails EXCEPT ![KeyFor(h, one[h])] = @ + left]
    /\ UNCHANGED <<ledger, clockVars, stage, rosterVars, crashes, running, at,
                   subsTodo, cur, digest, todo, one, pending, owed,
                   leftBefore>>

WaitsNever(h, g) == FALSE \* mutant: dedup_key is not UNIQUE

\* The unique index: an insert waits for the transaction that holds the key.
Waits(h, g) ==
    /\ g # h /\ result[h] # "none"
    /\ KeyFor(h, one[h]) \in Log!KeysOf(pending[g])

\* Hosts that wait for each other in a circle; the database gives up one.
Deadlocked(h) ==
    \E S \in SUBSET Hosts :
        /\ h \in S
        /\ \A g \in S : (\E f \in S : Waits(g, f)) /\ (\E f \in S : Waits(f, g))

\* The savepoint ends, with the row or without it: on to the next recipient.
NextRecipient(h) ==
    /\ one' = [one EXCEPT ![h] = NoOne]
    /\ result' = [result EXCEPT ![h] = "none"]
    /\ UNCHANGED <<ledger, mails, clockVars, stage, rosterVars, crashes,
                   running, at, subsTodo, cur, digest, todo, owed, leftBefore>>

Insert(h) ==
    /\ \A g \in Hosts : ~Waits(h, g)
    /\ KeyFor(h, one[h]) \notin Visible(h)
    /\ pending' = [pending EXCEPT
                     ![h] = @ \cup {[key    |-> KeyFor(h, one[h]),
                                     status |-> result[h],
                                     said   |-> digest[h]]}]
    /\ NextRecipient(h)

InsertPoisons(h) == \* mutant: no savepoint, the rows before are lost too
    /\ KeyFor(h, one[h]) \in Visible(h) \/ Deadlocked(h)
    /\ pending' = [pending EXCEPT ![h] = {}]
    /\ NextRecipient(h)

InsertFails(h) ==
    /\ KeyFor(h, one[h]) \in Visible(h) \/ Deadlocked(h)
    /\ UNCHANGED pending
    /\ NextRecipient(h)

\* The savepoint of one recipient, once the send has ended: the row goes in,
\* or it is refused and the run goes on without it.
Savepoint(h) ==
    /\ result[h] # "none"
    /\ Insert(h) \/ InsertFails(h)

\* The run is over: nothing of it is left.
Forget(h) ==
    /\ running' = running \ {h}
    /\ at' = [at EXCEPT ![h] = 0]
    /\ subsTodo' = [subsTodo EXCEPT ![h] = {}]
    /\ cur' = [cur EXCEPT ![h] = NoSub]
    /\ digest' = [digest EXCEPT ![h] = Quiet]
    /\ todo' = [todo EXCEPT ![h] = {}]
    /\ one' = [one EXCEPT ![h] = NoOne]
    /\ result' = [result EXCEPT ![h] = "none"]
    /\ pending' = [pending EXCEPT ![h] = {}]
    /\ owed' = [owed EXCEPT ![h] = {}]
    /\ leftBefore' = [leftBefore EXCEPT ![h] = {}]

Commit(h) ==
    /\ BetweenSubs(h) /\ subsTodo[h] = {}
    /\ ledger' = ledger \cup pending[h]
    /\ Forget(h)
    /\ UNCHANGED <<mails, clockVars, stage, rosterVars, crashes>>

\* The process dies, or something outside the savepoints raises.
Crash(h) ==
    /\ h \in running /\ crashes < MaxCrashes
    /\ crashes' = crashes + 1
    /\ Forget(h)
    /\ UNCHANGED <<ledger, mails, clockVars, stage, rosterVars>>

DigestStep(h) ==
    \/ Start(h)
    \/ \E s \in Subs : Compose(h, s)
    \/ \E p \in People : Lookup(h, p)
    \/ Send(h) \/ Savepoint(h) \/ Commit(h)

DeliveryNext == Outside \/ \E h \in Hosts : DigestStep(h) \/ Crash(h)

DeliverySpec == DeliveryInit /\ [][DeliveryNext]_vars

\* The interval loop of every scheduler goes on for ever.
LiveDeliverySpec == DeliverySpec /\ \A h \in Hosts : WF_vars(DigestStep(h))

-----------------------------------------------------------------------------
(* Properties.                                                             *)

LogSpec == Log!LogSpec
OneRowPerKey == Log!OneRowPerKey

\* Where no run dies, one that commits leaves nobody out: whoever it composed
\* a digest for has a row, its own or one that another run has yet to commit,
\* and an insert that failed costs its own recipient only (the savepoints).
NobodyDropped ==
    [][\A h \in Hosts :
          Commit(h) /\ crashes = 0 =>
            owed[h] \subseteq
              Log!KeysOf(ledger' \cup UNION {pending'[g] : g \in Hosts})]_vars

\* A message that left is in the log once all is quiet, unless a run died.
MailedIsLogged ==
    crashes = 0 /\ running = {} =>
        \A k \in Keys : mails[k] > 0 => k \in Log!KeysOf(ledger)

\* A run sends nothing to who had left the list before it began.
LeaversLeftAlone ==
    \A h \in running :
        \A p \in todo[h] \cup {one[h]} :
            cur[h] # NoSub => <<To[cur[h]], p>> \notin leftBefore[h]

\* With one host, only a run that died makes a digest go out once more.
OneCopyPerRun == \A k \in Keys : mails[k] <= 1 + crashes

\* An empty digest is an answer too: who is subscribed on a due day has a
\* row for its window in the end, unless the day ends or the person leaves.
Answered(s, p) ==
    \E r \in ledger : /\ r.key.sub = s /\ r.key.to = p
                      /\ r.key.window = Window(s, day)

Awaited(s, p) ==
    IsDue(s) /\ status[s] = "active" /\ p \in Recipients(s)

EveryoneAnswered ==
    \A s \in Subs, p \in People :
        Awaited(s, p) ~> (Answered(s, p) \/ ~Awaited(s, p))

=============================================================================
