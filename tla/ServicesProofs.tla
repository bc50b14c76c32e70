--------------------------- MODULE ServicesProofs ---------------------------
(***************************************************************************)
(* Proofs about Tenancy, Plans, Advice, Travel and, in the last part,      *)
(* Signals.  A request acts on what it read; the invariants say that this  *)
(* is still so while nobody else has committed, which is all that stands   *)
(* between an organization and losing its last admin, between a free       *)
(* account and a follow too many, and between an advice library and two    *)
(* current sheets.                                                         *)
(***************************************************************************)
EXTENDS Signals, Tenancy, Plans, Advice, Travel, WellFoundedInduction, FiniteSetTheorems, SequenceTheorems, TLAPS

\* A row that was there is still there.  And what the answer of a request that nobody
\* overtook rests on: the row is the one it read, one that is added is not active,
\* and whoever steps down is not alone.
UpToDate(q) ==
    /\ q.seen # NoMembership => memberships[q.org][q.user] # NoMembership
    /\ q.current =>
        /\ q.seen = memberships[q.org][q.user]
        /\ q.op = "add" => ~q.seen.active
        /\ q.op = "remove" \/ (q.op = "update" /\ q.role # "admin") => LeavesAnAdmin(q.org, q.user)

TenancyInv ==
    /\ TenancyTypeOK
    /\ \A r \in Requests : asked[r] # NoRequest => UpToDate(asked[r])

LEMMA NoRequestIsNone == NoRequest \notin Request
<1> SUFFICES ASSUME NoRequest \in Request PROVE FALSE
  OBVIOUS
<1>1. NoRequest.op = "idle" /\ NoRequest.op \in {"create", "add", "update", "remove"}
  BY DEF NoRequest, Request
<1> QED BY <1>1

\* Of more than one, one is left when one goes.
LEMMA AnotherIsLeft ==
    ASSUME NEW S, Cardinality(S) > 1, NEW u
    PROVE  \E v \in S : v # u
<1> SUFFICES ASSUME \A v \in S : v = u PROVE FALSE
  OBVIOUS
<1>1. CASE S = {}
  BY <1>1, FS_EmptySet
<1>2. CASE S # {}
  <2>1. S = {u}
    BY <1>2
  <2>2. Cardinality({u}) = 1
    BY FS_Singleton
  <2> QED BY <2>1, <2>2
<1> QED BY <1>1, <1>2

LEMMA TenancyInvInit == ASSUME TenancyInit PROVE TenancyInv
  BY DEF TenancyInit, TenancyInv, TenancyTypeOK, UpToDate

\* Reading a request changes no table and leaves the other requests as they are.
LEMMA AskPreserves ==
    ASSUME TenancyInv, NEW r \in Requests, NEW op \in {"create", "add", "update", "remove"},
           NEW o \in Orgs, NEW u \in Users, NEW role \in Roles, Asks(r, op, o, u, role),
           op = "add" => ~memberships[o][u].active,
           op = "remove" \/ (op = "update" /\ role # "admin") => LeavesAnAdmin(o, u)
    PROVE  TenancyInv'
<1> DEFINE new == [op |-> op, org |-> o, user |-> u, role |-> role,
                   seen |-> memberships[o][u], current |-> TRUE]
<1>1. /\ founded \subseteq Orgs /\ commits \in Nat
      /\ memberships \in [Orgs -> [Users -> Row \cup {NoMembership}]]
      /\ asked \in [Requests -> Request \cup {NoRequest}]
  BY DEF TenancyInv, TenancyTypeOK
<1>2. new \in Request
  BY <1>1 DEF Request
<1>3. asked' = [asked EXCEPT ![r] = new] /\ UNCHANGED <<founded, memberships, commits>>
  BY DEF Asks
<1>4. TenancyTypeOK'
  <2>1. asked' \in [Requests -> Request \cup {NoRequest}]
    BY <1>1, <1>2, <1>3
  <2> QED BY <1>1, <1>3, <2>1 DEF TenancyTypeOK
<1>5. ASSUME NEW s \in Requests, asked'[s] # NoRequest PROVE UpToDate(asked[s])'
  <2>1. CASE s = r
    <3>1. asked'[s] = new
      BY <1>1, <1>3, <2>1
    <3>2. LeavesAnAdmin(o, u)' <=> LeavesAnAdmin(o, u)
      BY <1>3 DEF LeavesAnAdmin, Admins, ActsAsAdmin, MembershipOf
    <3>3. /\ asked'[s].op = op /\ asked'[s].org = o /\ asked'[s].user = u /\ asked'[s].role = role
          /\ asked'[s].seen = memberships'[o][u]
      BY <1>3, <3>1
    <3> QED BY <1>3, <3>2, <3>3 DEF UpToDate
  <2>2. CASE s # r
    <3>1. asked'[s] = asked[s]
      BY <1>1, <1>3, <2>2
    <3>2. UpToDate(asked[s])
      BY <1>5, <3>1 DEF TenancyInv
    <3> QED BY <1>3, <3>1, <3>2 DEF UpToDate, LeavesAnAdmin, Admins, ActsAsAdmin, MembershipOf
  <2> QED BY <2>1, <2>2
<1> QED BY <1>4, <1>5 DEF TenancyInv

\* What a commit does to the tables and to the other requests.
LEMMA CommitPreserves ==
    ASSUME TenancyInv, NEW r \in Requests, CommitRequest(r)
    PROVE  TenancyInv'
<1> DEFINE q == asked[r]
<1>1. /\ founded \subseteq Orgs /\ commits \in Nat
      /\ memberships \in [Orgs -> [Users -> Row \cup {NoMembership}]]
      /\ asked \in [Requests -> Request \cup {NoRequest}]
  BY DEF TenancyInv, TenancyTypeOK
<1>2. q \in Request
  BY <1>1 DEF CommitRequest
<1>3. Assigned(q) \in Row
  <2>1. q.org \in Orgs /\ q.user \in Users /\ q.role \in Roles /\ q.seen \in Row \cup {NoMembership}
    BY <1>2 DEF Request
  <2>2. memberships[q.org][q.user] \in Row \cup {NoMembership}
    BY <1>1, <2>1
  <2>3. q.seen # NoMembership => memberships[q.org][q.user] # NoMembership
    BY DEF TenancyInv, UpToDate, CommitRequest
  <2>4. q.seen # NoMembership => memberships[q.org][q.user] \in Row
    BY <2>2, <2>3
  <2>5. Assigned(q).role \in Roles
    BY <2>1, <2>4 DEF Assigned, Row
  <2>6. Assigned(q) = [role |-> Assigned(q).role, active |-> Assigned(q).active] /\ Assigned(q).active \in BOOLEAN
    BY DEF Assigned
  <2> QED BY <2>5, <2>6 DEF Row
<1>4. Assigned(q) # NoMembership
  BY <1>3 DEF Row, NoMembership, Roles
<1>5. /\ memberships' = [memberships EXCEPT ![q.org][q.user] = Assigned(q)]
      /\ founded' = founded \cup {q.org} /\ commits' = commits + 1
      /\ asked' = Answered(r)
  BY DEF CommitRequest
<1>6. TenancyTypeOK'
  <2>1. q.org \in Orgs /\ q.user \in Users
    BY <1>2 DEF Request
  <2>2. memberships' \in [Orgs -> [Users -> Row \cup {NoMembership}]]
    BY <1>1, <1>3, <1>5, <2>1
  <2>3. ASSUME NEW t \in Request PROVE [t EXCEPT !.current = FALSE] \in Request
    BY DEF Request
  <2>4. asked' \in [Requests -> Request \cup {NoRequest}]
    BY <1>1, <1>5, <2>3 DEF Answered
  <2> QED BY <1>1, <1>5, <2>1, <2>2, <2>4 DEF TenancyTypeOK
<1>7. ASSUME NEW s \in Requests, asked'[s] # NoRequest PROVE UpToDate(asked[s])'
  <2>1. s # r /\ asked[s] # NoRequest /\ asked'[s] = [asked[s] EXCEPT !.current = FALSE]
    BY <1>5, <1>7 DEF Answered
  <2>2. asked[s] \in Request /\ UpToDate(asked[s])
    BY <1>1, <2>1 DEF TenancyInv
  <2> DEFINE t == asked[s]
  <2>3. /\ asked'[s].current = FALSE /\ asked'[s].seen = t.seen
        /\ asked'[s].org = t.org /\ asked'[s].user = t.user /\ t.org \in Orgs /\ t.user \in Users
    BY <2>1, <2>2 DEF Request
  <2>4. memberships[t.org][t.user] # NoMembership => memberships'[t.org][t.user] # NoMembership
    BY <1>1, <1>4, <1>5, <2>3
  <2>5. t.seen # NoMembership => memberships[t.org][t.user] # NoMembership
    BY <2>2 DEF UpToDate
  <2> QED BY <2>3, <2>4, <2>5 DEF UpToDate
<1> QED BY <1>6, <1>7 DEF TenancyInv

LEMMA DropPreserves ==
    ASSUME TenancyInv, NEW r \in Requests, DropRequest(r)
    PROVE  TenancyInv'
<1>1. asked' = [asked EXCEPT ![r] = NoRequest] /\ UNCHANGED <<founded, memberships, commits>>
  BY DEF DropRequest
<1>2. TenancyTypeOK'
  BY <1>1 DEF TenancyInv, TenancyTypeOK
<1>3. ASSUME NEW s \in Requests, asked'[s] # NoRequest PROVE UpToDate(asked[s])'
  <2>1. asked'[s] = asked[s] /\ asked[s] # NoRequest
    BY <1>1, <1>3 DEF TenancyInv, TenancyTypeOK
  <2>2. UpToDate(asked[s])
    BY <2>1 DEF TenancyInv
  <2> QED BY <1>1, <2>1, <2>2 DEF UpToDate, LeavesAnAdmin, Admins, ActsAsAdmin, MembershipOf
<1> QED BY <1>2, <1>3 DEF TenancyInv

LEMMA TenancyInvNext ==
    ASSUME TenancyInv, [TenancyNext]_tenancyVars
    PROVE  TenancyInv'
<1>1. ASSUME NEW r \in Requests, NEW u \in Users, NEW o \in Orgs, AskCreate(r, u, o) PROVE TenancyInv'
  BY <1>1, AskPreserves DEF AskCreate, Roles
<1>2. ASSUME NEW r \in Requests, NEW by \in Users, NEW u \in Users, NEW o \in Orgs, NEW role \in Roles,
             AskAdd(r, by, o, u, role)
      PROVE TenancyInv'
  BY <1>2, AskPreserves DEF AskAdd, MembershipOf
<1>3. ASSUME NEW r \in Requests, NEW by \in Users, NEW u \in Users, NEW o \in Orgs, NEW role \in Roles,
             AskUpdate(r, by, o, u, role)
      PROVE TenancyInv'
  BY <1>3, AskPreserves DEF AskUpdate
<1>4. ASSUME NEW r \in Requests, NEW by \in Users, NEW u \in Users, NEW o \in Orgs, AskRemove(r, by, o, u)
      PROVE TenancyInv'
  <2>1. memberships[o][u].role \in Roles
    <3>1. memberships[o][u] \in Row \cup {NoMembership} /\ memberships[o][u].active
      BY <1>4 DEF AskRemove, MembershipOf, TenancyInv, TenancyTypeOK
    <3> QED BY <3>1 DEF Row, NoMembership
  <2> QED BY <1>4, <2>1, AskPreserves DEF AskRemove
<1>5. ASSUME NEW r \in Requests, CommitRequest(r) PROVE TenancyInv'
  BY <1>5, CommitPreserves
<1>6. ASSUME NEW r \in Requests, DropRequest(r) PROVE TenancyInv'
  BY <1>6, DropPreserves
<1>7. CASE UNCHANGED tenancyVars
  <2>1. UNCHANGED <<founded, memberships, asked, commits>>
    BY <1>7 DEF tenancyVars
  <2> QED BY <2>1 DEF TenancyInv, TenancyTypeOK, UpToDate, LeavesAnAdmin, Admins, ActsAsAdmin, MembershipOf
<1> QED BY <1>1, <1>2, <1>3, <1>4, <1>5, <1>6, <1>7 DEF TenancyNext

\* api/routes/org.py: types, for any organizations, users and number of requests at once.
THEOREM TenancyTypeCorrect == TenancySpec => []TenancyTypeOK
<1>1. TenancyInv => TenancyTypeOK
  BY DEF TenancyInv
<1> QED BY <1>1, TenancyInvInit, TenancyInvNext, PTL DEF TenancySpec
-----------------------------------------------------------------------------
\* The commit of a request that nobody overtook leaves an admin.
LEMMA CommitLeavesAnAdmin ==
    ASSUME TenancyInv, NEW r \in Requests, CommitRequest(r), asked[r].current,
           NEW o \in founded, Admins(o) # {}
    PROVE  Admins(o)' # {}
<1> DEFINE q == asked[r]
<1>1. /\ founded \subseteq Orgs
      /\ memberships \in [Orgs -> [Users -> Row \cup {NoMembership}]]
      /\ q \in Request /\ q # NoRequest
  BY DEF TenancyInv, TenancyTypeOK, CommitRequest
<1>2. q.org \in Orgs /\ q.user \in Users /\ q.role \in Roles
  BY <1>1 DEF Request
<1>3. memberships' = [memberships EXCEPT ![q.org][q.user] = Assigned(q)]
  BY DEF CommitRequest
<1>4. UpToDate(q)
  BY <1>1 DEF TenancyInv
\* Whoever is an admin of o and is not the one written about stays one.
<1>5. ASSUME NEW v \in Admins(o), o # q.org \/ v # q.user PROVE v \in Admins(o)'
  <2>1. v \in Users /\ memberships'[o][v] = memberships[o][v]
    BY <1>1, <1>2, <1>3, <1>5 DEF Admins
  <2> QED BY <1>5, <2>1 DEF Admins, ActsAsAdmin, MembershipOf
<1>6. CASE q.user \notin Admins(o) \/ o # q.org
  BY <1>5, <1>6
<1>7. CASE q.user \in Admins(o) /\ o = q.org
  <2>1. q.seen = memberships[o][q.user] /\ q.seen.active /\ q.seen.role = "admin" /\ q.seen # NoMembership
    BY <1>4, <1>7 DEF UpToDate, Admins, ActsAsAdmin, MembershipOf, NoMembership
  <2>2. q.op # "add"
    BY <1>4, <2>1 DEF UpToDate
  <2>3. q.op # "create"
    BY <1>1, <1>7 DEF CommitRequest, UniqueRefuses
  <2>4. CASE q.op = "update" /\ q.role = "admin"
    <3>1. Assigned(q).role = "admin" /\ Assigned(q).active
      BY <2>1, <2>4, <1>7 DEF Assigned
    <3>2. memberships'[o][q.user] = Assigned(q)
      BY <1>1, <1>2, <1>3, <1>7
    <3> QED BY <1>2, <3>1, <3>2 DEF Admins, ActsAsAdmin, MembershipOf
  <2>5. CASE q.op = "remove" \/ (q.op = "update" /\ q.role # "admin")
    <3>1. Cardinality(Admins(o)) > 1
      BY <1>4, <1>7, <2>1, <2>5 DEF UpToDate, LeavesAnAdmin
    <3>2. PICK v \in Admins(o) : v # q.user
      BY <3>1, AnotherIsLeft
    <3> QED BY <1>5, <3>2
  <2> QED BY <1>1, <2>2, <2>3, <2>4, <2>5 DEF Request
<1> QED BY <1>6, <1>7

\* org.py:184-191: only a request that another one overtook takes the last admin away,
\* however many requests are under way.
THEOREM LastAdminIsSafeAlone == TenancySpec => LastAdminGoesInARace
<1> DEFINE Step == \A o \in founded : Admins(o) # {} /\ Admins(o)' = {} =>
                     \E r \in Requests : /\ asked[r] # NoRequest /\ asked'[r] = NoRequest
                                         /\ asked[r].org = o /\ ~asked[r].current
<1>1. ASSUME TenancyInv, [TenancyNext]_tenancyVars PROVE [Step]_tenancyVars
  <2> SUFFICES ASSUME NEW o \in founded, Admins(o) # {}, Admins(o)' = {}
               PROVE \E r \in Requests : /\ asked[r] # NoRequest /\ asked'[r] = NoRequest
                                         /\ asked[r].org = o /\ ~asked[r].current
    OBVIOUS
  <2>1. memberships' # memberships
    BY DEF Admins, ActsAsAdmin, MembershipOf
  <2>2. PICK r \in Requests : CommitRequest(r)
    BY <1>1, <2>1 DEF TenancyNext, AskCreate, AskAdd, AskUpdate, AskRemove, Asks, DropRequest, tenancyVars
  <2>3. asked[r] # NoRequest /\ asked'[r] = NoRequest /\ asked[r] \in Request
    BY <1>1, <2>2 DEF CommitRequest, Answered, TenancyInv, TenancyTypeOK
  <2>4. asked[r].org = o
    <3> SUFFICES ASSUME asked[r].org # o PROVE FALSE
      OBVIOUS
    <3>1. o \in Orgs /\ asked[r].org \in Orgs /\ memberships \in [Orgs -> [Users -> Row \cup {NoMembership}]]
      BY <1>1, <2>3 DEF TenancyInv, TenancyTypeOK, Request
    <3>2. memberships'[o] = memberships[o]
      BY <2>2, <3>1 DEF CommitRequest
    <3> QED BY <3>2 DEF Admins, ActsAsAdmin, MembershipOf
  <2>5. asked[r].current \in BOOLEAN
    BY <2>3 DEF Request
  <2>6. ~asked[r].current
    BY <1>1, <2>2, <2>5, CommitLeavesAnAdmin
  <2> QED BY <2>3, <2>4, <2>6
<1> QED BY <1>1, TenancyInvInit, TenancyInvNext, PTL DEF TenancySpec, LastAdminGoesInARace
-----------------------------------------------------------------------------
(* Plans.  An account whose notices all came once and in order: the last   *)
(* one that is not handled says what the subscription is by now.           *)

Status == {"none", "active", "past_due", "unpaid", "canceled"}
NoticeText == {"incomplete", "succeeded", "active", "completed", "failed", "past_due",
               "unpaid", "deleted"}

LastSays(status) ==
    IF status = "active" THEN {"completed", "active"}
    ELSE IF status = "canceled" THEN {"deleted"} ELSE {status}

Caught(n, status, plan) ==
    /\ status = "none" => n = <<>>
    /\ n # <<>> => n[Len(n)] \in LastSays(status)
    /\ n = <<>> /\ status # "none" => (plan = "paid" <=> status = "active")

Asked == [pc : {"read"}, account : Accounts, event : Situations, current : BOOLEAN]

PlansTypeOK ==
    /\ tier \in [Accounts -> {"free", "paid", "enterprise"}]
    /\ subscription \in [Accounts -> Status]
    /\ notices \in [Accounts -> Seq(NoticeText)]
    /\ orderly \subseteq Accounts
    /\ follows \in [Accounts -> [Situations -> Nat]]
    /\ posts \in [Posts -> Asked \cup {NoPost}]

\* A follow request that nobody overtook still rests on what it read.
StillRoom(q) ==
    q.current => WithinPlan(q.account) /\ follows[q.account][q.event] = 0

PlansInv ==
    /\ PlansTypeOK
    /\ \A a \in Accounts : IsFiniteSet(FollowRows(follows[a]))
    /\ \A a \in orderly \ Beta : Caught(notices[a], subscription[a], tier[a])
    /\ \A p \in Posts : posts[p] # NoPost => StillRoom(posts[p])

LEMMA NoPostIsNone == NoPost \notin Asked
<1> SUFFICES ASSUME NoPost \in Asked PROVE FALSE
  OBVIOUS
<1>1. NoPost.pc = "idle" /\ NoPost.pc = "read"
  BY DEF NoPost, Asked
<1> QED BY <1>1

\* One row more adds one follow, one row less adds none.
LEMMA FollowOnceMore ==
    ASSUME NEW tally \in [Situations -> Nat], NEW s \in Situations,
           IsFiniteSet(FollowRows(tally)), NEW more, more = [tally EXCEPT ![s] = @ + 1]
    PROVE  /\ IsFiniteSet(FollowRows(more))
           /\ FollowCount(more) <= FollowCount(tally) + 1
<1>1. FollowRows(more) = FollowRows(tally) \cup {<<s, tally[s] + 1>>}
  <2>1. ASSUME NEW z PROVE z \in FollowRows(more) <=>
            \E t \in Situations : \E n \in 1 .. more[t] : z = <<t, n>>
    BY DEF FollowRows
  <2>2. ASSUME NEW z PROVE z \in FollowRows(tally) <=>
            \E t \in Situations : \E n \in 1 .. tally[t] : z = <<t, n>>
    BY DEF FollowRows
  <2>3. more[s] = tally[s] + 1 /\ tally[s] \in Nat /\ \A t \in Situations \ {s} : more[t] = tally[t]
    OBVIOUS
  <2>4. ASSUME NEW z \in FollowRows(more) PROVE z \in FollowRows(tally) \cup {<<s, tally[s] + 1>>}
    <3>1. PICK t \in Situations : \E n \in 1 .. more[t] : z = <<t, n>>
      BY <2>1, <2>4
    <3>2. PICK n \in 1 .. more[t] : z = <<t, n>>
      BY <3>1
    <3>3. CASE n \in 1 .. tally[t]
      BY <2>2, <3>2, <3>3
    <3>4. CASE n \notin 1 .. tally[t]
      <4>1. t = s /\ n = tally[s] + 1
        BY <2>3, <3>4
      <4> QED BY <3>2, <4>1
    <3> QED BY <3>3, <3>4
  <2>5. ASSUME NEW z \in FollowRows(tally) PROVE z \in FollowRows(more)
    <3>1. PICK t \in Situations : \E n \in 1 .. tally[t] : z = <<t, n>>
      BY <2>2, <2>5
    <3>2. 1 .. tally[t] \subseteq 1 .. more[t]
      BY <2>3
    <3>3. \E n \in 1 .. more[t] : z = <<t, n>>
      BY <3>1, <3>2
    <3> QED BY <2>1, <3>3
  <2>6. <<s, tally[s] + 1>> \in FollowRows(more)
    <3>1. tally[s] + 1 \in 1 .. more[s]
      BY <2>3
    <3> QED BY <2>1, <3>1
  <2> QED BY <2>4, <2>5, <2>6
<1>2. Cardinality(FollowRows(tally)) \in Nat
  BY FS_CardinalityType
<1>3. /\ IsFiniteSet(FollowRows(more))
      /\ Cardinality(FollowRows(more)) \in {Cardinality(FollowRows(tally)), Cardinality(FollowRows(tally)) + 1}
  <2> DEFINE old == FollowRows(tally)
             row == <<s, tally[s] + 1>>
  <2>1. FollowRows(more) = old \cup {row} /\ IsFiniteSet(old)
    BY <1>1
  <2> HIDE DEF old, row
  <2>2. /\ IsFiniteSet(old \cup {row})
        /\ Cardinality(old \cup {row}) = IF row \in old THEN Cardinality(old) ELSE Cardinality(old) + 1
    BY <2>1, FS_AddElement
  <2>3. Cardinality(old \cup {row}) \in {Cardinality(old), Cardinality(old) + 1}
    BY <2>2
  <2> QED BY <2>1, <2>2, <2>3 DEF old
<1> QED BY <1>2, <1>3 DEF FollowCount

LEMMA FollowOnceLess ==
    ASSUME NEW tally \in [Situations -> Nat], NEW s \in Situations, tally[s] > 0,
           IsFiniteSet(FollowRows(tally)), NEW less, less = [tally EXCEPT ![s] = @ - 1]
    PROVE  /\ IsFiniteSet(FollowRows(less))
           /\ FollowCount(less) <= FollowCount(tally)
<1>1. \A t \in Situations : 1 .. less[t] \subseteq 1 .. tally[t]
  OBVIOUS
<1>2. FollowRows(less) \subseteq FollowRows(tally)
  BY <1>1 DEF FollowRows
<1> QED BY <1>2, FS_Subset DEF FollowCount

LEMMA PlansInvInit == ASSUME PlansInit PROVE PlansInv
<1>1. PlansTypeOK
  BY DEF PlansInit, PlansTypeOK, Status
<1>2. ASSUME NEW a \in Accounts PROVE FollowRows(follows[a]) = {}
  BY DEF PlansInit, FollowRows
<1>3. \A a \in Accounts : IsFiniteSet(FollowRows(follows[a]))
  BY <1>2, FS_EmptySet
<1> QED BY <1>1, <1>3 DEF PlansInit, PlansInv, Caught

\* What the invariant reads stays as it was.
LEMMA PlansInvKept ==
    ASSUME PlansInv, UNCHANGED <<tier, subscription, notices, orderly, follows, posts>>
    PROVE  PlansInv'
<1>1. PlansTypeOK'
  BY DEF PlansInv, PlansTypeOK
<1>2. \A a \in Accounts : FollowRows(follows[a])' = FollowRows(follows[a])
  BY DEF FollowRows
<1>3. \A a \in Accounts : IsFiniteSet(FollowRows(follows[a]))'
  BY <1>2 DEF PlansInv
<1>4. \A p \in Posts : StillRoom(posts[p])' <=> StillRoom(posts[p])
  BY DEF StillRoom, WithinPlan, Followed, FollowCount, FollowRows
<1> QED BY <1>1, <1>3, <1>4 DEF PlansInv, Caught

\* No account ends up free by a pin, so no request loses the room it counted on.
LEMMA ProvisionPreserves ==
    ASSUME PlansInv, NEW a \in Accounts, ProvisionBeta(a) PROVE PlansInv'
<1>1. /\ a \in Beta /\ tier' = [tier EXCEPT ![a] = "enterprise"]
      /\ UNCHANGED <<subscription, notices, orderly, follows, posts>>
  BY DEF ProvisionBeta, billingVars, followVars
<1>2. PlansTypeOK'
  BY <1>1 DEF PlansInv, PlansTypeOK
<1>3. \A b \in Accounts : IsFiniteSet(FollowRows(follows[b]))'
  BY <1>1 DEF PlansInv, FollowRows
<1>4. \A b \in orderly' \ Beta : Caught(notices[b], subscription[b], tier[b])'
  BY <1>1 DEF PlansInv, PlansTypeOK, Caught
<1>5. ASSUME NEW p \in Posts, posts[p] # NoPost PROVE StillRoom(posts[p])'
  <2>1. posts[p] \in Asked /\ StillRoom(posts[p])
    BY <1>5 DEF PlansInv, PlansTypeOK
  <2>2. tier'[posts[p].account] = "free" => tier[posts[p].account] = "free"
    BY <1>1, <2>1 DEF Asked, PlansInv, PlansTypeOK
  <2> QED BY <1>1, <2>1, <2>2 DEF StillRoom, WithinPlan, Followed, FollowCount, FollowRows
<1> QED BY <1>1, <1>2, <1>3, <1>4, <1>5 DEF PlansInv

LEMMA StripePreserves ==
    ASSUME PlansInv, NEW a \in Accounts, StripeActs(a) PROVE PlansInv'
<1>1. PICK t \in StripeTurns :
        /\ subscription[a] \in t.from
        /\ subscription' = [subscription EXCEPT ![a] = t.to]
        /\ notices' = [notices EXCEPT ![a] = @ \o t.says]
        /\ UNCHANGED <<tier, orderly, follows, posts>>
  BY DEF StripeActs, followVars
<1>2. /\ t.to \in Status \ {"none"} /\ t.says \in Seq(NoticeText)
      /\ t.says # <<>> /\ t.says[Len(t.says)] \in LastSays(t.to)
  <2>1. \/ t.to = "active" /\ t.says = <<"incomplete", "succeeded", "active", "completed">>
        \/ t.to = "past_due" /\ t.says = <<"failed", "past_due">>
        \/ t.to = "active" /\ t.says = <<"succeeded", "active">>
        \/ t.to = "unpaid" /\ t.says = <<"unpaid">>
        \/ t.to = "canceled" /\ t.says = <<"deleted">>
    BY DEF StripeTurns
  <2>2. CASE t.to = "active" /\ t.says = <<"incomplete", "succeeded", "active", "completed">>
    BY <2>2 DEF Status, NoticeText, LastSays
  <2>3. CASE t.to = "past_due" /\ t.says = <<"failed", "past_due">>
    BY <2>3 DEF Status, NoticeText, LastSays
  <2>4. CASE t.to = "active" /\ t.says = <<"succeeded", "active">>
    BY <2>4 DEF Status, NoticeText, LastSays
  <2>5. CASE t.to = "unpaid" /\ t.says = <<"unpaid">>
    BY <2>5 DEF Status, NoticeText, LastSays
  <2>6. CASE t.to = "canceled" /\ t.says = <<"deleted">>
    BY <2>6 DEF Status, NoticeText, LastSays
  <2> QED BY <2>1, <2>2, <2>3, <2>4, <2>5, <2>6
<1>3. PlansTypeOK'
  BY <1>1, <1>2, ConcatProperties DEF PlansInv, PlansTypeOK
<1>4. ASSUME NEW b \in orderly' \ Beta PROVE Caught(notices[b], subscription[b], tier[b])'
  <2>1. b \in orderly \ Beta /\ b \in Accounts /\ Caught(notices[b], subscription[b], tier[b])
    BY <1>1, <1>4 DEF PlansInv, PlansTypeOK
  <2>2. CASE b # a
    BY <1>1, <2>1, <2>2 DEF PlansInv, PlansTypeOK, Caught
  <2>3. CASE b = a
    <3>1. notices'[a] = notices[a] \o t.says /\ subscription'[a] = t.to /\ notices[a] \in Seq(NoticeText)
      BY <1>1 DEF PlansInv, PlansTypeOK
    <3>2. notices'[a] # <<>> /\ notices'[a][Len(notices'[a])] = t.says[Len(t.says)]
      <4> DEFINE n == notices[a]
                 m == t.says
      <4>1. n \in Seq(NoticeText) /\ m \in Seq(NoticeText) /\ Len(m) \in Nat \ {0} /\ Len(n) \in Nat
        BY <1>2, <3>1
      <4> HIDE DEF n, m
      <4>2. Len(n \o m) = Len(n) + Len(m) /\ (n \o m)[Len(n) + Len(m)] = m[Len(m)]
        BY <4>1
      <4>3. n \o m # <<>>
        BY <4>1, <4>2
      <4> QED BY <3>1, <4>2, <4>3 DEF n, m
    <3> QED BY <1>2, <2>3, <3>1, <3>2 DEF Caught
  <2> QED BY <2>2, <2>3
<1>5. \A b \in Accounts : IsFiniteSet(FollowRows(follows[b]))'
  BY <1>1 DEF PlansInv, FollowRows
<1>6. \A p \in Posts : StillRoom(posts[p])' <=> StillRoom(posts[p])
  BY <1>1 DEF StillRoom, WithinPlan, Followed, FollowCount, FollowRows
<1> QED BY <1>1, <1>3, <1>4, <1>5, <1>6 DEF PlansInv

\* Whoever was under way has been overtaken.
LEMMA OvertakenIsAsked ==
    ASSUME PlansInv
    PROVE  /\ Overtaken \in [Posts -> Asked \cup {NoPost}]
           /\ \A p \in Posts : Overtaken[p] # NoPost => ~Overtaken[p].current
<1>1. ASSUME NEW p \in Posts, posts[p] # NoPost
      PROVE  Overtaken[p] \in Asked /\ ~Overtaken[p].current
  <2>1. posts[p] \in Asked
    BY <1>1 DEF PlansInv, PlansTypeOK
  <2>2. Overtaken[p] = [posts[p] EXCEPT !.current = FALSE]
    BY <1>1 DEF Overtaken
  <2> QED BY <2>1, <2>2 DEF Asked
<1>2. \A p \in Posts : posts[p] = NoPost => Overtaken[p] = NoPost
  BY DEF Overtaken
<1>3. Overtaken = [p \in Posts |-> Overtaken[p]]
  BY DEF Overtaken
<1> QED BY <1>1, <1>2, <1>3

LEMMA SomeOrOne ==
    ASSUME NEW S, NEW n \in Seq(S), NEW i \in 1 .. Len(n) PROVE Len(n) = 1 \/ Len(n) > 1
<1> DEFINE k == Len(n)
<1>1. k \in Nat /\ i \in 1 .. k
  BY LenProperties
<1> HIDE DEF k
<1>2. k = 1 \/ k > 1
  BY <1>1
<1> QED BY <1>2 DEF k

LEMMA WebhookPreserves ==
    ASSUME PlansInv, NEW a \in Accounts, NEW i \in DOMAIN notices[a],
           NEW acknowledged \in BOOLEAN, Webhook(a, i, acknowledged)
    PROVE  PlansInv'
<1> DEFINE n == notices[a]
<1>1. n \in Seq(NoticeText) /\ i \in 1 .. Len(n) /\ tier[a] \in {"free", "paid", "enterprise"}
  BY DEF PlansInv, PlansTypeOK
<1>2. TierAfter(tier[a], n[i]) \in {"free", "paid", "enterprise"}
  BY <1>1 DEF TierAfter
<1>3. /\ tier' = [tier EXCEPT ![a] = TierAfter(tier[a], n[i])]
      /\ notices' = IF acknowledged THEN [notices EXCEPT ![a] = RemoveAt(n, i)] ELSE notices
      /\ orderly' = IF acknowledged /\ i = 1 THEN orderly ELSE orderly \ {a}
      /\ posts' = Overtaken
      /\ UNCHANGED <<subscription, follows>>
  BY DEF Webhook
<1>4. RemoveAt(n, i) \in Seq(NoticeText)
  BY <1>1 DEF RemoveAt
<1>5. PlansTypeOK'
  BY <1>2, <1>3, <1>4, OvertakenIsAsked DEF PlansInv, PlansTypeOK
<1>6. ASSUME NEW b \in orderly' \ Beta PROVE Caught(notices[b], subscription[b], tier[b])'
  <2>1. b \in orderly \ Beta /\ b \in Accounts /\ Caught(notices[b], subscription[b], tier[b])
    BY <1>3, <1>6 DEF PlansInv, PlansTypeOK
  <2>2. CASE b # a
    BY <1>3, <2>1, <2>2 DEF PlansInv, PlansTypeOK, Caught
  <2>3. CASE b = a
    <3>1. acknowledged /\ i = 1
      BY <1>3, <1>6, <2>3
    <3>2. /\ notices'[a] = RemoveAt(n, 1) /\ subscription'[a] = subscription[a]
          /\ tier'[a] = TierAfter(tier[a], n[1])
      BY <1>3, <3>1 DEF PlansInv, PlansTypeOK
    <3>3. subscription[a] # "none" /\ n[Len(n)] \in LastSays(subscription[a]) /\ subscription[a] \in Status
      BY <1>1, <2>1, <2>3 DEF Caught, PlansInv, PlansTypeOK
    <3>4. CASE Len(n) = 1
      <4>1. RemoveAt(n, 1) = <<>>
        BY <1>1, <3>4 DEF RemoveAt
      <4>2. TierAfter(tier[a], n[1]) = "paid" <=> subscription[a] = "active"
        BY <3>3, <3>4 DEF TierAfter, LastSays, Status
      <4> QED BY <2>3, <3>2, <3>3, <4>1, <4>2 DEF Caught
    <3>5. CASE Len(n) > 1
      <4>1. Len(RemoveAt(n, 1)) = Len(n) - 1 /\ RemoveAt(n, 1)[Len(n) - 1] = n[Len(n)]
        BY <1>1, <3>5 DEF RemoveAt
      <4>2. RemoveAt(n, 1) # <<>>
        BY <3>5, <4>1, <1>1
      <4>3. RemoveAt(n, 1)[Len(RemoveAt(n, 1))] \in LastSays(subscription[a])
        BY <3>3, <4>1
      <4> HIDE DEF n
      <4> QED BY <2>3, <3>2, <3>3, <4>2, <4>3 DEF Caught
    <3>6. Len(n) = 1 \/ Len(n) > 1
      BY <1>1, SomeOrOne
    <3> QED BY <3>4, <3>5, <3>6
  <2> QED BY <2>2, <2>3
<1>7. \A b \in Accounts : IsFiniteSet(FollowRows(follows[b]))'
  BY <1>3 DEF PlansInv, FollowRows
<1>8. \A p \in Posts : posts'[p] # NoPost => StillRoom(posts[p])'
  BY <1>3, OvertakenIsAsked DEF StillRoom
<1> QED BY <1>5, <1>6, <1>7, <1>8 DEF PlansInv

LEMMA AskFollowPreserves ==
    ASSUME PlansInv, NEW p \in Posts, NEW a \in Accounts, NEW s \in Situations, AskFollow(p, a, s)
    PROVE  PlansInv'
<1> DEFINE new == [pc |-> "read", account |-> a, event |-> s, current |-> TRUE]
<1>1. /\ WithinPlan(a) /\ follows[a][s] = 0
      /\ posts' = [posts EXCEPT ![p] = new]
      /\ UNCHANGED <<tier, subscription, notices, orderly, follows>>
  BY DEF AskFollow, billingVars
<1>2. new \in Asked
  BY DEF Asked
<1>3. PlansTypeOK'
  BY <1>1, <1>2 DEF PlansInv, PlansTypeOK
<1>4. ASSUME NEW q \in Posts, posts'[q] # NoPost PROVE StillRoom(posts[q])'
  <2>1. CASE q = p
    <3>1. posts'[p].account = a /\ posts'[p].event = s
      BY <1>1 DEF PlansInv, PlansTypeOK
    <3>2. WithinPlan(a)' /\ follows'[a][s] = 0
      BY <1>1 DEF WithinPlan, Followed, FollowCount, FollowRows
    <3> QED BY <2>1, <3>1, <3>2 DEF StillRoom, WithinPlan, Followed, FollowCount, FollowRows
  <2>2. CASE q # p
    <3>1. posts'[q] = posts[q]
      BY <1>1, <2>2 DEF PlansInv, PlansTypeOK
    <3> QED BY <1>1, <1>4, <3>1 DEF PlansInv, StillRoom, WithinPlan, Followed, FollowCount, FollowRows
  <2> QED BY <2>1, <2>2
<1>5. \A b \in Accounts : IsFiniteSet(FollowRows(follows[b]))'
  BY <1>1 DEF PlansInv, FollowRows
<1>6. \A b \in orderly' \ Beta : Caught(notices[b], subscription[b], tier[b])'
  BY <1>1 DEF PlansInv, Caught
<1> QED BY <1>3, <1>4, <1>5, <1>6 DEF PlansInv

LEMMA AddFollowPreserves ==
    ASSUME PlansInv, NEW p \in Posts, AddFollow(p) PROVE PlansInv'
<1> DEFINE a == posts[p].account
           s == posts[p].event
<1>1. /\ posts[p] \in Asked
      /\ follows' = [follows EXCEPT ![a][s] = @ + 1]
      /\ posts' = [Overtaken EXCEPT ![p] = NoPost]
      /\ UNCHANGED <<tier, subscription, notices, orderly>>
  BY DEF AddFollow, billingVars, PlansInv, PlansTypeOK
<1>2. a \in Accounts /\ s \in Situations
  BY <1>1 DEF Asked
<1>3. follows \in [Accounts -> [Situations -> Nat]]
  BY DEF PlansInv, PlansTypeOK
<1> HIDE DEF a, s
<1>4. /\ follows'[a] = [follows[a] EXCEPT ![s] = @ + 1]
      /\ \A b \in Accounts \ {a} : follows'[b] = follows[b]
      /\ follows' \in [Accounts -> [Situations -> Nat]]
  BY <1>1, <1>2, <1>3
<1>5. PlansTypeOK'
  BY <1>1, <1>4, OvertakenIsAsked DEF PlansInv, PlansTypeOK
<1>6. ASSUME NEW b \in Accounts PROVE IsFiniteSet(FollowRows(follows'[b]))
  <2>1. CASE b = a
    BY <1>2, <1>3, <1>4, <2>1, FollowOnceMore DEF PlansInv
  <2>2. CASE b # a
    BY <1>4, <2>2 DEF PlansInv
  <2> QED BY <2>1, <2>2
<1>7. ASSUME NEW b \in Accounts PROVE FollowRows(follows[b])' = FollowRows(follows'[b])
  BY DEF FollowRows
<1>8. \A b \in orderly' \ Beta : Caught(notices[b], subscription[b], tier[b])'
  BY <1>1 DEF PlansInv, Caught
<1>9. \A q \in Posts : posts'[q] # NoPost => StillRoom(posts[q])'
  BY <1>1, OvertakenIsAsked DEF StillRoom
<1> QED BY <1>5, <1>6, <1>7, <1>8, <1>9 DEF PlansInv

LEMMA DeleteFollowPreserves ==
    ASSUME PlansInv, NEW a \in Accounts, NEW s \in Situations, DeleteFollow(a, s)
    PROVE  PlansInv'
<1>1. /\ follows[a][s] > 0
      /\ follows' = [follows EXCEPT ![a][s] = @ - 1]
      /\ UNCHANGED <<tier, subscription, notices, orderly, posts>>
  BY DEF DeleteFollow, billingVars
<1>2. follows \in [Accounts -> [Situations -> Nat]]
  BY DEF PlansInv, PlansTypeOK
<1>3. /\ follows'[a] = [follows[a] EXCEPT ![s] = @ - 1]
      /\ \A b \in Accounts \ {a} : follows'[b] = follows[b]
      /\ follows' \in [Accounts -> [Situations -> Nat]]
  BY <1>1, <1>2
<1>4. PlansTypeOK'
  BY <1>1, <1>3 DEF PlansInv, PlansTypeOK
<1>5. ASSUME NEW b \in Accounts
      PROVE  /\ IsFiniteSet(FollowRows(follows'[b]))
             /\ FollowCount(follows'[b]) <= FollowCount(follows[b])
  <2>1. CASE b = a
    BY <1>1, <1>2, <1>3, <2>1, FollowOnceLess DEF PlansInv
  <2>2. CASE b # a
    <3>1. IsFiniteSet(FollowRows(follows[b])) /\ follows'[b] = follows[b]
      BY <1>3, <2>2 DEF PlansInv
    <3>2. FollowCount(follows[b]) \in Nat
      BY <3>1, FS_CardinalityType DEF FollowCount
    <3> QED BY <3>1, <3>2
  <2> QED BY <2>1, <2>2
<1>6. ASSUME NEW b \in Accounts
      PROVE  FollowRows(follows[b])' = FollowRows(follows'[b]) /\ Followed(b)' = FollowCount(follows'[b])
  BY DEF FollowRows, FollowCount, Followed
<1>7. ASSUME NEW q \in Posts, posts'[q] # NoPost PROVE StillRoom(posts[q])'
  <2> DEFINE b == posts[q].account
             t == posts[q].event
  <2>1. posts[q] \in Asked /\ StillRoom(posts[q]) /\ posts'[q] = posts[q]
    BY <1>1, <1>7 DEF PlansInv, PlansTypeOK
  <2>2. b \in Accounts /\ t \in Situations
    BY <2>1 DEF Asked
  <2>3. follows[b][t] = 0 => follows'[b][t] = 0
    BY <1>1, <1>2, <2>2
  <2>4. FollowCount(follows[b]) < FollowLimit => Followed(b)' < FollowLimit
    <3>1. FollowCount(follows[b]) \in Nat /\ FollowCount(follows'[b]) \in Nat
      BY <1>5, <2>2, FS_CardinalityType DEF FollowCount, PlansInv
    <3>2. FollowCount(follows'[b]) <= FollowCount(follows[b])
      BY <1>5, <2>2
    <3>3. Followed(b)' = FollowCount(follows'[b])
      BY <1>6, <2>2, <2>1
    <3> QED BY <3>1, <3>2, <3>3, PlansAssumption
  <2> QED BY <1>1, <2>1, <2>3, <2>4 DEF StillRoom, WithinPlan, Followed
<1>8. \A b \in orderly' \ Beta : Caught(notices[b], subscription[b], tier[b])'
  BY <1>1 DEF PlansInv, Caught
<1> QED BY <1>4, <1>5, <1>6, <1>7, <1>8 DEF PlansInv

LEMMA PlansInvNext == ASSUME PlansInv, [PlansNext]_plansVars PROVE PlansInv'
<1>1. CASE UNCHANGED plansVars
  BY <1>1, PlansInvKept DEF plansVars, billingVars, followVars
<1>2. CASE PlansNext
  <2>1. CASE \E p \in Posts : AddFollow(p)
    BY <2>1, AddFollowPreserves
  <2>2. CASE \E recent \in SUBSET Situations : RunAlerts(recent)
    BY <2>2, PlansInvKept DEF RunAlerts, billingVars, followVars
  <2>3. ASSUME NEW a \in Accounts, Signup(a) \/ SwitchAlerts(a) \/ Checkout(a) PROVE PlansInv'
    BY <2>3, PlansInvKept DEF Signup, SwitchAlerts, Checkout, billingVars, followVars
  <2>4. ASSUME NEW a \in Accounts, ProvisionBeta(a) \/ StripeActs(a) PROVE PlansInv'
    BY <2>4, ProvisionPreserves, StripePreserves
  <2>5. ASSUME NEW a \in Accounts, NEW i \in DOMAIN notices[a], NEW acknowledged \in BOOLEAN,
               Webhook(a, i, acknowledged)
        PROVE  PlansInv'
    BY <2>5, WebhookPreserves
  <2>6. ASSUME NEW a \in Accounts, NEW s \in Situations,
               DeleteFollow(a, s) \/ \E p \in Posts : AskFollow(p, a, s)
        PROVE  PlansInv'
    BY <2>6, DeleteFollowPreserves, AskFollowPreserves
  <2> QED BY <1>2, <2>1, <2>2, <2>3, <2>4, <2>5, <2>6 DEF PlansNext
<1> QED BY <1>1, <1>2

\* api/routes/stripe_routes.py: when every notice of an account came once and in
\* order and all are handled, the account has the plan its subscription pays for,
\* for any number of accounts and however their notices interleave.
THEOREM PlansFollowSubscriptions == PlansSpec => []PlanFollowsSubscription
<1>1. PlansInv => PlanFollowsSubscription
  BY DEF PlansInv, PlansTypeOK, PlanFollowsSubscription, Caught
<1> QED BY <1>1, PlansInvInit, PlansInvNext, PTL DEF PlansSpec

\* Only a request's own commit closes it: what was asked and not overtaken is the
\* first row for its event, and within the limit.
LEMMA CommitStaysInPlan ==
    ASSUME PlansInv, NEW p \in Posts, AddFollow(p), posts[p].current
    PROVE  LET a == posts[p].account
           IN  /\ tier[a] = "free" => FollowCount(follows'[a]) <= FollowLimit
               /\ follows'[a][posts[p].event] = 1
<1> DEFINE a == posts[p].account
           s == posts[p].event
<1>1. /\ posts[p] \in Asked /\ StillRoom(posts[p])
      /\ follows' = [follows EXCEPT ![a][s] = @ + 1]
  BY DEF AddFollow, PlansInv, PlansTypeOK
<1>2. /\ a \in Accounts /\ s \in Situations /\ follows[a][s] = 0
      /\ tier[a] = "free" => FollowCount(follows[a]) < FollowLimit
  BY <1>1 DEF Asked, StillRoom, WithinPlan, Followed
<1>3. follows \in [Accounts -> [Situations -> Nat]] /\ IsFiniteSet(FollowRows(follows[a]))
  BY <1>2 DEF PlansInv, PlansTypeOK
<1> HIDE DEF a, s
<1>4. follows'[a] = [follows[a] EXCEPT ![s] = @ + 1]
  BY <1>1, <1>2, <1>3
<1>5. follows'[a][s] = 1
  BY <1>2, <1>3, <1>4
<1>6. FollowCount(follows'[a]) <= FollowCount(follows[a]) + 1 /\ IsFiniteSet(FollowRows(follows'[a]))
  BY <1>2, <1>3, <1>4, FollowOnceMore
<1>7. FollowCount(follows[a]) \in Nat /\ FollowCount(follows'[a]) \in Nat
  BY <1>3, <1>6, FS_CardinalityType DEF FollowCount
<1>8. tier[a] = "free" => FollowCount(follows'[a]) <= FollowLimit
  BY <1>2, <1>6, <1>7, PlansAssumption
<1> QED BY <1>5, <1>8 DEF a, s

\* api/routes/follows.py: a follow past the free limit, or a second row for an event,
\* takes another commit between the request's reads and its own.
THEOREM LimitsBreakOnlyInARace == PlansSpec => LimitsBreakInARace
<1> DEFINE Kept ==
        \A p \in Posts : posts[p] # NoPost /\ posts'[p] = NoPost /\ posts[p].current =>
            LET a == posts[p].account
            IN  /\ tier[a] = "free" => FollowCount(follows'[a]) <= FollowLimit
                /\ follows'[a][posts[p].event] = 1
<1>1. ASSUME PlansInv, [PlansNext]_plansVars PROVE [Kept]_plansVars
  <2> SUFFICES ASSUME PlansNext, NEW p \in Posts,
                      posts[p] # NoPost, posts'[p] = NoPost, posts[p].current
               PROVE  LET a == posts[p].account
                      IN  /\ tier[a] = "free" => FollowCount(follows'[a]) <= FollowLimit
                          /\ follows'[a][posts[p].event] = 1
    BY <1>1
  <2>1. ASSUME NEW q \in Posts, AddFollow(q) PROVE q = p
    <3> SUFFICES ASSUME q # p PROVE FALSE
      OBVIOUS
    <3>1. posts'[p] = Overtaken[p]
      BY <1>1, <2>1, OvertakenIsAsked DEF AddFollow
    <3>2. Overtaken[p] = [posts[p] EXCEPT !.current = FALSE] /\ posts[p] \in Asked
      BY <1>1 DEF Overtaken, PlansInv, PlansTypeOK
    <3> QED BY <3>1, <3>2, NoPostIsNone DEF Asked
  <2>2. ASSUME NEW a \in Accounts, NEW i \in DOMAIN notices[a], NEW acknowledged \in BOOLEAN,
               Webhook(a, i, acknowledged)
        PROVE  FALSE
    <3>1. posts'[p] = Overtaken[p]
      BY <2>2 DEF Webhook
    <3>2. Overtaken[p] = [posts[p] EXCEPT !.current = FALSE] /\ posts[p] \in Asked
      BY <1>1 DEF Overtaken, PlansInv, PlansTypeOK
    <3> QED BY <3>1, <3>2, NoPostIsNone DEF Asked
  <2>3. ASSUME NEW a \in Accounts, NEW s \in Situations, NEW q \in Posts, AskFollow(q, a, s)
        PROVE  FALSE
    <3>1. CASE q = p
      BY <2>3, <3>1 DEF AskFollow
    <3>2. CASE q # p
      BY <1>1, <2>3, <3>2 DEF AskFollow, PlansInv, PlansTypeOK
    <3> QED BY <3>1, <3>2
  <2>4. PICK q \in Posts : AddFollow(q)
    <3>1. posts' # posts
      OBVIOUS
    <3> QED BY <2>2, <2>3, <3>1 DEF PlansNext, Signup, ProvisionBeta, SwitchAlerts, Checkout,
             StripeActs, DeleteFollow, RunAlerts, followVars
  <2> QED BY <1>1, <2>1, <2>4, CommitStaysInPlan
<1> QED BY <1>1, PlansInvInit, PlansInvNext, PTL DEF PlansSpec, LimitsBreakInARace
-----------------------------------------------------------------------------
(* Advice.  What is on the shelves, and which sheet is the latest.         *)

SheetRow == [current : BOOLEAN, text : Nat]
Shelves == UNION {[sheets -> SheetRow] : sheets \in SUBSET Sheet}
Visiting == [pc : {"read"}, sheet : Sheet, text : Fullness, known : Nat, isKnown : BOOLEAN,
            newest : BOOLEAN, current : SUBSET Sheet]

AdviceTypeOK ==
    /\ library \in Shelves
    /\ draft \in [Librarians -> Shelves]
    /\ visit \in [Librarians -> Visiting \cup {Home, Between}]
    /\ alone \in BOOLEAN

LEMMA NotVisiting == Home \notin Visiting /\ Between \notin Visiting /\ Home # Between
<1>1. Home.pc = "home" /\ Between.pc = "between"
  BY DEF Home, Between
<1>2. \A r \in Visiting : r.pc = "read"
  BY DEF Visiting
<1> QED BY <1>1, <1>2

LEMMA OnAShelf ==
    ASSUME NEW f \in Shelves
    PROVE  /\ f = [s \in DOMAIN f |-> f[s]]
           /\ DOMAIN f \subseteq Sheet
           /\ \A s \in DOMAIN f : f[s] \in SheetRow
           /\ f = NoRows <=> DOMAIN f = {}
<1>1. PICK sheets \in SUBSET Sheet : f \in [sheets -> SheetRow]
  BY DEF Shelves
<1>2. f = NoRows <=> DOMAIN f = {}
  BY <1>1 DEF NoRows
<1> QED BY <1>1, <1>2

LEMMA NoRowsIsAShelf == NoRows \in Shelves /\ DOMAIN NoRows = {} /\ CurrentOn(NoRows) = {}
<1>1. NoRows \in [{} -> SheetRow]
  BY DEF NoRows
<1> QED BY <1>1 DEF Shelves, NoRows, CurrentOn

LEMMA OverIsAShelf ==
    ASSUME NEW f \in Shelves, NEW g \in Shelves
    PROVE  /\ Over(f, g) \in Shelves
           /\ DOMAIN Over(f, g) = DOMAIN f \cup DOMAIN g
           /\ \A s \in DOMAIN g : Over(f, g)[s] = g[s]
           /\ \A s \in DOMAIN f \ DOMAIN g : Over(f, g)[s] = f[s]
<1>1. DOMAIN f \cup DOMAIN g \in SUBSET Sheet
  BY OnAShelf
<1>2. Over(f, g) \in [DOMAIN f \cup DOMAIN g -> SheetRow]
  BY OnAShelf DEF Over
<1> QED BY <1>1, <1>2 DEF Shelves, Over

LEMMA OverTwice ==
    ASSUME NEW f \in Shelves, NEW g \in Shelves, NEW h \in Shelves
    PROVE  Over(f, Over(g, h)) = Over(Over(f, g), h)
  BY DEF Over

LEMMA OverNothing == ASSUME NEW f \in Shelves PROVE Over(f, NoRows) = f
<1>1. Over(f, NoRows) = [s \in DOMAIN f |-> f[s]]
  BY NoRowsIsAShelf DEF Over
<1> QED BY <1>1, OnAShelf

\* Of finitely many numbers one is the greatest: the one with the fewest above it.
LEMMA HasGreatest ==
    ASSUME NEW n \in Nat, NEW S, S \subseteq 0 .. n, S # {}
    PROVE  \E x \in S : \A y \in S : x >= y
<1> DEFINE above == {x .. n : x \in S}
<1>1. IsFiniteSet(0 .. n)
  BY FS_Interval
<1>2. above \subseteq SUBSET (0 .. n) /\ above # {}
  <2>1. \A x \in S : x .. n \in SUBSET (0 .. n)
    OBVIOUS
  <2>2. \E x \in S : x .. n \in above
    OBVIOUS
  <2> QED BY <2>1, <2>2
<1>3. PICK m \in above : \A a \in above : ~ (<<a, m>> \in StrictSubsetOrdering(0 .. n))
  <2>1. above \subseteq FiniteSubsetsOf(0 .. n)
    BY <1>1, <1>2, FS_Subset DEF FiniteSubsetsOf
  <2>2. IsWellFoundedOn(StrictSubsetOrdering(0 .. n), FiniteSubsetsOf(0 .. n))
    BY FS_StrictSubsetOrderingWellFounded
  <2> HIDE DEF above
  <2> QED BY <1>2, <2>1, <2>2, WFMin
<1>4. PICK x \in S : m = x .. n
  OBVIOUS
<1>5. ASSUME NEW y \in S PROVE x >= y
  <2> SUFFICES ASSUME y > x PROVE FALSE
    OBVIOUS
  <2>1. (y .. n) \subseteq m /\ (y .. n) # m /\ y .. n \in above
    BY <1>4
  <2>2. <<y .. n, m>> \in StrictSubsetOrdering(0 .. n)
    BY <1>2, <2>1 DEF StrictSubsetOrdering
  <2> QED BY <1>3, <2>1, <2>2
<1> QED BY <1>5

LEMMA NewestIs ==
    ASSUME NEW f \in Shelves
    PROVE  /\ NewestDate(f) \in Nat
           /\ \A s \in DOMAIN f : s.date \in Nat /\ s.date <= NewestDate(f)
           /\ NewestDate(f) # 0 => \E s \in DOMAIN f : s.date = NewestDate(f)
<1> DEFINE dates == {s.date : s \in DOMAIN f} \cup {0}
<1>1. \A s \in DOMAIN f : s.date \in 0 .. LastDate
  BY OnAShelf DEF Sheet
<1>2. dates \subseteq 0 .. LastDate /\ dates # {}
  BY <1>1, AdviceAssumption
<1>3. NewestDate(f) = Max(dates)
  BY DEF NewestDate
<1>4. \A d \in dates : d = 0 \/ \E s \in DOMAIN f : s.date = d
  OBVIOUS
<1>5. \A s \in DOMAIN f : s.date \in dates
  OBVIOUS
<1> HIDE DEF dates
<1>6. \E x \in dates : \A y \in dates : x >= y
  BY <1>2, AdviceAssumption, HasGreatest
<1>7. Max(dates) \in dates /\ \A y \in dates : Max(dates) >= y
  BY <1>6 DEF Max
<1>8. NewestDate(f) \in 0 .. LastDate /\ (NewestDate(f) # 0 => \E s \in DOMAIN f : s.date = NewestDate(f))
  BY <1>2, <1>3, <1>4, <1>7
<1>9. ASSUME NEW s \in DOMAIN f PROVE s.date \in Nat /\ s.date <= NewestDate(f)
  <2>1. s.date \in 0 .. LastDate /\ NewestDate(f) \in 0 .. LastDate /\ NewestDate(f) >= s.date
    BY <1>1, <1>3, <1>5, <1>7, <1>8
  <2> QED BY <2>1, AdviceAssumption
<1> QED BY <1>8, <1>9, AdviceAssumption

\* A sheet that is put on a shelf is its newest if it is dated later than every other.
LEMMA NewestAdded ==
    ASSUME NEW f \in Shelves, NEW g \in Shelves, NEW s \in Sheet, DOMAIN g = DOMAIN f \cup {s}
    PROVE  NewestDate(g) = IF s.date > NewestDate(f) THEN s.date ELSE NewestDate(f)
<1>1. /\ NewestDate(f) \in Nat /\ NewestDate(g) \in Nat /\ s.date \in Nat
      /\ s.date <= NewestDate(g)
      /\ \A t \in DOMAIN f : t.date <= NewestDate(f) /\ t.date <= NewestDate(g)
  BY NewestIs
<1>2. NewestDate(f) <= NewestDate(g)
  BY <1>1, NewestIs
<1>3. NewestDate(g) # 0 => NewestDate(g) = s.date \/ NewestDate(g) <= NewestDate(f)
  BY <1>1, NewestIs
<1> QED BY <1>1, <1>2, <1>3

\* Two runs never hold rows of one sheet.
DraftsApart == \A v, w \in Librarians : v # w => DOMAIN draft[v] \cap DOMAIN draft[w] = {}

\* A run that has put no sheet in front leaves the one that is in front alone.
BackedUp(w) ==
    CurrentOn(draft[w]) = {} =>
        /\ \A s \in DOMAIN draft[w] \cap DOMAIN library : ~library[s].current
        /\ draft[w] # NoRows => library # NoRows

\* What was read about a sheet that stays true whoever overlaps.
StillRead(w) ==
    visit[w] \in Visiting =>
        /\ ~visit[w].newest => draft[w] # NoRows \/ library # NoRows
        /\ visit[w].isKnown => visit[w].sheet \in DOMAIN Shelf(w)

Ranked(shelf) ==
    \A s \in CurrentOn(shelf) : CurrentOn(shelf) = {s} /\ s.date = NewestDate(shelf)

\* And what stays true while nobody does.
ReadsHold(w) ==
    visit[w] \in Visiting =>
        /\ visit[w].newest <=> IsNewest(visit[w].sheet, Shelf(w))
        /\ visit[w].current = CurrentOn(Shelf(w))

RunOfAdvice(w) ==
    /\ visit[w] = Home => draft[w] = NoRows
    /\ BackedUp(w)
    /\ StillRead(w)

InOrderAlone ==
    /\ Ranked(library)
    /\ \A v, w \in Abroad : v = w
    /\ \A w \in Abroad : Ranked(Shelf(w)) /\ ReadsHold(w)

AdviceInv ==
    /\ AdviceTypeOK
    /\ DraftsApart
    /\ \A w \in Librarians : RunOfAdvice(w)
    /\ library # NoRows => CurrentOn(library) # {}
    /\ alone => InOrderAlone

LEMMA AdviceInvInit == ASSUME AdviceInit PROVE AdviceInv
<1>1. AdviceTypeOK
  BY NoRowsIsAShelf DEF AdviceInit, AdviceTypeOK
<1>2. DraftsApart /\ \A w \in Librarians : RunOfAdvice(w)
  BY NoRowsIsAShelf, NotVisiting DEF AdviceInit, DraftsApart, RunOfAdvice, BackedUp, StillRead
<1>3. InOrderAlone
  BY NoRowsIsAShelf DEF AdviceInit, InOrderAlone, Ranked, Abroad
<1> QED BY <1>1, <1>2, <1>3 DEF AdviceInv, AdviceInit

LEMMA ShelfIsAShelf ==
    ASSUME AdviceTypeOK, NEW w \in Librarians
    PROVE  /\ draft[w] \in Shelves /\ library \in Shelves /\ Shelf(w) \in Shelves
           /\ DOMAIN Shelf(w) = DOMAIN library \cup DOMAIN draft[w]
           /\ \A s \in DOMAIN draft[w] : Shelf(w)[s] = draft[w][s]
           /\ \A s \in DOMAIN library \ DOMAIN draft[w] : Shelf(w)[s] = library[s]
<1>1. draft[w] \in Shelves /\ library \in Shelves
  BY DEF AdviceTypeOK
<1> QED BY <1>1, OverIsAShelf DEF Shelf

\* A librarian whose own rows and reading are as they were is as it was.
LEMMA RunOfAdviceKept ==
    ASSUME NEW w \in Librarians, RunOfAdvice(w),
           UNCHANGED library, draft'[w] = draft[w], visit'[w] = visit[w]
    PROVE  RunOfAdvice(w)'
<1>1. Shelf(w)' = Shelf(w)
  BY DEF Shelf
<1>2. BackedUp(w)'
  BY DEF RunOfAdvice, BackedUp
<1>3. StillRead(w)'
  BY <1>1 DEF RunOfAdvice, StillRead
<1> QED BY <1>2, <1>3 DEF RunOfAdvice

LEMMA StartVisitPreserves ==
    ASSUME AdviceInv, NEW w \in Librarians, StartVisit(w) PROVE AdviceInv'
<1>1. /\ visit[w] = Home /\ visit' = [visit EXCEPT ![w] = Between]
      /\ alone' = (alone /\ Abroad = {}) /\ UNCHANGED <<library, draft>>
      /\ draft[w] = NoRows /\ AdviceTypeOK
  BY DEF StartVisit, AdviceInv, RunOfAdvice
<1>2. AdviceTypeOK'
  BY <1>1 DEF AdviceTypeOK
<1>3. ASSUME NEW v \in Librarians PROVE RunOfAdvice(v)'
  <2>1. CASE v # w
    <3>1. visit'[v] = visit[v] /\ draft'[v] = draft[v] /\ RunOfAdvice(v)
      BY <1>1, <2>1 DEF AdviceTypeOK, AdviceInv
    <3> QED BY <1>1, <3>1, RunOfAdviceKept
  <2>2. CASE v = w
    <3>1. visit'[w] = Between
      BY <1>1 DEF AdviceTypeOK
    <3> QED BY <1>1, <2>2, <3>1, NoRowsIsAShelf, NotVisiting DEF RunOfAdvice, BackedUp, StillRead
  <2> QED BY <2>1, <2>2
<1>4. ASSUME alone' PROVE InOrderAlone'
  <2>1. Abroad' = {w} /\ visit'[w] = Between /\ Ranked(library)
    <3>1. Abroad = {} /\ InOrderAlone
      BY <1>1, <1>4 DEF AdviceInv
    <3> QED BY <1>1, <3>1, NotVisiting DEF Abroad, InOrderAlone, AdviceTypeOK
  <2>2. Shelf(w)' = library
    BY <1>1, OverNothing DEF Shelf, AdviceTypeOK
  <2>3. Ranked(Shelf(w))' /\ Ranked(library)'
    BY <1>1, <2>1, <2>2 DEF Ranked, CurrentOn, NewestDate
  <2> QED BY <2>1, <2>3, NotVisiting DEF InOrderAlone, ReadsHold
<1> QED BY <1>1, <1>2, <1>3, <1>4 DEF AdviceInv, DraftsApart

LEMMA ReadShelfPreserves ==
    ASSUME AdviceInv, NEW w \in Librarians, NEW sheet \in Sheet, NEW text \in Fullness,
           ReadShelf(w, sheet, text)
    PROVE  AdviceInv'
<1> DEFINE read == [pc |-> "read", sheet |-> sheet, text |-> text,
                    known |-> IF sheet \in DOMAIN Shelf(w) THEN Shelf(w)[sheet].text ELSE 0,
                    isKnown |-> sheet \in DOMAIN Shelf(w),
                    newest |-> IsNewest(sheet, Shelf(w)),
                    current |-> CurrentOn(Shelf(w))]
<1>1. /\ visit[w] = Between /\ visit' = [visit EXCEPT ![w] = read]
      /\ UNCHANGED <<library, draft, alone>> /\ AdviceTypeOK
  BY DEF ReadShelf, AdviceInv
<1>2. read \in Visiting
  <2>1. Shelf(w) \in Shelves
    BY <1>1, ShelfIsAShelf
  <2>2. sheet \in DOMAIN Shelf(w) => Shelf(w)[sheet].text \in Nat
    BY <2>1, OnAShelf DEF SheetRow
  <2>3. CurrentOn(Shelf(w)) \in SUBSET Sheet
    BY <2>1, OnAShelf DEF CurrentOn
  <2>4. IsNewest(sheet, Shelf(w)) \in BOOLEAN
    BY DEF IsNewest
  <2> QED BY <2>2, <2>3, <2>4 DEF Visiting
<1>3. AdviceTypeOK'
  BY <1>1, <1>2 DEF AdviceTypeOK
<1>4. /\ visit'[w] = read /\ visit'[w] # Home /\ \A v \in Librarians \ {w} : visit'[v] = visit[v]
      /\ \A v \in Librarians : Shelf(v)' = Shelf(v)
  BY <1>1, <1>2, NotVisiting DEF AdviceTypeOK, Shelf
<1>5. read.sheet = sheet /\ (read.isKnown <=> sheet \in DOMAIN Shelf(w))
      /\ (read.newest <=> IsNewest(sheet, Shelf(w))) /\ read.current = CurrentOn(Shelf(w))
  OBVIOUS
<1> HIDE DEF read
<1>6. ASSUME NEW v \in Librarians PROVE RunOfAdvice(v)'
  <2>1. CASE v # w
    BY <1>1, <1>4, <2>1, RunOfAdviceKept DEF AdviceInv
  <2>2. CASE v = w
    <3>1. BackedUp(w)'
      BY <1>1 DEF AdviceInv, RunOfAdvice, BackedUp
    <3>2. ASSUME ~read.newest PROVE draft[w] # NoRows \/ library # NoRows
      <4>1. NewestDate(Shelf(w)) # 0 /\ Shelf(w) \in Shelves
        BY <1>1, <1>5, <3>2, ShelfIsAShelf DEF IsNewest
      <4>2. DOMAIN Shelf(w) # {}
        BY <4>1, NewestIs
      <4> QED BY <1>1, <4>2, ShelfIsAShelf, NoRowsIsAShelf
    <3>3. StillRead(w)'
      BY <1>1, <1>4, <1>5, <3>2 DEF StillRead
    <3> QED BY <1>4, <2>2, <3>1, <3>3 DEF RunOfAdvice
  <2> QED BY <2>1, <2>2
<1>7. ASSUME alone' PROVE InOrderAlone'
  <2>1. InOrderAlone /\ Abroad' = Abroad /\ w \in Abroad
    BY <1>1, <1>4, <1>7, NotVisiting DEF AdviceInv, Abroad
  <2>2. \A v \in Abroad : v = w
    BY <2>1 DEF InOrderAlone
  <2>3. Ranked(Shelf(w))' /\ Ranked(library)'
    BY <1>1, <1>4, <2>1, ZenonT(60) DEF InOrderAlone, Ranked, CurrentOn, NewestDate
  <2>4. ReadsHold(w)'
    BY <1>4, <1>5 DEF ReadsHold
  <2> QED BY <2>1, <2>2, <2>3, <2>4 DEF InOrderAlone
<1> QED BY <1>1, <1>3, <1>6, <1>7 DEF AdviceInv, DraftsApart

\* A sheet is left without a row being written.
LEMMA LeaveSheetPreserves ==
    ASSUME AdviceInv, NEW w \in Librarians, visit[w] \in Visiting,
           visit' = [visit EXCEPT ![w] = Between], UNCHANGED <<library, draft, alone>>
    PROVE  AdviceInv'
<1>1. AdviceTypeOK /\ AdviceTypeOK'
  BY DEF AdviceInv, AdviceTypeOK
<1>2. /\ visit'[w] = Between /\ visit'[w] # Home /\ \A v \in Librarians \ {w} : visit'[v] = visit[v]
      /\ \A v \in Librarians : Shelf(v)' = Shelf(v)
  BY <1>1, NotVisiting DEF AdviceTypeOK, Shelf
<1>3. ASSUME NEW v \in Librarians PROVE RunOfAdvice(v)'
  <2>1. CASE v # w
    BY <1>1, <1>2, <2>1, RunOfAdviceKept DEF AdviceInv
  <2>2. CASE v = w
    <3>1. BackedUp(w)'
      BY DEF AdviceInv, RunOfAdvice, BackedUp
    <3> QED BY <1>2, <2>2, <3>1, NotVisiting DEF RunOfAdvice, StillRead
  <2> QED BY <2>1, <2>2
<1>4. ASSUME alone' PROVE InOrderAlone'
  <2>1. InOrderAlone /\ Abroad' = Abroad /\ w \in Abroad
    BY <1>1, <1>2, <1>4, NotVisiting DEF AdviceInv, Abroad
  <2>2. \A v \in Abroad : v = w
    BY <2>1 DEF InOrderAlone
  <2>3. Ranked(Shelf(w))' /\ Ranked(library)'
    BY <1>1, <1>2, <2>1, SMTT(20) DEF InOrderAlone, Ranked, CurrentOn, NewestDate
  <2>4. ReadsHold(w)'
    BY <1>2, NotVisiting DEF ReadsHold
  <2> QED BY <2>1, <2>2, <2>3, <2>4 DEF InOrderAlone
<1> QED BY <1>1, <1>3, <1>4 DEF AdviceInv, DraftsApart

\* A sheet is left with rows written: they may leave the run with no sheet in front
\* only if it had none, and none of what it wrote is in front in the library.
LEMMA WritePreserves ==
    ASSUME AdviceInv, NEW w \in Librarians, visit[w] \in Visiting,
           NEW written \in Shelves, written # NoRows, Write(w, written),
           CurrentOn(Over(draft[w], written)) = {} =>
               /\ CurrentOn(draft[w]) = {}
               /\ \A s \in DOMAIN written \cap DOMAIN library : ~library[s].current
               /\ library # NoRows,
           alone => Ranked(Over(Shelf(w), written))
    PROVE  AdviceInv'
<1> DEFINE new == Over(draft[w], written)
<1>1. /\ visit' = [visit EXCEPT ![w] = Between] /\ draft' = [draft EXCEPT ![w] = new]
      /\ UNCHANGED <<library, alone>> /\ AdviceTypeOK
      /\ ~LockedOut(w, DOMAIN written)
  BY DEF Write, AdviceInv
<1>2. /\ new \in Shelves /\ DOMAIN new = DOMAIN draft[w] \cup DOMAIN written
      /\ library \in Shelves /\ draft[w] \in Shelves
  BY <1>1, OverIsAShelf DEF AdviceTypeOK
<1>3. Over(library, new) = Over(Shelf(w), written)
  BY <1>2, OverTwice DEF Shelf
<1>4. CurrentOn(new) = {} =>
          /\ CurrentOn(draft[w]) = {}
          /\ \A s \in DOMAIN written \cap DOMAIN library : ~library[s].current
          /\ library # NoRows
  OBVIOUS
<1> HIDE DEF new
<1>5. AdviceTypeOK'
  BY <1>1, <1>2 DEF AdviceTypeOK
<1>6. /\ visit'[w] = Between /\ visit'[w] # Home /\ draft'[w] = new
      /\ \A v \in Librarians \ {w} : visit'[v] = visit[v] /\ draft'[v] = draft[v]
      /\ Shelf(w)' = Over(Shelf(w), written)
  BY <1>1, <1>3, NotVisiting DEF AdviceTypeOK, Shelf
<1>7. DraftsApart'
  <2> SUFFICES ASSUME NEW v \in Librarians, v # w PROVE DOMAIN new \cap DOMAIN draft[v] = {}
    BY <1>6 DEF AdviceInv, DraftsApart
  <2>1. DOMAIN written \cap DOMAIN draft[v] = {}
    BY <1>1 DEF LockedOut
  <2>2. DOMAIN draft[w] \cap DOMAIN draft[v] = {}
    BY DEF AdviceInv, DraftsApart
  <2> QED BY <1>2, <2>1, <2>2
<1>8. ASSUME NEW v \in Librarians PROVE RunOfAdvice(v)'
  <2>1. CASE v # w
    BY <1>1, <1>6, <2>1, RunOfAdviceKept DEF AdviceInv
  <2>2. CASE v = w
    <3>1. ASSUME CurrentOn(new) = {}
          PROVE  /\ \A s \in DOMAIN new \cap DOMAIN library : ~library[s].current
                 /\ library # NoRows
      BY <1>2, <1>4, <3>1 DEF AdviceInv, RunOfAdvice, BackedUp
    <3>2. BackedUp(w)'
      BY <1>1, <1>6, <3>1 DEF BackedUp
    <3> QED BY <1>6, <2>2, <3>2, NotVisiting DEF RunOfAdvice, StillRead
  <2> QED BY <2>1, <2>2
<1>9. ASSUME alone' PROVE InOrderAlone'
  <2>1. InOrderAlone /\ Abroad' = Abroad /\ w \in Abroad
    BY <1>1, <1>6, <1>9, NotVisiting DEF AdviceInv, Abroad
  <2>2. \A v \in Abroad : v = w
    BY <2>1 DEF InOrderAlone
  <2>3. Ranked(Shelf(w))' /\ Ranked(library)'
    <3>1. Ranked(Over(Shelf(w), written)) /\ Ranked(library)
      BY <1>1, <1>9, <2>1 DEF InOrderAlone
    <3> QED BY <1>1, <1>6, <3>1 DEF Ranked, CurrentOn, NewestDate
  <2>4. ReadsHold(w)'
    BY <1>6, NotVisiting DEF ReadsHold
  <2> QED BY <2>1, <2>2, <2>3, <2>4 DEF InOrderAlone
<1> QED BY <1>1, <1>5, <1>7, <1>8, <1>9 DEF AdviceInv

\* A fuller text puts nothing in front and nothing behind.
LEMMA FillOutPreserves ==
    ASSUME AdviceInv, NEW w \in Librarians, visit[w] \in Visiting, FillOut(w)
    PROVE  AdviceInv'
<1> DEFINE s == visit[w].sheet
           row == [Shelf(w)[s] EXCEPT !.text = visit[w].text]
           written == [t \in {s} |-> row]
<1>1. AdviceTypeOK /\ RunOfAdvice(w) /\ visit[w].isKnown
  BY DEF FillOut, AdviceInv
<1>2. CASE ~(visit[w].text > visit[w].known)
  BY <1>2, LeaveSheetPreserves DEF FillOut
<1>3. CASE visit[w].text > visit[w].known
  <2>1. Write(w, written)
    BY <1>3 DEF FillOut
  <2>2. s \in DOMAIN Shelf(w) /\ s \in Sheet /\ visit[w].text \in Nat
    BY <1>1, AdviceAssumption DEF RunOfAdvice, StillRead, Visiting
  <2>3. /\ Shelf(w) \in Shelves /\ draft[w] \in Shelves /\ library \in Shelves
        /\ DOMAIN Shelf(w) = DOMAIN library \cup DOMAIN draft[w]
        /\ \A t \in DOMAIN draft[w] : Shelf(w)[t] = draft[w][t]
        /\ \A t \in DOMAIN library \ DOMAIN draft[w] : Shelf(w)[t] = library[t]
    BY <1>1, ShelfIsAShelf
  <2>4. row \in SheetRow /\ row.current = Shelf(w)[s].current
    BY <2>2, <2>3, OnAShelf, SMTT(20) DEF SheetRow
  <2>5. DOMAIN written = {s} /\ written[s] = row
    OBVIOUS
  <2>6. written \in Shelves /\ written # NoRows
    <3>1. written \in [{s} -> SheetRow] /\ {s} \in SUBSET Sheet
      BY <2>2, <2>4
    <3> QED BY <3>1, <2>5, NoRowsIsAShelf DEF Shelves
  <2> HIDE DEF s, row, written
  <2>7. ASSUME CurrentOn(Over(draft[w], written)) = {}
        PROVE  /\ CurrentOn(draft[w]) = {}
               /\ \A t \in DOMAIN written \cap DOMAIN library : ~library[t].current
               /\ library # NoRows
    <3>1. /\ DOMAIN Over(draft[w], written) = DOMAIN draft[w] \cup {s}
          /\ Over(draft[w], written)[s] = row
          /\ \A t \in DOMAIN draft[w] \ {s} : Over(draft[w], written)[t] = draft[w][t]
      <4>1. /\ DOMAIN Over(draft[w], written) = DOMAIN draft[w] \cup DOMAIN written
            /\ \A t \in DOMAIN written : Over(draft[w], written)[t] = written[t]
            /\ \A t \in DOMAIN draft[w] \ DOMAIN written : Over(draft[w], written)[t] = draft[w][t]
        BY <2>3, <2>6, OverIsAShelf
      <4> QED BY <2>5, <4>1
    <3>2. ~row.current /\ \A t \in DOMAIN draft[w] \ {s} : ~draft[w][t].current
      BY <2>7, <3>1 DEF CurrentOn
    <3>3. CurrentOn(draft[w]) = {}
      BY <2>3, <2>4, <3>2 DEF CurrentOn
    <3>4. s \in DOMAIN library => ~library[s].current
      BY <1>1, <2>3, <2>4, <3>2, <3>3 DEF RunOfAdvice, BackedUp
    <3>5. library # NoRows
      <4>1. CASE s \in DOMAIN library
        BY <4>1, NoRowsIsAShelf
      <4>2. CASE s \in DOMAIN draft[w]
        BY <1>1, <3>3, <4>2, NoRowsIsAShelf DEF RunOfAdvice, BackedUp
      <4> QED BY <2>2, <2>3, <4>1, <4>2 DEF s
    <3> QED BY <2>5, <3>3, <3>4, <3>5
  <2>8. ASSUME alone PROVE Ranked(Over(Shelf(w), written))
    <3>1. /\ DOMAIN Over(Shelf(w), written) = DOMAIN Shelf(w)
          /\ Over(Shelf(w), written)[s] = row
          /\ \A t \in DOMAIN Shelf(w) \ {s} : Over(Shelf(w), written)[t] = Shelf(w)[t]
      BY <2>2, <2>3, <2>5, <2>6, OverIsAShelf DEF s
    <3>2. CurrentOn(Over(Shelf(w), written)) = CurrentOn(Shelf(w))
      BY <2>4, <3>1 DEF CurrentOn
    <3>3. NewestDate(Over(Shelf(w), written)) = NewestDate(Shelf(w))
      BY <3>1 DEF NewestDate
    <3>4. Ranked(Shelf(w))
      BY <2>8, NotVisiting DEF AdviceInv, InOrderAlone, Abroad
    <3> QED BY <3>2, <3>3, <3>4 DEF Ranked
  <2> QED BY <2>1, <2>6, <2>7, <2>8, WritePreserves
<1> QED BY <1>2, <1>3

\* A new sheet goes in front exactly if it is dated no earlier than the rest, and
\* then nothing else stays there.
LEMMA AddSheetPreserves ==
    ASSUME AdviceInv, NEW w \in Librarians, visit[w] \in Visiting, NEW seesLater \in BOOLEAN,
           AddSheet(w, seesLater)
    PROVE  AdviceInv'
<1> DEFINE v == visit[w]
           s == visit[w].sheet
           shelf == Shelf(w)
           sees == IF seesLater THEN CurrentOn(shelf) ELSE v.current
           old == IF v.newest THEN Superseded(sees \cap CurrentOn(shelf)) ELSE {}
           written == [t \in old \cup {s} |->
                         IF t = s THEN [current |-> v.newest, text |-> v.text]
                         ELSE [shelf[t] EXCEPT !.current = FALSE]]
<1>1. /\ AdviceTypeOK /\ RunOfAdvice(w) /\ s \notin DOMAIN shelf /\ Write(w, written)
      /\ s \in Sheet /\ v.text \in Nat /\ v.newest \in BOOLEAN
  BY AdviceAssumption DEF AddSheet, AdviceInv, Visiting
<1>2. /\ shelf \in Shelves /\ draft[w] \in Shelves /\ library \in Shelves
      /\ DOMAIN shelf = DOMAIN library \cup DOMAIN draft[w]
  BY <1>1, ShelfIsAShelf
<1>3. old \subseteq CurrentOn(shelf) /\ (~v.newest => old = {}) /\ old \subseteq DOMAIN shelf
  BY DEF Superseded, CurrentOn
<1>4. ASSUME alone, v.newest PROVE old = CurrentOn(shelf)
  <2>1. v.current = CurrentOn(shelf)
    BY <1>1, <1>4, NotVisiting DEF AdviceInv, InOrderAlone, Abroad, ReadsHold
  <2> QED BY <1>4, <2>1 DEF Superseded
<1>5. ASSUME ~v.newest PROVE library # NoRows \/ draft[w] # NoRows
  BY <1>1, <1>5 DEF RunOfAdvice, StillRead
<1>6. ASSUME alone PROVE Ranked(shelf) /\ (v.newest <=> IsNewest(s, shelf))
  BY <1>1, <1>6, NotVisiting DEF AdviceInv, InOrderAlone, Abroad, ReadsHold
<1> DEFINE front == [current |-> v.newest, text |-> v.text]
<1>7. front \in SheetRow /\ (front.current <=> v.newest)
  BY <1>1 DEF SheetRow
<1>8. \A t \in DOMAIN shelf : [shelf[t] EXCEPT !.current = FALSE] \in SheetRow
                              /\ ~[shelf[t] EXCEPT !.current = FALSE].current
  <2>1. \A t \in DOMAIN shelf : shelf[t] \in SheetRow
    BY <1>2, OnAShelf
  <2>2. \A r \in SheetRow : [r EXCEPT !.current = FALSE] \in SheetRow /\ ~[r EXCEPT !.current = FALSE].current
    BY DEF SheetRow
  <2> HIDE DEF shelf
  <2> QED BY <2>1, <2>2
<1>9. /\ DOMAIN written = old \cup {s} /\ written[s] = front
      /\ \A t \in old : written[t] \in SheetRow /\ ~written[t].current
      /\ written \in [old \cup {s} -> SheetRow]
  BY <1>1, <1>3, <1>7, <1>8
<1>10. written \in Shelves /\ written # NoRows
  <2>1. old \cup {s} \in SUBSET Sheet
    BY <1>1, <1>2, <1>3, OnAShelf
  <2> QED BY <1>9, <2>1, NoRowsIsAShelf DEF Shelves
<1> HIDE DEF front, written, old, sees, shelf, s, v
<1>11. ASSUME CurrentOn(Over(draft[w], written)) = {}
       PROVE  /\ CurrentOn(draft[w]) = {}
              /\ \A t \in DOMAIN written \cap DOMAIN library : ~library[t].current
              /\ library # NoRows
  <2>1. /\ DOMAIN Over(draft[w], written) = DOMAIN draft[w] \cup DOMAIN written
        /\ \A t \in DOMAIN written : Over(draft[w], written)[t] = written[t]
        /\ \A t \in DOMAIN draft[w] \ DOMAIN written : Over(draft[w], written)[t] = draft[w][t]
    BY <1>2, <1>10, OverIsAShelf
  <2>2. ~v.newest
    BY <1>7, <1>9, <1>11, <2>1 DEF CurrentOn
  <2>3. DOMAIN written = {s}
    BY <1>3, <1>9, <2>2
  <2>4. CurrentOn(draft[w]) = {}
    BY <1>1, <1>2, <1>11, <2>1, <2>3 DEF CurrentOn
  <2>5. library # NoRows
    BY <1>1, <1>5, <2>2, <2>4 DEF RunOfAdvice, BackedUp
  <2> QED BY <1>1, <1>2, <2>3, <2>4, <2>5
<1>12. ASSUME alone PROVE Ranked(Over(shelf, written))
  <2> DEFINE new == Over(shelf, written)
  <2>1. /\ new \in Shelves /\ DOMAIN new = DOMAIN shelf \cup {s}
        /\ new[s] = front /\ \A t \in old : ~new[t].current
        /\ \A t \in DOMAIN shelf \ old : new[t] = shelf[t]
    <3>1. /\ new \in Shelves /\ DOMAIN new = DOMAIN shelf \cup DOMAIN written
          /\ \A t \in DOMAIN written : new[t] = written[t]
          /\ \A t \in DOMAIN shelf \ DOMAIN written : new[t] = shelf[t]
      BY <1>2, <1>10, OverIsAShelf
    <3> HIDE DEF new
    <3> QED BY <1>1, <1>3, <1>9, <3>1
  <2> HIDE DEF new
  <2>2. NewestDate(new) = IF s.date > NewestDate(shelf) THEN s.date ELSE NewestDate(shelf)
    BY <1>1, <1>2, <2>1, NewestAdded
  <2>3. NewestDate(shelf) \in Nat /\ s.date \in Nat
    BY <1>1, <1>2, NewestIs, AdviceAssumption DEF Sheet
  <2>4. CASE v.newest
    <3>1. CurrentOn(new) = {s}
      BY <1>1, <1>4, <1>7, <1>12, <2>1, <2>4 DEF CurrentOn
    <3>2. s.date >= NewestDate(shelf)
      BY <1>6, <1>12, <2>3, <2>4 DEF IsNewest
    <3>3. s.date = NewestDate(new)
      BY <2>2, <2>3, <3>2
    <3> QED BY <3>1, <3>3 DEF Ranked, new
  <2>5. CASE ~v.newest
    <3>1. CurrentOn(new) = CurrentOn(shelf)
      BY <1>1, <1>3, <1>7, <2>1, <2>5 DEF CurrentOn
    <3>2. ~(s.date > NewestDate(shelf))
      BY <1>6, <1>12, <2>3, <2>5 DEF IsNewest
    <3>3. NewestDate(new) = NewestDate(shelf)
      BY <2>2, <3>2
    <3> QED BY <1>6, <1>12, <3>1, <3>3 DEF Ranked, new
  <2> QED BY <1>1, <2>4, <2>5
<1> QED BY <1>1, <1>10, <1>11, <1>12, WritePreserves DEF shelf

\* Nobody else's rows are of the sheets a run commits.
LEMMA CommitVisitPreserves ==
    ASSUME AdviceInv, NEW w \in Librarians, CommitVisit(w) PROVE AdviceInv'
<1>1. /\ visit[w] = Between /\ library' = Shelf(w)
      /\ draft' = [draft EXCEPT ![w] = NoRows] /\ visit' = [visit EXCEPT ![w] = Home]
      /\ UNCHANGED alone /\ AdviceTypeOK
  BY DEF CommitVisit, AdviceInv
<1>2. /\ Shelf(w) \in Shelves /\ draft[w] \in Shelves /\ library \in Shelves
      /\ DOMAIN Shelf(w) = DOMAIN library \cup DOMAIN draft[w]
      /\ \A s \in DOMAIN draft[w] : Shelf(w)[s] = draft[w][s]
      /\ \A s \in DOMAIN library \ DOMAIN draft[w] : Shelf(w)[s] = library[s]
  BY <1>1, ShelfIsAShelf
<1>3. AdviceTypeOK'
  BY <1>1, <1>2, NoRowsIsAShelf DEF AdviceTypeOK
<1>4. /\ visit'[w] = Home /\ draft'[w] = NoRows
      /\ \A v \in Librarians \ {w} : visit'[v] = visit[v] /\ draft'[v] = draft[v]
  BY <1>1 DEF AdviceTypeOK
<1>5. DraftsApart'
  <2>1. DraftsApart
    BY DEF AdviceInv
  <2> QED BY <1>4, <2>1, NoRowsIsAShelf DEF DraftsApart
<1>6. library # NoRows => library' # NoRows
  BY <1>1, <1>2, OnAShelf
<1>7. ASSUME NEW v \in Librarians PROVE RunOfAdvice(v)'
  <2>1. CASE v = w
    BY <1>4, <2>1, NoRowsIsAShelf, NotVisiting DEF RunOfAdvice, BackedUp, StillRead
  <2>2. CASE v # w
    <3>1. RunOfAdvice(v) /\ DOMAIN draft[v] \cap DOMAIN draft[w] = {}
      BY <2>2 DEF AdviceInv, DraftsApart
    <3>2. BackedUp(v)'
      <4>1. ASSUME CurrentOn(draft[v]) = {}, NEW s \in DOMAIN draft[v] \cap DOMAIN Shelf(w)
            PROVE  ~Shelf(w)[s].current
        BY <1>2, <3>1, <4>1 DEF RunOfAdvice, BackedUp
      <4> QED BY <1>1, <1>4, <1>6, <2>2, <3>1, <4>1 DEF RunOfAdvice, BackedUp
    <3>3. DOMAIN Shelf(v) \subseteq DOMAIN Shelf(v)'
      <4>1. DOMAIN Shelf(v) = DOMAIN library \cup DOMAIN draft[v]
        BY <1>1, ShelfIsAShelf
      <4>2. DOMAIN Over(Shelf(w), draft[v]) = DOMAIN Shelf(w) \cup DOMAIN draft[v]
        BY <1>1, <1>2, OverIsAShelf DEF AdviceTypeOK
      <4>3. Shelf(v)' = Over(Shelf(w), draft[v])
        BY <1>1, <1>4, <2>2 DEF Shelf
      <4> QED BY <1>2, <4>1, <4>2, <4>3
    <3>4. StillRead(v)'
      BY <1>4, <1>6, <2>2, <3>1, <3>3 DEF RunOfAdvice, StillRead
    <3> QED BY <1>4, <2>2, <3>1, <3>2, <3>4 DEF RunOfAdvice
  <2> QED BY <2>1, <2>2
<1>8. ASSUME library' # NoRows PROVE CurrentOn(library') # {}
  <2>1. RunOfAdvice(w)
    BY DEF AdviceInv
  <2>2. CASE CurrentOn(draft[w]) # {}
    BY <1>1, <1>2, <2>2 DEF CurrentOn
  <2>3. CASE CurrentOn(draft[w]) = {}
    <3>1. library # NoRows
      <4>1. DOMAIN Shelf(w) # {}
        BY <1>1, <1>2, <1>8, OnAShelf
      <4> QED BY <1>2, <2>1, <2>3, <4>1, OnAShelf, NoRowsIsAShelf DEF RunOfAdvice, BackedUp
    <3>2. PICK s \in CurrentOn(library) : TRUE
      BY <3>1 DEF AdviceInv
    <3>3. s \notin DOMAIN draft[w]
      BY <2>1, <2>3, <3>2 DEF RunOfAdvice, BackedUp, CurrentOn
    <3>4. s \in CurrentOn(Shelf(w))
      BY <1>2, <3>2, <3>3 DEF CurrentOn
    <3> QED BY <1>1, <3>4
  <2> QED BY <2>2, <2>3
<1>9. ASSUME alone' PROVE InOrderAlone'
  <2>1. InOrderAlone /\ w \in Abroad
    BY <1>1, <1>9, NotVisiting DEF AdviceInv, Abroad
  <2>2. Ranked(Shelf(w)) /\ Abroad' = {}
    BY <1>4, <2>1 DEF InOrderAlone, Abroad
  <2>3. Ranked(library)'
    BY <1>1, <2>2 DEF Ranked, CurrentOn, NewestDate
  <2> QED BY <2>2, <2>3 DEF InOrderAlone
<1>10. CurrentOn(library)' = CurrentOn(library')
  BY DEF CurrentOn
<1> QED BY <1>3, <1>5, <1>7, <1>8, <1>9, <1>10 DEF AdviceInv

LEMMA AbandonVisitPreserves ==
    ASSUME AdviceInv, NEW w \in Librarians, AbandonVisit(w) PROVE AdviceInv'
<1>1. /\ draft' = [draft EXCEPT ![w] = NoRows] /\ visit' = [visit EXCEPT ![w] = Home]
      /\ visit[w] # Home /\ UNCHANGED <<library, alone>> /\ AdviceTypeOK
  BY DEF AbandonVisit, AdviceInv
<1>2. AdviceTypeOK'
  BY <1>1, NoRowsIsAShelf DEF AdviceTypeOK
<1>3. /\ visit'[w] = Home /\ draft'[w] = NoRows
      /\ \A v \in Librarians \ {w} : visit'[v] = visit[v] /\ draft'[v] = draft[v]
  BY <1>1 DEF AdviceTypeOK
<1>4. DraftsApart'
  <2>1. DraftsApart
    BY DEF AdviceInv
  <2> QED BY <1>3, <2>1, NoRowsIsAShelf DEF DraftsApart
<1>5. ASSUME NEW v \in Librarians PROVE RunOfAdvice(v)'
  <2>1. CASE v = w
    BY <1>3, <2>1, NoRowsIsAShelf, NotVisiting DEF RunOfAdvice, BackedUp, StillRead
  <2>2. CASE v # w
    BY <1>1, <1>3, <2>2, RunOfAdviceKept DEF AdviceInv
  <2> QED BY <2>1, <2>2
<1>6. ASSUME alone' PROVE InOrderAlone'
  <2>1. InOrderAlone /\ w \in Abroad
    BY <1>1, <1>6 DEF AdviceInv, Abroad
  <2>2. Ranked(library) /\ Abroad' = {}
    BY <1>3, <2>1 DEF InOrderAlone, Abroad
  <2>3. Ranked(library)'
    BY <1>1, <2>2 DEF Ranked, CurrentOn, NewestDate
  <2> QED BY <2>2, <2>3 DEF InOrderAlone
<1> QED BY <1>1, <1>2, <1>4, <1>5, <1>6 DEF AdviceInv

LEMMA AdviceInvNext == ASSUME AdviceInv, [AdviceNext]_adviceVars PROVE AdviceInv'
<1>1. CASE UNCHANGED adviceVars
  <2>1. UNCHANGED <<library, draft, visit, alone>>
    BY <1>1 DEF adviceVars
  <2>2. \A w \in Librarians : RunOfAdvice(w)'
    BY <2>1, RunOfAdviceKept DEF AdviceInv
  <2>3. AdviceTypeOK' /\ DraftsApart' /\ CurrentOn(library)' = CurrentOn(library)
    BY <2>1 DEF AdviceInv, AdviceTypeOK, DraftsApart, CurrentOn
  <2>4. ASSUME InOrderAlone PROVE InOrderAlone'
    <3>1. Abroad' = Abroad /\ Ranked(library)'
      BY <2>1, <2>4 DEF InOrderAlone, Abroad, Ranked, CurrentOn, NewestDate
    <3>2. ASSUME NEW w \in Abroad PROVE Ranked(Shelf(w))' /\ ReadsHold(w)'
      <4>1. Ranked(Shelf(w)) /\ ReadsHold(w)
        BY <2>4 DEF InOrderAlone
      <4>2. Shelf(w)' = Shelf(w)
        BY <2>1 DEF Shelf
      <4>3. Ranked(Shelf(w))'
        BY <4>1, <4>2 DEF Ranked, CurrentOn, NewestDate
      <4>4. ReadsHold(w)'
        BY <2>1, <4>1, <4>2 DEF ReadsHold, IsNewest, CurrentOn, NewestDate
      <4> QED BY <4>3, <4>4
    <3> QED BY <2>4, <3>1, <3>2 DEF InOrderAlone
  <2> QED BY <2>1, <2>2, <2>3, <2>4 DEF AdviceInv
<1>2. CASE AdviceNext
  <2>1. PICK w \in Librarians :
            \/ StartVisit(w)
            \/ \E sheet \in Sheet, text \in Fullness : ReadShelf(w, sheet, text)
            \/ FillOut(w)
            \/ \E seesLater \in BOOLEAN : AddSheet(w, seesLater)
            \/ SkipSheet(w)
            \/ CommitVisit(w)
            \/ AbandonVisit(w)
    BY <1>2 DEF AdviceNext
  <2>2. visit[w].pc = "read" => visit[w] \in Visiting
    BY DEF AdviceInv, AdviceTypeOK, Home, Between
  <2>3. CASE FillOut(w) \/ \E seesLater \in BOOLEAN : AddSheet(w, seesLater)
    <3>1. visit[w] \in Visiting
      BY <2>2, <2>3 DEF FillOut, AddSheet
    <3> QED BY <2>3, <3>1, FillOutPreserves, AddSheetPreserves
  <2>4. CASE SkipSheet(w)
    BY <2>2, <2>4, LeaveSheetPreserves DEF SkipSheet
  <2> QED BY <2>1, <2>3, <2>4, StartVisitPreserves, ReadShelfPreserves, CommitVisitPreserves,
             AbandonVisitPreserves
<1> QED BY <1>1, <1>2

\* workers/advisory_worker.py: a library with a row has a current one, however many
\* runs overlap; it is the only one and of the latest date if none ever did.
THEOREM CurrentStaysLatest == AdviceSpec => []CurrentIsLatest
<1>1. AdviceInv => CurrentIsLatest
  BY DEF AdviceInv, CurrentIsLatest, InOrderAlone, Ranked
<1> QED BY <1>1, AdviceInvInit, AdviceInvNext, PTL DEF AdviceSpec
-----------------------------------------------------------------------------
(* Travel. *)

TravelInv == today \in Nat /\ trip.back \in Nat

LEMMA TravelInvNext == ASSUME TravelInv, [TravelNext]_travelVars PROVE TravelInv'
<1>1. ASSUME NEW i \in Itinerary, NEW active PROVE Booked(i, active).back \in Nat
  BY TravelAssumption DEF Itinerary, Booked
<1>2. CASE DayPasses \/ UNCHANGED travelVars
  BY <1>2 DEF TravelInv, DayPasses, travelVars
<1>3. CASE \E i \in Itinerary : CreateTrip(i) \/ \E checkIn \in BOOLEAN : UpdateTrip(i, checkIn)
  BY <1>1, <1>3 DEF TravelInv, CreateTrip, UpdateTrip
<1>4. CASE DeleteTrip
  <2>1. trip'.back = trip.back /\ today' = today
    BY <1>4 DEF DeleteTrip
  <2> QED BY <2>1 DEF TravelInv
<1> QED BY <1>2, <1>3, <1>4 DEF TravelNext

\* api/routes/people.py, list_trips: for a window of any length, a listed trip is
\* not taken off by days that pass.
THEOREM NobodyIsDropped == TravelSpec => TimeDropsNobody
<1>1. TravelInit => TravelInv
  BY DEF TravelInit, TravelInv, NoTrip
<1>2. ASSUME TravelInv, [TravelNext]_travelVars
      PROVE  [OnTheList(trip) /\ today' # today => OnTheList(trip)']_travelVars
  <2> SUFFICES ASSUME TravelNext, OnTheList(trip), today' # today PROVE OnTheList(trip)'
    BY <1>2
  <2>1. DayPasses
    BY DEF TravelNext, CreateTrip, UpdateTrip, DeleteTrip
  <2> QED BY <1>2, <2>1, TravelAssumption DEF TravelInv, DayPasses, OnTheList
<1> QED BY <1>1, <1>2, TravelInvNext, PTL DEF TravelSpec, TimeDropsNobody
-----------------------------------------------------------------------------
(* Signals: for any feeds, any number of ingest runs side by side and the  *)
(* merge script between their steps, no story is hidden for good, no       *)
(* document leaves its story and a bad item falls alone.                   *)

(* Where merges lead.  A table is sound if no event is merged into one     *)
(* that is not in it, and none of its sets is merged into itself.          *)

Whole(table) == \A i \in DOMAIN table : table[i].into \in DOMAIN table \cup {Canonical}
NoCircle(table) ==
    \A set \in SUBSET DOMAIN table : set # {} => \E k \in set : table[k].into \notin set
Sound(table) == DOMAIN table \subseteq Items /\ Whole(table) /\ NoCircle(table)

LEMMA LeadsSomewhere ==
    ASSUME NEW f, Sound(f), NEW i \in DOMAIN f PROVE LeadsTo(f, i) # {}
<1> DEFINE trail == {e \in DOMAIN f : \A set \in SUBSET DOMAIN f : i \in set /\ Along(f, set) => e \in set}
<1>1. i \in trail /\ trail \in SUBSET DOMAIN f
  OBVIOUS
<1>2. PICK k \in trail : f[k].into \notin trail
  <2> HIDE DEF trail
  <2> QED BY <1>1 DEF Sound, NoCircle
<1>3. f[k].into = Canonical
  <2> SUFFICES ASSUME f[k].into # Canonical PROVE FALSE
    OBVIOUS
  <2>1. f[k].into \in DOMAIN f
    BY <1>2 DEF Sound, Whole
  <2>2. ASSUME NEW set \in SUBSET DOMAIN f, i \in set, Along(f, set) PROVE f[k].into \in set
    BY <1>2, <2>2 DEF Along
  <2> QED BY <1>2, <2>1, <2>2
<1> QED BY <1>2, <1>3 DEF LeadsTo, Visible

LEMMA LeadsToItself ==
    ASSUME NEW f, NEW i \in Visible(f) PROVE LeadsTo(f, i) = {i}
<1>1. {i} \in SUBSET DOMAIN f /\ Along(f, {i})
  BY DEF Along, Visible
<1> QED BY <1>1 DEF LeadsTo, Visible

\* A merged event leads where the one does that it is merged into.
LEMMA LeadsOn ==
    ASSUME NEW f, Sound(f), NEW i \in DOMAIN f, f[i].into # Canonical
    PROVE  f[i].into \in DOMAIN f /\ LeadsTo(f, f[i].into) = LeadsTo(f, i)
<1> DEFINE c == f[i].into
<1>1. c \in DOMAIN f
  BY DEF Sound, Whole
<1>2. ASSUME NEW e \in LeadsTo(f, c) PROVE e \in LeadsTo(f, i)
  <2>1. e \in Visible(f)
    BY <1>2 DEF LeadsTo
  <2>2. ASSUME NEW set \in SUBSET DOMAIN f, i \in set, Along(f, set) PROVE e \in set
    <3>1. c \in set
      BY <2>2 DEF Along
    <3> QED BY <1>2, <2>2, <3>1 DEF LeadsTo
  <2> QED BY <2>1, <2>2 DEF LeadsTo
<1>3. ASSUME NEW e \in LeadsTo(f, i) PROVE e \in LeadsTo(f, c)
  <2>1. e \in Visible(f) /\ e # i
    BY <1>3 DEF LeadsTo, Visible
  <2>2. ASSUME NEW set \in SUBSET DOMAIN f, c \in set, Along(f, set) PROVE e \in set
    <3>1. set \cup {i} \in SUBSET DOMAIN f /\ Along(f, set \cup {i})
      BY <2>2 DEF Along
    <3> QED BY <1>3, <2>1, <3>1 DEF LeadsTo
  <2> QED BY <2>1, <2>2 DEF LeadsTo
<1> QED BY <1>1, <1>2, <1>3

\* More events, merged as they please, change nothing about those that were there.
LEMMA LeadsAsBefore ==
    ASSUME NEW f, NEW g, Sound(f), DOMAIN f \subseteq DOMAIN g,
           \A k \in DOMAIN f : g[k].into = f[k].into,
           NEW i \in DOMAIN f
    PROVE  LeadsTo(g, i) = LeadsTo(f, i)
<1>1. ASSUME NEW e \in LeadsTo(g, i) PROVE e \in LeadsTo(f, i)
  <2>1. DOMAIN f \in SUBSET DOMAIN g /\ Along(g, DOMAIN f)
    BY DEF Along, Sound, Whole
  <2>2. e \in Visible(f)
    BY <1>1, <2>1 DEF LeadsTo, Visible
  <2>3. ASSUME NEW set \in SUBSET DOMAIN f, i \in set, Along(f, set) PROVE e \in set
    <3>1. set \in SUBSET DOMAIN g /\ Along(g, set)
      BY <2>3 DEF Along
    <3> QED BY <1>1, <2>3, <3>1 DEF LeadsTo
  <2> QED BY <2>2, <2>3 DEF LeadsTo
<1>2. ASSUME NEW e \in LeadsTo(f, i) PROVE e \in LeadsTo(g, i)
  <2>1. e \in Visible(g)
    BY <1>2 DEF LeadsTo, Visible
  <2>2. ASSUME NEW set \in SUBSET DOMAIN g, i \in set, Along(g, set) PROVE e \in set
    <3>1. set \cap DOMAIN f \in SUBSET DOMAIN f /\ Along(f, set \cap DOMAIN f) /\ i \in set \cap DOMAIN f
      BY <2>2 DEF Along, Sound, Whole
    <3> QED BY <1>2, <3>1 DEF LeadsTo
  <2> QED BY <2>1, <2>2 DEF LeadsTo
<1> QED BY <1>1, <1>2

\* When shown events are merged, what led to one leads where that one does.
LEMMA LeadsAlong ==
    ASSUME NEW f, NEW g, Sound(f), Sound(g), DOMAIN f = DOMAIN g,
           \A k \in DOMAIN f : f[k].into = Canonical \/ g[k].into = f[k].into,
           NEW i \in DOMAIN f, NEW e \in LeadsTo(f, i)
    PROVE  LeadsTo(g, i) = LeadsTo(g, e)
<1>1. e \in DOMAIN f /\ f[e].into = Canonical
  BY DEF LeadsTo, Visible
<1>2. ASSUME NEW set \in SUBSET DOMAIN g, i \in set, Along(g, set) PROVE e \in set
  <2>1. Along(f, set)
    BY <1>2 DEF Along
  <2> QED BY <1>2, <2>1 DEF LeadsTo
<1>3. ASSUME NEW x \in LeadsTo(g, e) PROVE x \in LeadsTo(g, i)
  BY <1>2, <1>3 DEF LeadsTo
<1>4. ASSUME NEW x \in LeadsTo(g, i) PROVE x \in LeadsTo(g, e)
  <2>1. x \in Visible(g)
    BY <1>4 DEF LeadsTo
  <2>2. ASSUME NEW set \in SUBSET DOMAIN g, e \in set, Along(g, set) PROVE x \in set
    <3> DEFINE behind == {k \in DOMAIN f : e \in LeadsTo(f, k)}
    <3>1. ASSUME NEW k \in behind, k # e PROVE f[k].into \in behind /\ g[k].into = f[k].into
      <4>1. f[k].into # Canonical
        BY <3>1, LeadsToItself DEF Visible
      <4> QED BY <3>1, <4>1, LeadsOn
    <3>2. set \cup behind \in SUBSET DOMAIN g /\ Along(g, set \cup behind) /\ i \in set \cup behind
      <4> HIDE DEF behind
      <4>1. ASSUME NEW k \in set \cup behind PROVE g[k].into \in set \cup behind \cup {Canonical}
        BY <2>2, <3>1, <4>1 DEF Along
      <4>2. behind \subseteq DOMAIN f /\ i \in behind
        BY DEF behind
      <4> QED BY <4>1, <4>2 DEF Along
    <3>3. x \in set \cup behind
      BY <1>4, <3>2 DEF LeadsTo
    <3>4. ASSUME x \in behind PROVE x = e
      <4>1. x \in Visible(f)
        <5> SUFFICES ASSUME x # e PROVE x \in Visible(f)
          BY <1>1 DEF Visible
        <5> QED BY <2>1, <3>1, <3>4 DEF Visible
      <4> QED BY <3>4, <4>1, LeadsToItself
    <3> QED BY <2>2, <3>3, <3>4
  <2> QED BY <2>1, <2>2 DEF LeadsTo
<1> QED BY <1>3, <1>4

\* Sound tables with nothing in common but what the second is merged into.
LEMMA SoundTogether ==
    ASSUME NEW f, NEW a, NEW g, Sound(f), DOMAIN a \subseteq Items, NoCircle(a),
           \A i \in DOMAIN a : a[i].into \in DOMAIN f \cup DOMAIN a \cup {Canonical},
           DOMAIN g = DOMAIN f \cup DOMAIN a, DOMAIN f \cap DOMAIN a = {},
           \A i \in DOMAIN f : g[i].into = f[i].into,
           \A i \in DOMAIN a : g[i].into = a[i].into
    PROVE  Sound(g)
<1>1. DOMAIN g \subseteq Items /\ Whole(g)
  BY DEF Sound, Whole
<1>2. ASSUME NEW set \in SUBSET DOMAIN g, set # {} PROVE \E k \in set : g[k].into \notin set
  <2>1. CASE set \cap DOMAIN f # {}
    <3>1. PICK k \in set \cap DOMAIN f : f[k].into \notin set \cap DOMAIN f
      BY <2>1 DEF Sound, NoCircle
    <3>2. f[k].into \in DOMAIN f \cup {Canonical} /\ Canonical \notin set
      BY <1>1, SignalsAssumption DEF Sound, Whole
    <3> QED BY <3>1, <3>2
  <2>2. CASE set \cap DOMAIN f = {}
    <3>1. set \in SUBSET DOMAIN a
      BY <2>2
    <3>2. PICK k \in set : a[k].into \notin set
      BY <1>2, <3>1 DEF NoCircle
    <3> QED BY <3>1, <3>2
  <2> QED BY <2>1, <2>2
<1> QED BY <1>1, <1>2 DEF Sound, NoCircle

\* Shown events merged into events that stay shown.
LEMMA SoundMerged ==
    ASSUME NEW f, NEW g, Sound(f), DOMAIN g = DOMAIN f, NEW dups,
           \A i \in DOMAIN f \ dups : g[i].into = f[i].into,
           \A i \in DOMAIN f \cap dups : g[i].into \in Visible(f) \ dups
    PROVE  Sound(g)
<1>1. DOMAIN g \subseteq Items /\ Whole(g)
  BY DEF Sound, Whole, Visible
<1>2. ASSUME NEW set \in SUBSET DOMAIN g, set # {} PROVE \E k \in set : g[k].into \notin set
  <2> SUFFICES ASSUME \A k \in set : g[k].into \in set PROVE FALSE
    OBVIOUS
  <2>1. Canonical \notin set
    BY <1>1, SignalsAssumption
  <2>2. ASSUME NEW k \in set, k \in dups PROVE FALSE
    <3>1. g[k].into \in set /\ g[k].into \in Visible(f) \ dups
      BY <2>2
    <3>2. g[g[k].into].into = Canonical
      BY <3>1 DEF Visible
    <3> QED BY <2>1, <3>1, <3>2
  <2>3. PICK k \in set : f[k].into \notin set
    BY <1>2 DEF Sound, NoCircle
  <2> QED BY <2>2, <2>3
<1> QED BY <1>1, <1>2 DEF Sound, NoCircle

\* One more event, merged into none or into one that was there.
LEMMA NoCircleAdded ==
    ASSUME NEW a, NoCircle(a), NEW i, i \notin DOMAIN a, \A k \in DOMAIN a : a[k].into # i,
           NEW r, r.into # i
    PROVE  NoCircle(Put(a, i, r))
<1> DEFINE b == Put(a, i, r)
<1>1. DOMAIN b = DOMAIN a \cup {i} /\ b[i] = r /\ \A k \in DOMAIN a : b[k] = a[k]
  BY DEF Put
<1> HIDE DEF b
<1>2. ASSUME NEW set \in SUBSET DOMAIN b, set # {} PROVE \E k \in set : b[k].into \notin set
  <2>1. CASE set \cap DOMAIN a = {}
    BY <1>1, <1>2, <2>1
  <2>2. CASE set \cap DOMAIN a # {}
    <3>1. PICK k \in set \cap DOMAIN a : a[k].into \notin set \cap DOMAIN a
      BY <2>2 DEF NoCircle
    <3> QED BY <1>1, <3>1
  <2> QED BY <2>1, <2>2
<1> QED BY <1>2 DEF NoCircle, b
-----------------------------------------------------------------------------
(* What the merge script plans. *)

\* Of some numbers one is the least: the one with the fewest below it.
LEMMA HasLeast == ASSUME NEW S, S \subseteq Nat, S # {} PROVE \E x \in S : \A y \in S : x <= y
<1> DEFINE below == {0 .. x : x \in S}
<1>1. below \subseteq FiniteSubsetsOf(Nat) /\ below # {}
  <2>1. \A x \in S : 0 .. x \in SUBSET Nat /\ IsFiniteSet(0 .. x)
    BY FS_Interval
  <2>2. \E x \in S : 0 .. x \in below
    OBVIOUS
  <2> QED BY <2>1, <2>2 DEF FiniteSubsetsOf
<1>2. PICK m \in below : \A a \in below : ~ (<<a, m>> \in StrictSubsetOrdering(Nat))
  <2> HIDE DEF below
  <2> QED BY <1>1, FS_StrictSubsetOrderingWellFounded, WFMin
<1>3. PICK x \in S : m = 0 .. x
  OBVIOUS
<1>4. ASSUME NEW y \in S PROVE x <= y
  <2> SUFFICES ASSUME y < x PROVE FALSE
    OBVIOUS
  <2>1. (0 .. y) \subseteq m /\ (0 .. y) # m /\ 0 .. y \in below
    BY <1>3
  <2>2. <<0 .. y, m>> \in StrictSubsetOrdering(Nat)
    BY <1>3, <2>1 DEF StrictSubsetOrdering
  <2> QED BY <1>2, <2>1, <2>2
<1> QED BY <1>4

\* Canonicals is well defined: were there a first event up to which it is not, it
\* would be so up to the one before it, and that one more is or is not canonical.
LEMMA CanonicalsAre ==
    ASSUME NEW order, NEW n \in Nat, DOMAIN order = 1 .. n
    PROVE  /\ Canonicals(order) \in SUBSET DOMAIN order
           /\ \A m \in DOMAIN order : m \in Canonicals(order) <=>
                  \A k \in Canonicals(order) : k < m => ~Matches(order[m], order[k])
<1> DEFINE UpTo(top, set) ==
        /\ set \in SUBSET (1 .. top)
        /\ \A m \in 1 .. top : m \in set <=> \A k \in set : k < m => ~Matches(order[m], order[k])
           bad == {top \in Nat : ~ \E set : UpTo(top, set)}
<1>1. bad = {}
  <2> SUFFICES ASSUME bad # {} PROVE FALSE
    OBVIOUS
  <2>1. PICK top \in bad : \A y \in bad : top <= y
    <3>1. bad \subseteq Nat
      OBVIOUS
    <3> HIDE DEF bad
    <3> QED BY <3>1, HasLeast
  <2>2. UpTo(0, {})
    OBVIOUS
  <2>3. top # 0 /\ top \in Nat
    BY <2>2
  <2>4. PICK set : UpTo(top - 1, set)
    <3>1. top - 1 \in Nat /\ ~ (top <= top - 1)
      BY <2>3
    <3>2. top - 1 \notin bad
      <4> HIDE DEF bad
      <4> QED BY <2>1, <3>1
    <3> HIDE DEF UpTo
    <3> QED BY <3>1, <3>2
  <2>5. CASE \E k \in set : Matches(order[top], order[k])
    <3>1. UpTo(top, set)
      <4>1. set \in SUBSET (1 .. top)
        BY <2>3, <2>4
      <4>2. ASSUME NEW m \in 1 .. top
            PROVE  m \in set <=> \A k \in set : k < m => ~Matches(order[m], order[k])
        <5>1. CASE m \in 1 .. top - 1
          BY <2>4, <5>1
        <5>2. CASE m = top
          <6>1. m \notin set /\ \A k \in set : k < m
            BY <2>3, <2>4, <5>2
          <6> QED BY <2>5, <5>2, <6>1
        <5> QED BY <2>3, <5>1, <5>2
      <4> QED BY <4>1, <4>2
    <3> HIDE DEF UpTo
    <3> QED BY <2>1, <3>1
  <2>6. CASE ~ \E k \in set : Matches(order[top], order[k])
    <3> DEFINE more == set \cup {top}
    <3>1. UpTo(top, more)
      <4>1. more \in SUBSET (1 .. top)
        BY <2>3, <2>4
      <4>2. ASSUME NEW m \in 1 .. top
            PROVE  m \in more <=> \A k \in more : k < m => ~Matches(order[m], order[k])
        <5>1. CASE m \in 1 .. top - 1
          <6>1. ~ (top < m) /\ m # top
            BY <2>3, <5>1
          <6> QED BY <2>4, <5>1, <6>1
        <5>2. CASE m = top
          BY <2>3, <2>6, <5>2
        <5> QED BY <2>3, <5>1, <5>2
      <4> HIDE DEF more
      <4> QED BY <4>1, <4>2
    <3> HIDE DEF UpTo, more
    <3> QED BY <2>1, <3>1
  <2> QED BY <2>5, <2>6
<1>2. PICK set : UpTo(n, set)
  BY <1>1
<1>3. \E s \in SUBSET DOMAIN order : \A m \in DOMAIN order :
          m \in s <=> \A k \in s : k < m => ~Matches(order[m], order[k])
  BY <1>2
<1> QED BY <1>3 DEF Canonicals

LEMMA PlanIs ==
    ASSUME NEW table, IsFiniteSet(DOMAIN table), NEW order \in Orders(table),
           NEW p \in PlanMerges(order)
    PROVE  \E m \in DOMAIN order \ Canonicals(order), k \in Canonicals(order) :
               p = <<order[m], order[k]>> /\ k \in DOMAIN order
<1> DEFINE n == Cardinality(DOMAIN table)
           match(m) == {k \in Canonicals(order) : Matches(order[m], order[k])}
           first(m) == CHOOSE k \in match(m) : \A l \in match(m) : k =< l
<1>1. n \in Nat /\ DOMAIN order = 1 .. n
  BY FS_CardinalityType DEF Orders, SetToSeqs
<1>2. PICK m \in DOMAIN order \ Canonicals(order) : p = <<order[m], order[first(m)]>>
  BY DEF PlanMerges
<1>3. /\ Canonicals(order) \in SUBSET DOMAIN order
      /\ \E k \in Canonicals(order) : Matches(order[m], order[k])
  BY <1>1, CanonicalsAre
<1>4. match(m) \subseteq Nat /\ match(m) # {}
  BY <1>1, <1>3
<1>5. \E k \in match(m) : \A l \in match(m) : k <= l
  <2> HIDE DEF match
  <2> QED BY <1>4, HasLeast
<1>6. first(m) \in match(m)
  <2> HIDE DEF match
  <2> QED BY <1>5
<1> QED BY <1>2, <1>3, <1>6

\* Whatever is planned is of events that were shown, and none of them is merged
\* both away and into.
LEMMA PlanIsClean ==
    ASSUME NEW table, IsFiniteSet(DOMAIN table), NEW order \in Orders(table)
    PROVE  /\ \A p \in PlanMerges(order) :
                  p = <<p[1], p[2]>> /\ p[1] \in DOMAIN table /\ p[2] \in DOMAIN table
           /\ \A p, q \in PlanMerges(order) : p[1] # q[2]
<1>1. /\ \A a \in DOMAIN order : order[a] \in DOMAIN table
      /\ \A a, b \in DOMAIN order : a # b => order[a] # order[b]
  BY DEF Orders, SetToSeqs
<1>2. ASSUME NEW p \in PlanMerges(order) PROVE p = <<p[1], p[2]>> /\ p[1] \in DOMAIN table /\ p[2] \in DOMAIN table
  <2>1. PICK m \in DOMAIN order \ Canonicals(order), k \in Canonicals(order) :
            p = <<order[m], order[k]>> /\ k \in DOMAIN order
    BY PlanIs
  <2>2. order[m] \in DOMAIN table /\ order[k] \in DOMAIN table
    BY <1>1, <2>1
  <2> QED BY <2>1, <2>2
<1>3. ASSUME NEW p \in PlanMerges(order), NEW q \in PlanMerges(order) PROVE p[1] # q[2]
  <2>1. PICK m \in DOMAIN order \ Canonicals(order) : p[1] = order[m]
    BY PlanIs
  <2>2. PICK k \in Canonicals(order) : q[2] = order[k] /\ k \in DOMAIN order
    BY PlanIs
  <2> QED BY <1>1, <2>1, <2>2
<1> QED BY <1>2, <1>3
-----------------------------------------------------------------------------
(* A run and what it has written. *)

Into(table, j, c) == j \in DOMAIN table /\ table[j].into = c
StoredRow(r) == r = [grade |-> r.grade, into |-> r.into]
Article(d) == d = [doc |-> d.doc, at |-> d.at]

\* New rows a and articles A that can join the stored f and D: every row has an
\* article of its document, every article a row that tells the same story.
Grounded(f, D, a, A) ==
    LET known == DOMAIN f \cup DOMAIN a IN
    /\ DOMAIN a \subseteq Items /\ IsFiniteSet(DOMAIN a)
    /\ \A i \in DOMAIN a : /\ StoredRow(a[i]) /\ a[i].into \in known \cup {Canonical}
                           /\ \E d \in D \cup A : d.doc = Doc[i]
    /\ NoCircle(a)
    /\ \A d \in A : /\ Article(d) /\ d.at \in known
                    /\ \E j \in known : Doc[j] = d.doc /\ (j = d.at \/ Into(f, j, d.at) \/ Into(a, j, d.at))

RunFields == {"pc", "kind", "todo", "taken", "llm", "added", "grades", "docs", "outs", "raw",
              "dirty", "due", "held", "clash", "dead", "judged", "beaten", "before"}

\* What the writes of a run leave alone.
Untouched(s, t) ==
    /\ t.kind = s.kind /\ t.todo = s.todo /\ t.taken = s.taken /\ t.held = s.held
    /\ t.dead = s.dead /\ t.judged = s.judged /\ t.beaten = s.beaten /\ t.before = s.before

LEMMA FlushingIs ==
    ASSUME NEW s, DOMAIN s = RunFields, NEW t, t = Flushing(s)
    PROVE  /\ DOMAIN t = RunFields /\ Untouched(s, t) /\ t.added = s.added /\ t.docs = s.docs
           /\ t.clash = s.clash /\ t.raw = {} /\ t.due = s.due \cup s.raw \cup s.dirty
  BY DEF Flushing, RunFields, Untouched

LEMMA GradedIs ==
    ASSUME NEW s, DOMAIN s = RunFields, NEW i, NEW g, NEW t, t = Graded(s, i, g)
    PROVE  /\ DOMAIN t = RunFields /\ Untouched(s, t) /\ t.added = s.added /\ t.docs = s.docs
           /\ t.clash = s.clash /\ t.raw = s.raw /\ t.due = s.due
  BY DEF Graded, RunFields, Untouched

LEMMA AddRowIs ==
    ASSUME NEW s, DOMAIN s = RunFields, NEW i, NEW r, NEW t, t = AddRow(s, i, r)
    PROVE  /\ DOMAIN t = RunFields /\ Untouched(s, t) /\ t.added = Put(s.added, i, r)
           /\ t.docs = s.docs /\ t.clash = (s.clash \/ i \in DOMAIN s.added)
           /\ t.raw = s.raw \cup {i} /\ t.due = s.due
  BY DEF AddRow, RunFields, Untouched

LEMMA PersistEvidenceIs ==
    ASSUME NEW s, DOMAIN s = RunFields, NEW i, NEW at, NEW t, t = PersistEvidence(s, i, at)
    PROVE  /\ DOMAIN t = RunFields /\ Untouched(s, t) /\ t.added = s.added
           /\ t.docs = s.docs \/ t.docs = s.docs \cup {[doc |-> Doc[i], at |-> at]}
           /\ \E d \in docs \cup t.docs : d.doc = Doc[i]
           /\ ~t.clash => ~s.clash
           /\ s.raw = {} => (t.clash <=> s.clash)
           /\ s.due \cup s.raw \subseteq t.due \cup t.raw /\ s.due \subseteq t.due
           /\ t.raw \subseteq s.raw \cup {Doc[i]}
<1>1. CASE Doc[i] \in DocsFound(s)
  BY <1>1 DEF PersistEvidence, DocsFound, Untouched
<1>2. CASE Doc[i] \notin DocsFound(s)
  <2> DEFINE u == IF Outlet[i] \in outlets \cup s.outs THEN s ELSE Flushing(s)
  <2>1. /\ DOMAIN u = RunFields /\ Untouched(s, u) /\ u.added = s.added /\ u.docs = s.docs
        /\ u.clash = s.clash /\ u.raw \subseteq s.raw
        /\ s.due \cup s.raw \subseteq u.due \cup u.raw /\ s.due \subseteq u.due
    <3>1. CASE Outlet[i] \in outlets \cup s.outs
      BY <3>1 DEF Untouched
    <3>2. CASE ~ (Outlet[i] \in outlets \cup s.outs)
      <4>1. u = Flushing(s)
        BY <3>2
      <4> HIDE DEF u
      <4>2. /\ DOMAIN u = RunFields /\ Untouched(s, u) /\ u.added = s.added /\ u.docs = s.docs
            /\ u.clash = s.clash /\ u.raw = {} /\ u.due = s.due \cup s.raw \cup s.dirty
        BY <4>1, FlushingIs
      <4> QED BY <4>2
    <3> QED BY <3>1, <3>2
  <2>2. t = [u EXCEPT !.docs = @ \cup {[doc |-> Doc[i], at |-> at]}, !.outs = @ \cup {Outlet[i]},
                      !.clash = @ \/ Doc[i] \in s.raw, !.raw = @ \cup {Doc[i]}]
    BY <1>2 DEF PersistEvidence
  <2> HIDE DEF u
  <2>3. /\ DOMAIN t = RunFields /\ Untouched(u, t) /\ t.added = u.added
        /\ t.docs = u.docs \cup {[doc |-> Doc[i], at |-> at]}
        /\ t.clash = (u.clash \/ Doc[i] \in s.raw) /\ t.due = u.due /\ t.raw = u.raw \cup {Doc[i]}
    BY <2>1, <2>2 DEF RunFields, Untouched
  <2>4. Untouched(s, t)
    BY <2>1, <2>3 DEF Untouched
  <2>5. [doc |-> Doc[i], at |-> at] \in t.docs /\ [doc |-> Doc[i], at |-> at].doc = Doc[i]
    BY <2>3
  <2>6. /\ ~t.clash => ~s.clash
        /\ s.raw = {} => (t.clash <=> s.clash)
    BY <2>1, <2>3
  <2>7. /\ s.due \cup s.raw \subseteq t.due \cup t.raw /\ s.due \subseteq t.due
        /\ t.raw \subseteq s.raw \cup {Doc[i]}
    BY <2>1, <2>3
  <2> QED BY <2>1, <2>3, <2>4, <2>5, <2>6, <2>7
<1> QED BY <1>1, <1>2

\* An article of a known item, at the event that has its story.
LEMMA ArticleAdded ==
    ASSUME NEW f, NEW D, NEW a, NEW A, Grounded(f, D, a, A), NEW i, NEW at,
           i \in DOMAIN f \cup DOMAIN a, at \in DOMAIN f \cup DOMAIN a,
           i = at \/ Into(f, i, at) \/ Into(a, i, at),
           NEW B, B = A \/ B = A \cup {[doc |-> Doc[i], at |-> at]}
    PROVE  Grounded(f, D, a, B)
<1> DEFINE new == [doc |-> Doc[i], at |-> at]
<1>1. new.doc = Doc[i] /\ new.at = at /\ Article(new)
  BY DEF Article
<1>2. A \subseteq B /\ B \subseteq A \cup {new}
  OBVIOUS
<1> HIDE DEF new
<1>3. ASSUME NEW d \in B
      PROVE  /\ Article(d) /\ d.at \in DOMAIN f \cup DOMAIN a
             /\ \E j \in DOMAIN f \cup DOMAIN a :
                    Doc[j] = d.doc /\ (j = d.at \/ Into(f, j, d.at) \/ Into(a, j, d.at))
  <2>1. CASE d \in A
    BY <2>1 DEF Grounded
  <2>2. CASE d = new
    BY <1>1, <2>2
  <2> QED BY <1>2, <2>1, <2>2
<1>4. ASSUME NEW k \in DOMAIN a
      PROVE  /\ StoredRow(a[k]) /\ a[k].into \in DOMAIN f \cup DOMAIN a \cup {Canonical}
             /\ \E d \in D \cup B : d.doc = Doc[k]
  BY <1>2 DEF Grounded
<1> QED BY <1>3, <1>4 DEF Grounded

\* A new row with its article.
LEMMA RowAdded ==
    ASSUME NEW f, NEW D, NEW a, NEW A, Grounded(f, D, a, A),
           NEW i \in Items, i \notin DOMAIN f \cup DOMAIN a, NEW r, StoredRow(r),
           r.into \in DOMAIN f \cup DOMAIN a \cup {Canonical},
           NEW at, at = IF r.into = Canonical THEN i ELSE r.into,
           NEW B, B = A \/ B = A \cup {[doc |-> Doc[i], at |-> at]},
           \E d \in D \cup B : d.doc = Doc[i]
    PROVE  Grounded(f, D, Put(a, i, r), B)
<1> DEFINE b == Put(a, i, r)
           new == [doc |-> Doc[i], at |-> at]
           known == DOMAIN f \cup DOMAIN b
<1>1. DOMAIN b = DOMAIN a \cup {i} /\ b[i] = r /\ \A k \in DOMAIN a : b[k] = a[k]
  BY DEF Put
<1>2. new.doc = Doc[i] /\ new.at = at /\ Article(new)
  BY DEF Article
<1>3. A \subseteq B /\ B \subseteq A \cup {new}
  OBVIOUS
<1>4. i # Canonical
  BY SignalsAssumption
<1>5. NoCircle(b)
  <2>1. NoCircle(a) /\ i \notin DOMAIN a /\ (\A k \in DOMAIN a : a[k].into # i) /\ r.into # i
    BY <1>4 DEF Grounded
  <2> QED BY <2>1, NoCircleAdded
<1> HIDE DEF b, new
<1>6. ASSUME NEW d \in B
      PROVE  /\ Article(d) /\ d.at \in known
             /\ \E j \in known : Doc[j] = d.doc /\ (j = d.at \/ Into(f, j, d.at) \/ Into(b, j, d.at))
  <2>1. CASE d \in A
    <3>1. PICK j \in DOMAIN f \cup DOMAIN a :
              Doc[j] = d.doc /\ (j = d.at \/ Into(f, j, d.at) \/ Into(a, j, d.at))
      BY <2>1 DEF Grounded
    <3>2. j \in known /\ (Into(a, j, d.at) => Into(b, j, d.at))
      BY <1>1, <3>1 DEF Into
    <3> QED BY <1>1, <2>1, <3>1, <3>2 DEF Grounded
  <2>2. CASE d = new
    <3>1. at \in known /\ i \in known /\ (i = at \/ Into(b, i, at))
      BY <1>1 DEF Into
    <3> QED BY <1>2, <2>2, <3>1
  <2> QED BY <1>3, <2>1, <2>2
<1>7. ASSUME NEW k \in DOMAIN b
      PROVE  /\ StoredRow(b[k]) /\ b[k].into \in known \cup {Canonical}
             /\ \E d \in D \cup B : d.doc = Doc[k]
  <2>1. CASE k = i
    BY <1>1, <2>1
  <2>2. CASE k \in DOMAIN a
    BY <1>1, <1>3, <2>2 DEF Grounded
  <2> QED BY <1>1, <2>1, <2>2
<1>8. DOMAIN b \subseteq Items /\ IsFiniteSet(DOMAIN b)
  BY <1>1, FS_AddElement DEF Grounded
<1> QED BY <1>5, <1>6, <1>7, <1>8 DEF Grounded, b

\* What is grounded stays so when others commit, and when the shown are merged.
LEMMA GroundedStays ==
    ASSUME NEW f, NEW D, NEW g, NEW E, NEW a, NEW A, Grounded(f, D, a, A),
           DOMAIN f \subseteq DOMAIN g, DOMAIN f \subseteq Items,
           \A k \in DOMAIN f : f[k].into = Canonical \/ g[k].into = f[k].into,
           \A d \in D : \E e \in E : e.doc = d.doc
    PROVE  Grounded(g, E, a, A)
<1> DEFINE known == DOMAIN g \cup DOMAIN a
<1>1. ASSUME NEW d \in A
      PROVE  /\ Article(d) /\ d.at \in known
             /\ \E j \in known : Doc[j] = d.doc /\ (j = d.at \/ Into(g, j, d.at) \/ Into(a, j, d.at))
  <2>1. PICK j \in DOMAIN f \cup DOMAIN a :
            Doc[j] = d.doc /\ (j = d.at \/ Into(f, j, d.at) \/ Into(a, j, d.at))
    BY DEF Grounded
  <2>2. d.at \in DOMAIN f \cup DOMAIN a /\ d.at # Canonical /\ Article(d)
    BY SignalsAssumption DEF Grounded
  <2>3. Into(f, j, d.at) => Into(g, j, d.at)
    BY <2>2 DEF Into
  <2> QED BY <2>1, <2>2, <2>3
<1>2. ASSUME NEW k \in DOMAIN a
      PROVE  /\ StoredRow(a[k]) /\ a[k].into \in known \cup {Canonical}
             /\ \E d \in E \cup A : d.doc = Doc[k]
  BY DEF Grounded
<1> QED BY <1>1, <1>2 DEF Grounded

LEMMA MineInto ==
    ASSUME NEW s, NEW i \in DOMAIN rows \cup DOMAIN s.added,
           \A k \in DOMAIN rows : StoredRow(rows[k]), \A k \in DOMAIN s.added : StoredRow(s.added[k])
    PROVE  Mine(s)[i].into = IF i \in DOMAIN s.added THEN s.added[i].into ELSE rows[i].into
<1> DEFINE r == IF i \in DOMAIN s.added THEN s.added[i] ELSE rows[i]
<1>1. StoredRow(r)
  OBVIOUS
<1>2. Mine(s)[i] = IF i \in DOMAIN s.grades THEN [r EXCEPT !.grade = s.grades[i]] ELSE r
  BY DEF Mine
<1> HIDE DEF r
<1>3. [r EXCEPT !.grade = s.grades[i]].into = r.into
  BY <1>1 DEF StoredRow
<1>4. Mine(s)[i].into = r.into
  BY <1>2, <1>3
<1> QED BY <1>4 DEF r

\* What taking item i may do to run s.
Takes(s, t, i) ==
    /\ DOMAIN t = RunFields /\ Untouched(s, t)
    /\ DOMAIN s.added \subseteq DOMAIN t.added /\ DOMAIN t.added \subseteq DOMAIN s.added \cup {i}
    /\ i \in DOMAIN rows \cup DOMAIN t.added
    /\ s.raw = {} => (t.clash <=> s.clash)
    /\ s.due \cup s.raw \subseteq t.due \cup t.raw
    /\ DOMAIN t.added \ DOMAIN s.added \subseteq (t.due \cup t.raw) \ DOMAIN rows
    /\ t.raw \cap Items \subseteq DOMAIN t.added
    /\ ~t.clash => ~s.clash /\ Grounded(rows, docs, t.added, t.docs)

LEMMA UpsertIs ==
    ASSUME NEW s, DOMAIN s = RunFields, NEW i \in Items, NEW g, NEW t \in Upsert(s, i, g),
           Sound(rows), \A k \in DOMAIN rows : StoredRow(rows[k]),
           s.raw \cap Items \subseteq DOMAIN s.added,
           ~s.clash => Grounded(rows, docs, s.added, s.docs)
    PROVE  Takes(s, t, i)
<1> USE SignalsAssumption
<1>1. ASSUME NEW c, NEW u, u = Corroborate(s, c, g) \/ u = Graded(s, i, g)
      PROVE  /\ DOMAIN u = RunFields /\ Untouched(s, u) /\ u.added = s.added /\ u.docs = s.docs
             /\ u.clash = s.clash /\ u.raw = s.raw /\ u.due = s.due
  BY <1>1, GradedIs DEF Corroborate
<1>2. ASSUME ~s.clash, NEW k \in Found(s)
      PROVE  Mine(s)[k].into = IF k \in DOMAIN s.added THEN s.added[k].into ELSE rows[k].into
  <2>1. \A l \in DOMAIN s.added : StoredRow(s.added[l])
    BY <1>2 DEF Grounded
  <2>2. k \in DOMAIN rows \cup DOMAIN s.added
    BY DEF Found
  <2> QED BY <2>1, <2>2, MineInto
<1>3. CASE i \in Found(s)
  <2> DEFINE c == Mine(s)[i].into
  <2>1. PICK u, at : /\ t = PersistEvidence(u, i, at)
                     /\ DOMAIN u = RunFields /\ Untouched(s, u) /\ u.added = s.added
                     /\ u.docs = s.docs /\ u.clash = s.clash /\ u.raw = s.raw /\ u.due = s.due
                     /\ at = IF c = Canonical THEN i ELSE c
    <3>1. CASE c = Canonical
      <4>1. t = PersistEvidence(Graded(s, i, g), i, i)
        BY <1>3, <3>1 DEF Upsert
      <4> QED BY <1>1, <3>1, <4>1
    <3>2. CASE c # Canonical
      <4>1. t = PersistEvidence(Corroborate(s, c, g), i, c)
        BY <1>3, <3>2 DEF Upsert
      <4> HIDE DEF c
      <4> QED BY <1>1, <3>2, <4>1
    <3> QED BY <3>1, <3>2
  <2> HIDE DEF c
  <2>2. /\ DOMAIN t = RunFields /\ Untouched(u, t) /\ t.added = u.added
        /\ t.docs = u.docs \/ t.docs = u.docs \cup {[doc |-> Doc[i], at |-> at]}
        /\ ~t.clash => ~u.clash
        /\ u.raw = {} => (t.clash <=> u.clash)
        /\ u.due \cup u.raw \subseteq t.due \cup t.raw
        /\ t.raw \subseteq u.raw \cup {Doc[i]}
    BY <2>1, PersistEvidenceIs
  <2>3. Untouched(s, t)
    BY <2>1, <2>2 DEF Untouched
  <2>4. i \in DOMAIN rows \cup DOMAIN s.added
    BY <1>3 DEF Found
  <2>5. ASSUME ~t.clash PROVE ~s.clash /\ Grounded(rows, docs, t.added, t.docs)
    <3>1. ~s.clash /\ Grounded(rows, docs, s.added, s.docs)
      BY <2>1, <2>2, <2>5
    <3>2. c = IF i \in DOMAIN s.added THEN s.added[i].into ELSE rows[i].into
      BY <1>2, <1>3, <3>1 DEF c
    <3>3. c \in DOMAIN rows \cup DOMAIN s.added \cup {Canonical}
      BY <2>4, <3>1, <3>2 DEF Grounded, Sound, Whole
    <3>4. i = at \/ Into(rows, i, at) \/ Into(s.added, i, at)
      BY <2>1, <2>4, <3>2 DEF Into
    <3>5. at \in DOMAIN rows \cup DOMAIN s.added
      BY <2>1, <2>4, <3>3
    <3>6. t.docs = s.docs \/ t.docs = s.docs \cup {[doc |-> Doc[i], at |-> at]}
      BY <2>1, <2>2
    <3>7. Grounded(rows, docs, s.added, t.docs)
      BY <2>4, <3>1, <3>4, <3>5, <3>6, ArticleAdded
    <3> QED BY <2>1, <2>2, <3>1, <3>7
  <2>6. t.raw \cap Items \subseteq DOMAIN t.added
    BY <2>1, <2>2
  <2> QED BY <2>1, <2>2, <2>3, <2>4, <2>5, <2>6 DEF Takes
<1>4. CASE i \notin Found(s) /\ FindDuplicate(s, i) # {}
  <2>1. PICK c \in FindDuplicate(s, i) :
          t = AddRow(PersistEvidence(Corroborate(s, c, g), i, c), i, [grade |-> g, into |-> c])
    BY <1>4 DEF Upsert
  <2> DEFINE r == [grade |-> g, into |-> c]
             u == Corroborate(s, c, g)
             v == PersistEvidence(u, i, c)
  <2>2. r.into = c /\ StoredRow(r)
    BY DEF StoredRow
  <2>3. c \in Found(s)
    BY DEF FindDuplicate
  <2>4. /\ DOMAIN u = RunFields /\ Untouched(s, u) /\ u.added = s.added /\ u.docs = s.docs
        /\ u.clash = s.clash /\ u.raw = s.raw /\ u.due = s.due
    <3> HIDE DEF u
    <3> QED BY <1>1 DEF u
  <2>5. t = AddRow(v, i, r)
    BY <2>1
  <2> HIDE DEF u, v, r
  <2>6. v = PersistEvidence(u, i, c)
    BY DEF v
  <2>7. /\ DOMAIN v = RunFields /\ Untouched(u, v) /\ v.added = u.added
        /\ v.docs = u.docs \/ v.docs = u.docs \cup {[doc |-> Doc[i], at |-> c]}
        /\ \E d \in docs \cup v.docs : d.doc = Doc[i]
        /\ ~v.clash => ~u.clash
        /\ u.raw = {} => (v.clash <=> u.clash)
        /\ u.due \cup u.raw \subseteq v.due \cup v.raw
        /\ v.raw \subseteq u.raw \cup {Doc[i]}
    BY <2>4, <2>6, PersistEvidenceIs
  <2>8. /\ DOMAIN t = RunFields /\ Untouched(v, t) /\ t.added = Put(v.added, i, r)
        /\ t.docs = v.docs /\ t.clash = (v.clash \/ i \in DOMAIN v.added)
        /\ t.raw = v.raw \cup {i} /\ t.due = v.due
    BY <2>5, <2>7, AddRowIs
  <2>9. Untouched(s, t)
    BY <2>4, <2>7, <2>8 DEF Untouched
  <2>10. DOMAIN t.added = DOMAIN s.added \cup {i}
    BY <2>4, <2>7, <2>8 DEF Put
  <2>11. s.raw = {} => i \notin DOMAIN s.added
    BY <1>4 DEF Found
  <2>12. s.raw = {} => (t.clash <=> s.clash)
    BY <2>4, <2>7, <2>8, <2>11
  <2>13. ASSUME ~t.clash PROVE ~s.clash /\ Grounded(rows, docs, t.added, t.docs)
    <3>1. ~s.clash /\ i \notin DOMAIN s.added
      BY <2>4, <2>7, <2>8, <2>13
    <3>2. i \notin DOMAIN rows \cup DOMAIN s.added
      BY <1>4, <3>1 DEF Found
    <3>3. c \in DOMAIN rows \cup DOMAIN s.added
      BY <2>3 DEF Found
    <3>4. c # Canonical
      BY <3>1, <3>3 DEF Grounded, Sound
    <3>5. Grounded(rows, docs, Put(s.added, i, r), v.docs)
      <4>1. v.docs = s.docs \/ v.docs = s.docs \cup {[doc |-> Doc[i], at |-> c]}
        BY <2>4, <2>7
      <4>2. c = IF r.into = Canonical THEN i ELSE r.into
        BY <2>2, <3>4
      <4>3. r.into \in DOMAIN rows \cup DOMAIN s.added \cup {Canonical}
        BY <2>2, <3>3
      <4> QED BY <2>2, <2>7, <3>1, <3>2, <4>1, <4>2, <4>3, RowAdded
    <3> QED BY <2>4, <2>7, <2>8, <3>1, <3>5
  <2>14. t.raw \cap Items \subseteq DOMAIN t.added
    BY <2>4, <2>7, <2>8, <2>10
  <2>15. i \notin DOMAIN s.added => i \notin DOMAIN rows
    BY <1>4 DEF Found
  <2> QED BY <2>4, <2>7, <2>8, <2>9, <2>10, <2>12, <2>13, <2>14, <2>15 DEF Takes
<1>5. CASE i \notin Found(s) /\ FindDuplicate(s, i) = {}
  <2> DEFINE r == [grade |-> g, into |-> Canonical]
             u == AddRow(s, i, r)
             v == Flushing(u)
  <2>1. t = PersistEvidence(v, i, i)
    BY <1>5 DEF Upsert
  <2>2. r.into = Canonical /\ StoredRow(r)
    BY DEF StoredRow
  <2> HIDE DEF u, v, r
  <2>3. /\ DOMAIN u = RunFields /\ Untouched(s, u) /\ u.added = Put(s.added, i, r)
        /\ u.docs = s.docs /\ u.clash = (s.clash \/ i \in DOMAIN s.added)
        /\ u.raw = s.raw \cup {i} /\ u.due = s.due
    BY AddRowIs DEF u
  <2>4. /\ DOMAIN v = RunFields /\ Untouched(u, v) /\ v.added = u.added /\ v.docs = u.docs
        /\ v.clash = u.clash /\ v.raw = {} /\ v.due = u.due \cup u.raw \cup u.dirty
    BY <2>3, FlushingIs DEF v
  <2>5. /\ DOMAIN t = RunFields /\ Untouched(v, t) /\ t.added = v.added
        /\ t.docs = v.docs \/ t.docs = v.docs \cup {[doc |-> Doc[i], at |-> i]}
        /\ \E d \in docs \cup t.docs : d.doc = Doc[i]
        /\ ~t.clash => ~v.clash
        /\ t.clash <=> v.clash
        /\ v.due \cup v.raw \subseteq t.due \cup t.raw
        /\ t.raw \subseteq v.raw \cup {Doc[i]}
    BY <2>1, <2>4, PersistEvidenceIs
  <2>6. Untouched(s, t)
    BY <2>3, <2>4, <2>5 DEF Untouched
  <2>7. DOMAIN t.added = DOMAIN s.added \cup {i}
    BY <2>3, <2>4, <2>5 DEF Put
  <2>8. s.raw = {} => (t.clash <=> s.clash)
    BY <1>5, <2>3, <2>4, <2>5 DEF Found
  <2>9. ASSUME ~t.clash PROVE ~s.clash /\ Grounded(rows, docs, t.added, t.docs)
    <3>1. ~s.clash /\ i \notin DOMAIN s.added
      BY <2>3, <2>4, <2>5, <2>9
    <3>2. i \notin DOMAIN rows \cup DOMAIN s.added
      BY <1>5, <3>1 DEF Found
    <3>3. Grounded(rows, docs, Put(s.added, i, r), t.docs)
      <4>1. t.docs = s.docs \/ t.docs = s.docs \cup {[doc |-> Doc[i], at |-> i]}
        BY <2>3, <2>4, <2>5
      <4> QED BY <2>2, <2>5, <3>1, <3>2, <4>1, RowAdded
    <3> QED BY <2>3, <2>4, <2>5, <3>1, <3>3
  <2>10. /\ t.raw \cap Items \subseteq DOMAIN t.added
         /\ DOMAIN t.added \ DOMAIN s.added \subseteq (t.due \cup t.raw) \ DOMAIN rows
    <3>1. i \notin DOMAIN s.added => i \notin DOMAIN rows
      BY <1>5 DEF Found
    <3> QED BY <2>3, <2>4, <2>5, <2>7, <3>1
  <2>11. s.due \cup s.raw \subseteq t.due \cup t.raw
    BY <2>3, <2>4, <2>5
  <2> QED BY <2>5, <2>6, <2>7, <2>8, <2>9, <2>10, <2>11 DEF Takes
<1> QED BY <1>3, <1>4, <1>5

LEMMA UpsertedIs ==
    ASSUME NEW s, DOMAIN s = RunFields, NEW i \in Items, NEW g, NEW t \in Upserted(s, i, g),
           Sound(rows), \A k \in DOMAIN rows : StoredRow(rows[k]),
           s.raw \cap Items \subseteq DOMAIN s.added,
           ~s.clash => Grounded(rows, docs, s.added, s.docs)
    PROVE  /\ Takes(s, t, i) /\ t.pc = IF t.due = {} THEN "items" ELSE "flush"
           /\ s.kind = "hazard" => t.raw = {}
<1> DEFINE Flushed(u) == IF s.kind = "hazard" THEN Flushing(u) ELSE u
<1>0. PICK u \in Upsert(s, i, g) :
          t = [Flushed(u) EXCEPT !.pc = IF Flushed(u).due = {} THEN "items" ELSE "flush"]
  BY DEF Upserted
<1> DEFINE v == Flushed(u)
<1>1. /\ u \in Upsert(s, i, g)
      /\ v = IF s.kind = "hazard" THEN Flushing(u) ELSE u
      /\ t = [v EXCEPT !.pc = IF v.due = {} THEN "items" ELSE "flush"]
  BY <1>0
<1> HIDE DEF v, Flushed
<1>2. Takes(s, u, i)
  BY UpsertIs
<1>3. /\ DOMAIN v = RunFields /\ Untouched(u, v) /\ v.added = u.added /\ v.docs = u.docs
      /\ v.clash = u.clash /\ v.raw \subseteq u.raw
      /\ u.due \cup u.raw \subseteq v.due \cup v.raw
      /\ s.kind = "hazard" => v.raw = {}
  <2>1. CASE s.kind = "hazard"
    <3>1. v = Flushing(u) /\ DOMAIN u = RunFields
      BY <1>1, <1>2, <2>1 DEF Takes
    <3>2. /\ DOMAIN v = RunFields /\ Untouched(u, v) /\ v.added = u.added /\ v.docs = u.docs
          /\ v.clash = u.clash /\ v.raw = {} /\ v.due = u.due \cup u.raw \cup u.dirty
      BY <3>1, FlushingIs
    <3> QED BY <3>2
  <2>2. CASE s.kind # "hazard"
    <3>1. v = u
      BY <1>1, <2>2
    <3> QED BY <1>2, <2>2, <3>1 DEF Takes, Untouched
  <2> QED BY <2>1, <2>2
<1>4. /\ DOMAIN t = RunFields /\ Untouched(v, t) /\ t.added = v.added /\ t.docs = v.docs
      /\ t.clash = v.clash /\ t.raw = v.raw /\ t.due = v.due
      /\ t.pc = IF v.due = {} THEN "items" ELSE "flush"
  BY <1>1, <1>3 DEF RunFields, Untouched
<1>5. Untouched(s, t)
  BY <1>2, <1>3, <1>4 DEF Takes, Untouched
<1>6. /\ DOMAIN s.added \subseteq DOMAIN t.added /\ DOMAIN t.added \subseteq DOMAIN s.added \cup {i}
      /\ i \in DOMAIN rows \cup DOMAIN t.added
      /\ s.raw = {} => (t.clash <=> s.clash)
      /\ ~t.clash => ~s.clash /\ Grounded(rows, docs, t.added, t.docs)
  BY <1>2, <1>3, <1>4 DEF Takes
<1>7. /\ s.due \cup s.raw \subseteq t.due \cup t.raw
      /\ DOMAIN t.added \ DOMAIN s.added \subseteq (t.due \cup t.raw) \ DOMAIN rows
      /\ t.raw \cap Items \subseteq DOMAIN t.added
  BY <1>2, <1>3, <1>4 DEF Takes
<1> QED BY <1>3, <1>4, <1>5, <1>6, <1>7 DEF Takes
-----------------------------------------------------------------------------
(* The invariant.  Every run: what it has written can join the store; a    *)
(* row of its own is unflushed, due or locked, and nobody else stores one  *)
(* that it has locked; a hazard item is stored, written or beaten.         *)

Fits(s, f, D) ==
    /\ DOMAIN s = RunFields /\ s.kind \in {"hazard", "osint"} /\ s.todo \in Seq(Items)
    /\ ~s.clash => Grounded(f, D, s.added, s.docs)
    /\ Grounded(f, D, s.before.added, s.before.docs)
    /\ ~s.dead => DOMAIN s.added \subseteq s.raw \cup s.due \cup s.held
    /\ s.held \cap DOMAIN s.added \cap DOMAIN f = {}
    /\ s.raw \cap Items \subseteq DOMAIN s.added
    /\ s.pc = "items" => s.due = {}
    /\ s.pc = "commit" => s.raw = {}
    /\ s.pc = "log" => ~s.dead /\ s.added = <<>>
    /\ ~s.dead => \A j \in s.judged : j.kept => j.item \in DOMAIN f \cup DOMAIN s.added
    /\ s.kind = "hazard" =>
         /\ ~s.dead /\ ~s.clash /\ s.raw = {} /\ (s.pc # "log" => s.judged = {})
         /\ s.taken \subseteq DOMAIN f \cup DOMAIN s.added \cup s.beaten
         /\ s.pc = "flush" =>
              /\ DOMAIN s.before.added \subseteq s.held /\ DOMAIN s.before.added \subseteq DOMAIN s.added
              /\ DOMAIN s.added \ DOMAIN s.before.added \subseteq s.due
              /\ \A i, j \in DOMAIN s.added \ DOMAIN s.before.added : i = j

\* The store: the merges are sound, every event has an article of its document and
\* every article an event of its document with which it shares the shown one.
Stored ==
    /\ IsFiniteSet(DOMAIN rows) /\ Sound(rows) /\ \A i \in DOMAIN rows : StoredRow(rows[i])
    /\ \A i \in DOMAIN rows : \E d \in docs : d.doc = Doc[i]
    /\ \A d \in docs : /\ Article(d) /\ d.at \in DOMAIN rows
                       /\ \E j \in DOMAIN rows : Doc[j] = d.doc /\ Stands(d.at) = Stands(j)

Planned == merger.pc = "planned" =>
    /\ \A p \in merger.plan : p = <<p[1], p[2]>> /\ p[1] \in Visible(rows) /\ p[2] \in Visible(rows)
    /\ \A p, q \in merger.plan : p[1] # q[2]

RunsFit == DOMAIN ingest = Ingests /\ \A w \in Ingests : Fits(ingest[w], rows, docs)
HeldApart == \A v, w \in Ingests : v # w => ingest[v].held \cap ingest[w].held = {}

SignalsInv == Stored /\ KeptMeansStored /\ RunsFit /\ HeldApart /\ Planned

LEMMA Nothing ==
    ASSUME NEW f, NEW D PROVE DOMAIN <<>> = {} /\ Grounded(f, D, <<>>, {})
<1>1. DOMAIN <<>> = {}
  OBVIOUS
<1> QED BY <1>1, FS_EmptySet DEF Grounded, NoCircle

\* A run with nothing written.
LEMMA FreshFits ==
    ASSUME NEW s, NEW f, NEW D, DOMAIN s = RunFields, s.kind \in {"hazard", "osint"},
           s.todo \in Seq(Items), s.added = <<>>, s.docs = {}, s.before.added = <<>>,
           s.before.docs = {}, ~s.clash, ~s.dead, s.raw = {}, s.due = {}, s.held = {},
           s.taken = {}, s.pc \in {"idle", "items", "log"}, s.pc # "log" => s.judged = {},
           \A j \in s.judged : j.kept => j.item \in DOMAIN f
    PROVE  Fits(s, f, D)
<1>1. DOMAIN s.added = {} /\ Grounded(f, D, s.added, s.docs)
      /\ Grounded(f, D, s.before.added, s.before.docs)
  BY Nothing
<1> QED BY <1>1 DEF Fits

LEMMA NewRunIs ==
    /\ DOMAIN NewRun = RunFields /\ NewRun.kind = "hazard" /\ NewRun.todo = <<>>
    /\ NewRun.added = <<>> /\ NewRun.docs = {} /\ NewRun.before.added = <<>>
    /\ NewRun.before.docs = {} /\ NewRun.clash = FALSE /\ NewRun.dead = FALSE
    /\ NewRun.raw = {} /\ NewRun.due = {} /\ NewRun.held = {} /\ NewRun.taken = {}
    /\ NewRun.pc = "idle" /\ NewRun.judged = {}
  BY DEF NewRun, RunFields

LEMMA NewRunFits == ASSUME NEW f, NEW D PROVE Fits(NewRun, f, D)
<1>1. <<>> \in Seq(Items)
  OBVIOUS
<1>2. /\ NewRun.kind \in {"hazard", "osint"} /\ NewRun.pc \in {"idle", "items", "log"}
      /\ NewRun.todo \in Seq(Items) /\ ~NewRun.clash /\ ~NewRun.dead
      /\ \A j \in NewRun.judged : j.kept => j.item \in DOMAIN f
  BY <1>1, NewRunIs
<1> QED BY <1>2, NewRunIs, FreshFits

\* Others commit or are merged, and nothing that the run has locked is stored.
LEMMA FitsStays ==
    ASSUME NEW s, NEW f, NEW D, NEW g, NEW E, Fits(s, f, D),
           DOMAIN f \subseteq DOMAIN g, DOMAIN f \subseteq Items,
           \A k \in DOMAIN f : f[k].into = Canonical \/ g[k].into = f[k].into,
           \A d \in D : \E e \in E : e.doc = d.doc,
           s.held \cap DOMAIN s.added \cap DOMAIN g = {}
    PROVE  Fits(s, g, E)
<1>1. ASSUME NEW a, NEW A, Grounded(f, D, a, A) PROVE Grounded(g, E, a, A)
  BY <1>1, GroundedStays
<1>2. Grounded(g, E, s.before.added, s.before.docs) /\ (~s.clash => Grounded(g, E, s.added, s.docs))
  BY <1>1 DEF Fits
<1> QED BY <1>2 DEF Fits

\* A step of one run that writes nothing to the store.
LEMMA OwnStep ==
    ASSUME SignalsInv, NEW w \in Ingests, NEW t, ingest' = [ingest EXCEPT ![w] = t],
           Fits(t, rows, docs), \A v \in Ingests \ {w} : ingest[v].held \cap t.held = {},
           rows' = rows, docs' = docs, merger' = merger,
           \A j \in judged' : j.kept => j.item \in DOMAIN rows
    PROVE  SignalsInv'
<1>1. Stored' /\ Planned'
  BY DEF SignalsInv, Stored, Stands, Planned
<1>2. KeptMeansStored'
  BY DEF KeptMeansStored
<1>3. ingest'[w] = t /\ \A v \in Ingests \ {w} : ingest'[v] = ingest[v]
  BY DEF SignalsInv, RunsFit
<1>4. RunsFit'
  <2>1. DOMAIN ingest' = Ingests
    BY DEF SignalsInv, RunsFit
  <2>2. ASSUME NEW v \in Ingests PROVE Fits(ingest'[v], rows', docs')
    <3>1. Fits(ingest[v], rows, docs)
      BY DEF SignalsInv, RunsFit
    <3> QED BY <1>3, <3>1
  <2> QED BY <2>1, <2>2 DEF RunsFit
<1>5. HeldApart'
  BY <1>3 DEF SignalsInv, HeldApart
<1> QED BY <1>1, <1>2, <1>4, <1>5 DEF SignalsInv
-----------------------------------------------------------------------------
(* The steps of a run. *)

LEMMA RunOf ==
    ASSUME SignalsInv, NEW w \in Ingests
    PROVE  /\ Fits(ingest[w], rows, docs) /\ DOMAIN ingest[w] = RunFields
           /\ Sound(rows) /\ \A k \in DOMAIN rows : StoredRow(rows[k])
           /\ \A v \in Ingests \ {w} : ingest[v].held \cap ingest[w].held = {}
           /\ \A j \in judged : j.kept => j.item \in DOMAIN rows
  BY DEF SignalsInv, RunsFit, Fits, Stored, HeldApart, KeptMeansStored

\* A run that ends or gives way.
LEMMA EndOfRun ==
    ASSUME SignalsInv, NEW w \in Ingests, ingest' = [ingest EXCEPT ![w] = NewRun],
           rows' = rows, docs' = docs, merger' = merger,
           \A j \in judged' : j.kept => j.item \in DOMAIN rows
    PROVE  SignalsInv'
<1>1. Fits(NewRun, rows, docs) /\ NewRun.held = {}
  BY NewRunFits, NewRunIs
<1>2. \A v \in Ingests \ {w} : ingest[v].held \cap NewRun.held = {}
  BY <1>1
<1> HIDE DEF NewRun
<1> QED BY <1>1, <1>2, OwnStep

LEMMA PollStep == ASSUME SignalsInv, NEW w \in Ingests, Poll(w) PROVE SignalsInv'
<1>1. PICK kind \in {"hazard", "osint"}, llm \in BOOLEAN : \E b \in HazardBatches \cup OsintBatches :
        ingest' = [ingest EXCEPT ![w] =
          [NewRun EXCEPT !.pc = "items", !.kind = kind, !.llm = llm, !.todo = b]]
  BY DEF Poll
<1>0. PICK b \in HazardBatches \cup OsintBatches :
        ingest' = [ingest EXCEPT ![w] =
          [NewRun EXCEPT !.pc = "items", !.kind = kind, !.llm = llm, !.todo = b]]
  BY <1>1
<1> DEFINE t == [NewRun EXCEPT !.pc = "items", !.kind = kind, !.llm = llm, !.todo = b]
<1>2. b \in Seq(Items)
  <2>1. \A S \in SUBSET Items : Seq(S) \subseteq Seq(Items)
    OBVIOUS
  <2>2. Items \ OsintItems \in SUBSET Items /\ OsintItems \in SUBSET Items
    BY SignalsAssumption
  <2>3. HazardBatches \subseteq Seq(Items) /\ OsintBatches \subseteq Seq(Items)
    BY <2>1, <2>2, SignalsAssumption
  <2> QED BY <2>3
<1>3. /\ DOMAIN t = RunFields /\ t.kind = kind /\ t.todo = b /\ t.pc = "items"
      /\ t.added = <<>> /\ t.docs = {} /\ t.before.added = <<>> /\ t.before.docs = {}
      /\ t.clash = FALSE /\ t.dead = FALSE /\ t.raw = {} /\ t.due = {} /\ t.held = {}
      /\ t.taken = {} /\ t.judged = {}
  <2> HIDE DEF NewRun
  <2> QED BY NewRunIs DEF RunFields
<1> HIDE DEF t
<1>4. Fits(t, rows, docs)
  BY <1>2, <1>3, FreshFits
<1>5. \A v \in Ingests \ {w} : ingest[v].held \cap t.held = {}
  BY <1>3
<1>6. rows' = rows /\ docs' = docs /\ merger' = merger /\ judged' = judged
  BY DEF Poll
<1>7. ingest' = [ingest EXCEPT ![w] = t]
  BY <1>0 DEF t
<1>8. \A j \in judged' : j.kept => j.item \in DOMAIN rows
  BY <1>6, RunOf
<1> QED BY <1>4, <1>5, <1>6, <1>7, <1>8, OwnStep

\* What is true of a run of which item i has been taken off the list.
LEMMA BegunIs ==
    ASSUME SignalsInv, NEW w \in Ingests, ingest[w].todo # <<>>
    PROVE  /\ Next1(w) \in Items /\ DOMAIN Begun(w) = RunFields
           /\ Begun(w).todo \in Seq(Items)
           /\ Begun(w).taken = ingest[w].taken \cup {Next1(w)}
           /\ Begun(w).pc = ingest[w].pc /\ Begun(w).kind = ingest[w].kind
           /\ Begun(w).added = ingest[w].added /\ Begun(w).docs = ingest[w].docs
           /\ Begun(w).before = ingest[w].before /\ Begun(w).clash = ingest[w].clash
           /\ Begun(w).dead = ingest[w].dead /\ Begun(w).raw = ingest[w].raw
           /\ Begun(w).due = ingest[w].due /\ Begun(w).held = ingest[w].held
           /\ Begun(w).judged = ingest[w].judged /\ Begun(w).beaten = ingest[w].beaten
<1>1. ingest[w].todo \in Seq(Items) /\ DOMAIN ingest[w] = RunFields
  BY RunOf DEF Fits
<1>2. Head(ingest[w].todo) \in Items /\ Tail(ingest[w].todo) \in Seq(Items)
  BY <1>1, HeadTailProperties
<1> QED BY <1>1, <1>2 DEF Begun, Next1, RunFields

LEMMA TakeSignalStep == ASSUME SignalsInv, NEW w \in Ingests, TakeSignal(w) PROVE SignalsInv'
<1> DEFINE s == ingest[w]
           i == Next1(w)
           b == Begun(w)
<1>1. /\ s.pc = "items" /\ s.kind = "hazard" /\ s.todo # <<>>
      /\ rows' = rows /\ docs' = docs /\ merger' = merger /\ judged' = judged
  BY DEF TakeSignal
<1>2. Fits(s, rows, docs) /\ i \in Items /\ DOMAIN b = RunFields
  BY <1>1, RunOf, BegunIs
<1>3. CASE i \in s.taken
  <2>1. ingest' = [ingest EXCEPT ![w] = b]
    BY <1>3 DEF TakeSignal
  <2>2. Fits(b, rows, docs)
    <3>1. b.taken = s.taken
      BY <1>1, <1>3, BegunIs
    <3> HIDE DEF b
    <3> QED BY <1>1, <1>2, <3>1, BegunIs DEF Fits, b
  <2>3. b.held = s.held
    BY <1>1, BegunIs
  <2>4. \A v \in Ingests \ {w} : ingest[v].held \cap b.held = {}
    BY <2>3, RunOf
  <2>5. \A j \in judged' : j.kept => j.item \in DOMAIN rows
    BY <1>1, RunOf
  <2> HIDE DEF b
  <2> QED BY <1>1, <2>1, <2>2, <2>4, <2>5, OwnStep
<1>4. CASE i \notin s.taken
  <2>0. PICK g \in Grades[i] : \E t \in Upserted(Saved(b), i, g) : ingest' = [ingest EXCEPT ![w] = t]
    BY <1>4 DEF TakeSignal
  <2>1. PICK t \in Upserted(Saved(b), i, g) : ingest' = [ingest EXCEPT ![w] = t]
    BY <2>0
  <2> DEFINE u == Saved(b)
  <2> HIDE DEF b
  <2>2. /\ DOMAIN u = RunFields /\ u.before.added = b.added /\ u.before.docs = b.docs
        /\ u.pc = b.pc /\ u.kind = b.kind /\ u.todo = b.todo /\ u.taken = b.taken
        /\ u.added = b.added /\ u.docs = b.docs /\ u.clash = b.clash /\ u.dead = b.dead
        /\ u.raw = b.raw /\ u.due = b.due /\ u.held = b.held /\ u.judged = b.judged
        /\ u.beaten = b.beaten
    BY <1>2 DEF Saved, RunFields
  <2> HIDE DEF u
  <2>3. /\ u.before.added = s.added /\ u.before.docs = s.docs /\ u.kind = s.kind
        /\ u.todo \in Seq(Items) /\ u.taken = s.taken \cup {i} /\ u.added = s.added
        /\ u.docs = s.docs /\ u.clash = s.clash /\ u.dead = s.dead /\ u.raw = s.raw
        /\ u.due = s.due /\ u.held = s.held /\ u.judged = s.judged /\ u.beaten = s.beaten
    BY <1>1, <2>2, BegunIs DEF b
  <2>4. /\ ~s.dead /\ ~s.clash /\ s.raw = {} /\ s.due = {} /\ s.judged = {}
        /\ DOMAIN s.added \subseteq s.held /\ Grounded(rows, docs, s.added, s.docs)
        /\ s.taken \subseteq DOMAIN rows \cup DOMAIN s.added \cup s.beaten
        /\ s.held \cap DOMAIN s.added \cap DOMAIN rows = {}
    BY <1>1, <1>2 DEF Fits
  <2>5. /\ Takes(u, t, i) /\ t.pc = IF t.due = {} THEN "items" ELSE "flush"
        /\ t.raw = {}
    <3> HIDE DEF s, i
    <3>1. u.raw \cap Items \subseteq DOMAIN u.added /\ (~u.clash => Grounded(rows, docs, u.added, u.docs))
      BY <2>3, <2>4
    <3>2. Sound(rows) /\ \A k \in DOMAIN rows : StoredRow(rows[k])
      BY RunOf
    <3>3. t \in Upserted(u, i, g)
      BY <2>1 DEF u
    <3>4. u.kind = "hazard"
      BY <1>1, <2>3
    <3> QED BY <1>2, <2>2, <3>1, <3>2, <3>3, <3>4, UpsertedIs
  <2>6. /\ DOMAIN t = RunFields /\ t.kind = "hazard" /\ t.todo \in Seq(Items)
        /\ t.taken = s.taken \cup {i} /\ t.held = s.held /\ ~t.dead /\ t.judged = {}
        /\ t.beaten = s.beaten /\ t.before.added = s.added /\ t.before.docs = s.docs
    BY <1>1, <2>3, <2>4, <2>5 DEF Takes, Untouched
  <2>7. /\ DOMAIN s.added \subseteq DOMAIN t.added /\ DOMAIN t.added \subseteq DOMAIN s.added \cup {i}
        /\ i \in DOMAIN rows \cup DOMAIN t.added /\ ~t.clash
        /\ DOMAIN t.added \ DOMAIN s.added \subseteq t.due \ DOMAIN rows
        /\ Grounded(rows, docs, t.added, t.docs)
    BY <2>3, <2>4, <2>5 DEF Takes
  <2>8. t.held \cap DOMAIN t.added \cap DOMAIN rows = {}
    BY <2>4, <2>6, <2>7
  <2>9. Fits(t, rows, docs)
    <3> HIDE DEF s, i
    <3> QED BY <2>4, <2>5, <2>6, <2>7, <2>8 DEF Fits
  <2>10. \A v \in Ingests \ {w} : ingest[v].held \cap t.held = {}
    BY <2>6, RunOf
  <2>11. \A j \in judged' : j.kept => j.item \in DOMAIN rows
    BY <1>1, RunOf
  <2> QED BY <1>1, <2>1, <2>9, <2>10, <2>11, OwnStep
<1> QED BY <1>3, <1>4

LEMMA TriageStep == ASSUME SignalsInv, NEW w \in Ingests, TriagePost(w) PROVE SignalsInv'
<1> DEFINE s == ingest[w]
           i == Next1(w)
           b == Begun(w)
<1>1. /\ s.pc = "items" /\ s.kind = "osint" /\ s.todo # <<>>
      /\ rows' = rows /\ docs' = docs /\ merger' = merger /\ judged' = judged
  BY DEF TriagePost
<1>2. PICK answer \in Answers(w), kept \in BOOLEAN : LET said == [item |-> i, kept |-> kept,
                      method |-> IF answer = "read" THEN "llm" ELSE "heuristic"]
                                          u == [b EXCEPT !.judged = @ \cup {said}]
         IN  IF ~kept \/ u.dead THEN ingest' = [ingest EXCEPT ![w] = u]
             ELSE \E g \in Grades[i] : \E t \in Upserted(u, i, g) : ingest' = [ingest EXCEPT ![w] = t]
  BY DEF TriagePost
<1> DEFINE said == [item |-> i, kept |-> kept, method |-> IF answer = "read" THEN "llm" ELSE "heuristic"]
           u == [b EXCEPT !.judged = @ \cup {said}]
<1>3. IF ~kept \/ u.dead THEN ingest' = [ingest EXCEPT ![w] = u]
      ELSE \E g \in Grades[i] : \E t \in Upserted(u, i, g) : ingest' = [ingest EXCEPT ![w] = t]
  BY <1>2
<1>4. Fits(s, rows, docs) /\ i \in Items /\ DOMAIN b = RunFields
  BY <1>1, RunOf, BegunIs
<1>5. said.item = i /\ said.kept = kept
  OBVIOUS
<1> HIDE DEF said, b
<1>6. /\ DOMAIN u = RunFields /\ u.judged = b.judged \cup {said}
      /\ u.pc = b.pc /\ u.kind = b.kind /\ u.todo = b.todo
      /\ u.added = b.added /\ u.docs = b.docs /\ u.clash = b.clash /\ u.dead = b.dead
      /\ u.raw = b.raw /\ u.due = b.due /\ u.held = b.held /\ u.before = b.before
  BY <1>4 DEF RunFields
<1> HIDE DEF u
<1>7. /\ u.judged = s.judged \cup {said} /\ u.pc = "items" /\ u.kind = "osint" /\ u.todo \in Seq(Items)
      /\ u.added = s.added /\ u.docs = s.docs /\ u.clash = s.clash /\ u.dead = s.dead
      /\ u.raw = s.raw /\ u.due = {} /\ u.held = s.held /\ u.before = s.before
  BY <1>1, <1>4, <1>6, BegunIs DEF b, Fits
<1>8. \A j \in judged' : j.kept => j.item \in DOMAIN rows
  BY <1>1, RunOf
<1>9. ASSUME NEW t, ingest' = [ingest EXCEPT ![w] = t], Fits(t, rows, docs), t.held = s.held
      PROVE  SignalsInv'
  <2>1. \A v \in Ingests \ {w} : ingest[v].held \cap t.held = {}
    BY <1>9, RunOf
  <2> QED BY <1>1, <1>8, <1>9, <2>1, OwnStep
<1>10. CASE ~kept \/ u.dead
  <2>1. Fits(u, rows, docs)
    <3>1. ~u.dead => \A j \in u.judged : j.kept => j.item \in DOMAIN rows \cup DOMAIN u.added
      BY <1>4, <1>5, <1>7, <1>10 DEF Fits
    <3> HIDE DEF s, i
    <3> QED BY <1>1, <1>4, <1>6, <1>7, <3>1 DEF Fits
  <2> QED BY <1>3, <1>7, <1>9, <1>10, <2>1
<1>11. CASE kept /\ ~u.dead
  <2>0. PICK g \in Grades[i] : \E t \in Upserted(u, i, g) : ingest' = [ingest EXCEPT ![w] = t]
    BY <1>3, <1>11
  <2>1. PICK t \in Upserted(u, i, g) : ingest' = [ingest EXCEPT ![w] = t]
    BY <2>0
  <2>2. /\ Takes(u, t, i) /\ t.pc = IF t.due = {} THEN "items" ELSE "flush"
    <3> HIDE DEF s, i
    <3>1. u.raw \cap Items \subseteq DOMAIN u.added /\ (~u.clash => Grounded(rows, docs, u.added, u.docs))
      BY <1>4, <1>7 DEF Fits
    <3>2. Sound(rows) /\ \A k \in DOMAIN rows : StoredRow(rows[k])
      BY RunOf
    <3> QED BY <1>4, <1>6, <2>1, <3>1, <3>2, UpsertedIs
  <2>3. /\ DOMAIN t = RunFields /\ t.kind = "osint" /\ t.todo \in Seq(Items)
        /\ t.held = s.held /\ ~t.dead /\ t.judged = s.judged \cup {said} /\ t.before = s.before
    BY <1>7, <1>11, <2>2 DEF Takes, Untouched
  <2>4. /\ DOMAIN s.added \subseteq DOMAIN t.added
        /\ DOMAIN t.added \ DOMAIN s.added \subseteq (t.due \cup t.raw) \ DOMAIN rows
        /\ i \in DOMAIN rows \cup DOMAIN t.added /\ s.raw \subseteq t.due \cup t.raw
        /\ t.raw \cap Items \subseteq DOMAIN t.added
        /\ ~t.clash => Grounded(rows, docs, t.added, t.docs)
    BY <1>7, <2>2 DEF Takes
  <2>5. Fits(t, rows, docs)
    <3>1. \A j \in t.judged : j.kept => j.item \in DOMAIN rows \cup DOMAIN t.added
      BY <1>4, <1>5, <1>7, <1>11, <2>3, <2>4 DEF Fits
    <3>2. DOMAIN t.added \subseteq t.raw \cup t.due \cup t.held
      <4>1. DOMAIN s.added \subseteq s.raw \cup s.due \cup s.held /\ s.due = {}
        BY <1>1, <1>4, <1>7, <1>11 DEF Fits
      <4> HIDE DEF s, i
      <4> QED BY <2>3, <2>4, <4>1
    <3>3. t.held \cap DOMAIN t.added \cap DOMAIN rows = {}
      <4>1. s.held \cap DOMAIN s.added \cap DOMAIN rows = {}
        BY <1>4 DEF Fits
      <4> HIDE DEF s, i
      <4> QED BY <2>3, <2>4, <4>1
    <3>4. Grounded(rows, docs, t.before.added, t.before.docs)
      BY <1>4, <2>3 DEF Fits
    <3> HIDE DEF s, i
    <3> QED BY <2>2, <2>3, <2>4, <3>1, <3>2, <3>3, <3>4 DEF Fits
  <2> QED BY <1>9, <2>1, <2>3, <2>5
<1> QED BY <1>10, <1>11

LEMMA StartCommitStep == ASSUME SignalsInv, NEW w \in Ingests, StartCommit(w) PROVE SignalsInv'
<1> DEFINE s == ingest[w]
           u == Flushing(s)
           t == [u EXCEPT !.pc = "commit"]
<1>1. /\ s.pc = "items" /\ ingest' = [ingest EXCEPT ![w] = t]
      /\ rows' = rows /\ docs' = docs /\ merger' = merger /\ judged' = judged
  <2>1. ingest' = [ingest EXCEPT ![w] = [Flushing(@) EXCEPT !.pc = "commit"]]
    BY DEF StartCommit
  <2>2. w \in DOMAIN ingest
    BY DEF SignalsInv, RunsFit
  <2> QED BY <2>1, <2>2 DEF StartCommit
<1>2. Fits(s, rows, docs) /\ DOMAIN s = RunFields
  BY RunOf
<1> HIDE DEF u
<1>3. /\ DOMAIN u = RunFields /\ Untouched(s, u) /\ u.added = s.added /\ u.docs = s.docs
      /\ u.clash = s.clash /\ u.raw = {} /\ u.due = s.due \cup s.raw \cup s.dirty
  BY <1>2, FlushingIs DEF u
<1>4. /\ DOMAIN t = RunFields /\ Untouched(u, t) /\ t.added = u.added /\ t.docs = u.docs
      /\ t.clash = u.clash /\ t.raw = u.raw /\ t.due = u.due /\ t.pc = "commit"
  BY <1>3 DEF RunFields, Untouched
<1> HIDE DEF t
<1>5. /\ t.kind = s.kind /\ t.todo = s.todo /\ t.taken = s.taken /\ t.held = s.held /\ t.raw = {}
      /\ t.dead = s.dead /\ t.judged = s.judged /\ t.beaten = s.beaten /\ t.before = s.before
      /\ t.added = s.added /\ t.docs = s.docs /\ t.clash = s.clash /\ s.raw \cup s.due \subseteq t.due
  BY <1>3, <1>4 DEF Untouched
<1>6. Fits(t, rows, docs)
  <2> HIDE DEF s
  <2> QED BY <1>1, <1>2, <1>4, <1>5 DEF Fits
<1>7. /\ \A v \in Ingests \ {w} : ingest[v].held \cap t.held = {}
      /\ \A j \in judged' : j.kept => j.item \in DOMAIN rows
  BY <1>1, <1>5, RunOf
<1> QED BY <1>1, <1>6, <1>7, OwnStep

LEMMA FlushStep == ASSUME SignalsInv, NEW w \in Ingests, Flush(w) PROVE SignalsInv'
<1> DEFINE s == ingest[w]
           t == [s EXCEPT !.pc = "items", !.held = @ \cup s.due, !.due = {}, !.before = NewRun.before]
<1>1. /\ s.pc = "flush" /\ Waits(w) = {} /\ ~Refused(w) /\ ingest' = [ingest EXCEPT ![w] = t]
      /\ rows' = rows /\ docs' = docs /\ merger' = merger /\ judged' = judged
  BY DEF Flush
<1>2. Fits(s, rows, docs) /\ DOMAIN s = RunFields
  BY RunOf
<1>3. /\ DOMAIN t = RunFields /\ t.kind = s.kind /\ t.todo = s.todo /\ t.taken = s.taken
      /\ t.held = s.held \cup s.due /\ t.raw = s.raw /\ t.due = {} /\ t.dead = s.dead
      /\ t.judged = s.judged /\ t.beaten = s.beaten /\ t.before = NewRun.before
      /\ t.added = s.added /\ t.docs = s.docs /\ t.clash = s.clash /\ t.pc = "items"
  <2> HIDE DEF NewRun
  <2> QED BY <1>2 DEF RunFields
<1> HIDE DEF t
<1>4. s.due \cap DOMAIN s.added \cap DOMAIN rows = {}
  BY <1>1 DEF Refused
<1>5. Fits(t, rows, docs)
  <2>1. Grounded(rows, docs, t.before.added, t.before.docs)
    BY <1>3, Nothing, NewRunIs
  <2> HIDE DEF s
  <2> QED BY <1>1, <1>2, <1>3, <1>4, <2>1 DEF Fits
<1>6. \A v \in Ingests \ {w} : ingest[v].held \cap t.held = {}
  BY <1>1, <1>3, RunOf DEF Waits
<1>7. \A j \in judged' : j.kept => j.item \in DOMAIN rows
  BY <1>1, RunOf
<1> QED BY <1>1, <1>5, <1>6, <1>7, OwnStep

LEMMA FlushFailsStep == ASSUME SignalsInv, NEW w \in Ingests, FlushFails(w) PROVE SignalsInv'
<1> DEFINE s == ingest[w]
<1>1. /\ s.pc = "flush" /\ (Refused(w) \/ Deadlocked(w))
      /\ rows' = rows /\ docs' = docs /\ merger' = merger /\ judged' = judged
  BY DEF FlushFails
<1>2. Fits(s, rows, docs) /\ DOMAIN s = RunFields
  BY RunOf
<1>3. \A j \in judged' : j.kept => j.item \in DOMAIN rows
  BY <1>1, RunOf
<1>4. CASE s.kind = "hazard"
  <2> DEFINE r == RollBack(s)
             more == IF Deadlocked(w) \/ DocTaken(s)
                     THEN s.beaten \cup (DOMAIN s.added \ DOMAIN s.before.added) ELSE s.beaten
             t == [r EXCEPT !.pc = "items", !.due = {}, !.clash = FALSE, !.before = NewRun.before, !.beaten = more]
  <2>1. /\ DOMAIN r = RunFields /\ r.kind = s.kind /\ r.todo = s.todo /\ r.taken = s.taken
        /\ r.held = s.held /\ r.raw = s.raw /\ r.dead = s.dead /\ r.judged = s.judged
        /\ r.beaten = s.beaten /\ r.added = s.before.added /\ r.docs = s.before.docs
    BY <1>2 DEF RollBack, RunFields
  <2>2. ingest' = [ingest EXCEPT ![w] = t]
    <3>1. ingest' = [ingest EXCEPT ![w] =
             [r EXCEPT !.pc = "items", !.due = {}, !.clash = FALSE, !.before = NewRun.before,
                       !.beaten = IF Deadlocked(w) \/ DocTaken(s)
                                  THEN @ \cup (DOMAIN s.added \ DOMAIN s.before.added) ELSE @]]
      <4> HIDE DEF NewRun
      <4> QED BY <1>4 DEF FlushFails
    <3> HIDE DEF NewRun, r
    <3> QED BY <2>1, <3>1
  <2> HIDE DEF r
  <2>3. /\ DOMAIN t = RunFields /\ t.kind = r.kind /\ t.todo = r.todo /\ t.taken = r.taken
        /\ t.held = r.held /\ t.raw = r.raw /\ t.due = {} /\ t.dead = r.dead /\ t.clash = FALSE
        /\ t.judged = r.judged /\ t.beaten = more /\ t.before = NewRun.before
        /\ t.added = r.added /\ t.docs = r.docs /\ t.pc = "items"
    <3> HIDE DEF NewRun, more
    <3> QED BY <2>1 DEF RunFields
  <2> HIDE DEF t
  <2>4. /\ t.kind = s.kind /\ t.todo = s.todo /\ t.taken = s.taken /\ t.held = s.held /\ t.raw = {}
        /\ ~t.dead /\ t.judged = {} /\ t.added = s.before.added /\ t.docs = s.before.docs
        /\ DOMAIN t.added \subseteq s.held /\ DOMAIN t.added \subseteq DOMAIN s.added
        /\ DOMAIN s.added \ DOMAIN t.added \subseteq s.due
        /\ \A i, j \in DOMAIN s.added \ DOMAIN t.added : i = j
        /\ s.taken \subseteq DOMAIN rows \cup DOMAIN s.added \cup s.beaten
        /\ s.held \cap DOMAIN s.added \cap DOMAIN rows = {} /\ ~s.clash
    <3>1. /\ ~s.dead /\ ~s.clash /\ s.raw = {} /\ s.judged = {}
          /\ s.taken \subseteq DOMAIN rows \cup DOMAIN s.added \cup s.beaten
          /\ DOMAIN s.before.added \subseteq s.held /\ DOMAIN s.before.added \subseteq DOMAIN s.added
          /\ DOMAIN s.added \ DOMAIN s.before.added \subseteq s.due
          /\ \A i, j \in DOMAIN s.added \ DOMAIN s.before.added : i = j
          /\ s.held \cap DOMAIN s.added \cap DOMAIN rows = {}
      <4>1. s.pc # "log" /\ s.pc = "flush" /\ s.kind = "hazard"
        BY <1>1, <1>4
      <4> HIDE DEF s
      <4> QED BY <1>2, <4>1 DEF Fits
    <3> HIDE DEF s, more
    <3> QED BY <2>1, <2>3, <3>1
  <2>5. t.taken \subseteq DOMAIN rows \cup DOMAIN t.added \cup t.beaten
    <3>1. CASE Deadlocked(w) \/ DocTaken(s)
      <4>1. t.beaten = s.beaten \cup (DOMAIN s.added \ DOMAIN s.before.added)
        BY <2>3, <3>1
      <4> HIDE DEF s
      <4> QED BY <2>4, <4>1
    <3>2. CASE ~ (Deadlocked(w) \/ DocTaken(s))
      <4>1. PICK x : x \in s.due \cap DOMAIN s.added \cap DOMAIN rows
        BY <1>1, <2>4, <3>2 DEF Refused
      <4>2. t.beaten = s.beaten
        BY <2>3, <3>2
      <4>3. x \in DOMAIN s.added \ DOMAIN t.added
        BY <2>4, <4>1
      <4> HIDE DEF s
      <4> QED BY <2>4, <4>1, <4>2, <4>3
    <3> QED BY <3>1, <3>2
  <2>6. Fits(t, rows, docs)
    <3>1. Grounded(rows, docs, t.before.added, t.before.docs)
      BY <2>3, Nothing, NewRunIs
    <3>2. Grounded(rows, docs, t.added, t.docs)
      BY <1>2, <2>4 DEF Fits
    <3> HIDE DEF s
    <3> QED BY <1>2, <1>4, <2>3, <2>4, <2>5, <3>1, <3>2 DEF Fits
  <2>7. \A v \in Ingests \ {w} : ingest[v].held \cap t.held = {}
    BY <2>4, RunOf
  <2> QED BY <1>1, <1>3, <2>2, <2>6, <2>7, OwnStep
<1>5. CASE s.kind # "hazard"
  <2> DEFINE t == [s EXCEPT !.pc = "items", !.due = {}, !.held = {}, !.dead = TRUE]
  <2>1. ingest' = [ingest EXCEPT ![w] = t]
    BY <1>5 DEF FlushFails
  <2>2. /\ DOMAIN t = RunFields /\ t.kind = s.kind /\ t.todo = s.todo /\ t.held = {}
        /\ t.raw = s.raw /\ t.due = {} /\ t.dead = TRUE /\ t.before = s.before
        /\ t.added = s.added /\ t.docs = s.docs /\ t.clash = s.clash /\ t.pc = "items"
    BY <1>2 DEF RunFields
  <2> HIDE DEF t
  <2>3. Fits(t, rows, docs)
    <3> HIDE DEF s
    <3> QED BY <1>2, <1>5, <2>2 DEF Fits
  <2>4. \A v \in Ingests \ {w} : ingest[v].held \cap t.held = {}
    BY <2>2
  <2> QED BY <1>1, <1>3, <2>1, <2>3, <2>4, OwnStep
<1> QED BY <1>4, <1>5

\* What a commit finds, and what it makes of the table.
LEMMA CommitFinds ==
    ASSUME SignalsInv, NEW w \in Ingests, Commit(w)
    PROVE  /\ DOMAIN ingest[w].added \subseteq ingest[w].due \cup ingest[w].held
           /\ DOMAIN ingest[w].added \cap DOMAIN rows = {}
           /\ Grounded(rows, docs, ingest[w].added, ingest[w].docs)
           /\ \A j \in ingest[w].judged : j.kept => j.item \in DOMAIN rows \cup DOMAIN ingest[w].added
<1> DEFINE s == ingest[w]
<1>1. s.pc = "commit" /\ ~s.dead /\ ~s.clash /\ s.due \cap DOMAIN s.added \cap DOMAIN rows = {}
  BY DEF Commit, Refused
<1>2. Fits(s, rows, docs)
  BY RunOf
<1> HIDE DEF s
<1>3. DOMAIN s.added \subseteq s.due \cup s.held /\ s.held \cap DOMAIN s.added \cap DOMAIN rows = {}
  BY <1>1, <1>2 DEF Fits
<1>4. /\ Grounded(rows, docs, s.added, s.docs)
      /\ \A j \in s.judged : j.kept => j.item \in DOMAIN rows \cup DOMAIN s.added
  BY <1>1, <1>2 DEF Fits
<1> QED BY <1>1, <1>3, <1>4 DEF s

LEMMA WrittenIs ==
    ASSUME NEW s, \A k \in DOMAIN rows : StoredRow(rows[k]), \A k \in DOMAIN s.added : StoredRow(s.added[k])
    PROVE  /\ DOMAIN Written(s) = DOMAIN rows \cup DOMAIN s.added
           /\ \A k \in DOMAIN Written(s) :
                  /\ StoredRow(Written(s)[k])
                  /\ Written(s)[k].into = IF k \in DOMAIN rows THEN rows[k].into ELSE s.added[k].into
<1>1. DOMAIN Written(s) = DOMAIN rows \cup DOMAIN s.added
  BY DEF Written
<1>2. ASSUME NEW k \in DOMAIN rows \cup DOMAIN s.added
      PROVE  /\ StoredRow(Written(s)[k])
             /\ Written(s)[k].into = IF k \in DOMAIN rows THEN rows[k].into ELSE s.added[k].into
  <2> DEFINE r == IF k \in DOMAIN rows THEN rows[k] ELSE s.added[k]
  <2>1. StoredRow(r) /\ r.into = IF k \in DOMAIN rows THEN rows[k].into ELSE s.added[k].into
    OBVIOUS
  <2>2. Written(s)[k] = IF k \in DOMAIN s.grades THEN [r EXCEPT !.grade = s.grades[k]] ELSE r
    BY DEF Written
  <2> HIDE DEF r
  <2>3. StoredRow([r EXCEPT !.grade = s.grades[k]]) /\ [r EXCEPT !.grade = s.grades[k]].into = r.into
    BY <2>1 DEF StoredRow
  <2> QED BY <2>1, <2>2, <2>3
<1> QED BY <1>1, <1>2

LEMMA CommitStep == ASSUME SignalsInv, NEW w \in Ingests, Commit(w) PROVE SignalsInv'
<1> DEFINE s == ingest[w]
           g == Written(s)
           E == docs \cup s.docs
           new == IF s.kind = "osint" THEN [NewRun EXCEPT !.pc = "log", !.judged = s.judged] ELSE NewRun
<1>1. /\ rows' = g /\ docs' = E /\ merger' = merger /\ judged' = judged /\ Waits(w) = {}
      /\ ingest' = [ingest EXCEPT ![w] = new]
  <2> HIDE DEF NewRun
  <2>1. ingest' = [ingest EXCEPT ![w] =
         IF @.kind = "osint" THEN [NewRun EXCEPT !.pc = "log", !.judged = ingest[w].judged] ELSE NewRun]
    BY DEF Commit
  <2>2. w \in DOMAIN ingest
    BY DEF SignalsInv, RunsFit
  <2>3. ingest' = [ingest EXCEPT ![w] = new]
    BY <2>1, <2>2
  <2> QED BY <2>3 DEF Commit
<1>2. /\ DOMAIN s.added \subseteq s.due \cup s.held /\ DOMAIN s.added \cap DOMAIN rows = {}
      /\ Grounded(rows, docs, s.added, s.docs)
      /\ \A j \in s.judged : j.kept => j.item \in DOMAIN rows \cup DOMAIN s.added
  BY CommitFinds
<1>3. Stored /\ KeptMeansStored /\ DOMAIN ingest = Ingests
  BY DEF SignalsInv, RunsFit
<1>4. DOMAIN g = DOMAIN rows \cup DOMAIN s.added
      /\ \A k \in DOMAIN g : /\ StoredRow(g[k])
                             /\ g[k].into = IF k \in DOMAIN rows THEN rows[k].into ELSE s.added[k].into
  <2>1. (\A k \in DOMAIN rows : StoredRow(rows[k])) /\ (\A k \in DOMAIN s.added : StoredRow(s.added[k]))
    BY <1>2, <1>3 DEF Stored, Grounded
  <2> QED BY <2>1, WrittenIs
<1>5. Fits(new, g, E) /\ new.held = {}
  <2>1. CASE s.kind = "osint"
    <3>1. /\ DOMAIN new = RunFields /\ new.kind = "hazard" /\ new.todo = <<>> /\ new.pc = "log"
          /\ new.added = <<>> /\ new.docs = {} /\ new.before.added = <<>> /\ new.before.docs = {}
          /\ new.clash = FALSE /\ new.dead = FALSE /\ new.raw = {} /\ new.due = {} /\ new.held = {}
          /\ new.taken = {} /\ new.judged = s.judged
      <4> HIDE DEF NewRun
      <4> QED BY <2>1, NewRunIs DEF RunFields
    <3>2. <<>> \in Seq(Items)
      OBVIOUS
    <3> HIDE DEF new, g, E
    <3> QED BY <1>2, <1>4, <3>1, <3>2, FreshFits
  <2>2. CASE s.kind # "osint"
    <3>1. new = NewRun
      BY <2>2
    <3> HIDE DEF new, g, E, NewRun
    <3> QED BY <3>1, NewRunIs, NewRunFits
  <2> QED BY <2>1, <2>2
<1>6. \A v \in Ingests \ {w} : s.due \cap ingest[v].held = {} /\ s.held \cap ingest[v].held = {}
  BY <1>1, RunOf DEF Waits
<1> HIDE DEF g, E, new
<1>7. Sound(g)
  <2>1. /\ Sound(rows) /\ DOMAIN s.added \subseteq Items /\ NoCircle(s.added)
        /\ \A i \in DOMAIN s.added : s.added[i].into \in DOMAIN rows \cup DOMAIN s.added \cup {Canonical}
    BY <1>2, <1>3 DEF Stored, Grounded
  <2>2. /\ \A i \in DOMAIN rows : g[i].into = rows[i].into
        /\ \A i \in DOMAIN s.added : g[i].into = s.added[i].into
    BY <1>2, <1>4
  <2> QED BY <1>2, <1>4, <2>1, <2>2, SoundTogether
<1>8. IsFiniteSet(DOMAIN g)
  <2>1. IsFiniteSet(DOMAIN rows) /\ IsFiniteSet(DOMAIN s.added)
    BY <1>2, <1>3 DEF Stored, Grounded
  <2> HIDE DEF s
  <2> QED BY <1>4, <2>1, FS_Union, ZenonT(60)
<1>9. \A i \in DOMAIN g : \E d \in E : d.doc = Doc[i]
  BY <1>2, <1>3, <1>4 DEF Stored, Grounded, E
<1>10. ASSUME NEW d \in E
       PROVE  /\ Article(d) /\ d.at \in DOMAIN g
              /\ \E j \in DOMAIN g : Doc[j] = d.doc /\ LeadsTo(g, d.at) = LeadsTo(g, j)
  <2>1. CASE d \in docs
    <3>1. /\ Article(d) /\ d.at \in DOMAIN rows
          /\ \E j \in DOMAIN rows : Doc[j] = d.doc /\ LeadsTo(rows, d.at) = LeadsTo(rows, j)
      BY <1>3, <2>1 DEF Stored, Stands
    <3>2. ASSUME NEW k \in DOMAIN rows PROVE LeadsTo(g, k) = LeadsTo(rows, k)
      <4>1. Sound(rows) /\ DOMAIN rows \subseteq DOMAIN g /\ \A l \in DOMAIN rows : g[l].into = rows[l].into
        BY <1>3, <1>4 DEF Stored
      <4> QED BY <4>1, LeadsAsBefore
    <3> QED BY <1>4, <3>1, <3>2
  <2>2. CASE d \in s.docs
    <3>1. PICK j \in DOMAIN g :
              Doc[j] = d.doc /\ (j = d.at \/ Into(rows, j, d.at) \/ Into(s.added, j, d.at))
      BY <1>2, <1>4, <2>2 DEF Grounded
    <3>2. Article(d) /\ d.at \in DOMAIN g
      BY <1>2, <1>4, <2>2 DEF Grounded
    <3>3. j = d.at \/ g[j].into = d.at
      BY <1>2, <1>4, <3>1 DEF Into
    <3>4. d.at # Canonical
      BY <1>7, <3>2, SignalsAssumption DEF Sound
    <3>5. LeadsTo(g, d.at) = LeadsTo(g, j)
      BY <1>7, <3>3, <3>4, LeadsOn
    <3> QED BY <3>1, <3>2, <3>5
  <2> QED BY <2>1, <2>2 DEF E
<1>11. Stored'
  BY <1>1, <1>4, <1>7, <1>8, <1>9, <1>10 DEF Stored, Stands
<1>12. KeptMeansStored'
  BY <1>1, <1>3, <1>4 DEF KeptMeansStored
<1>13. RunsFit'
  <2>1. DOMAIN ingest' = Ingests
    BY <1>1, <1>3
  <2>2. ASSUME NEW v \in Ingests PROVE Fits(ingest'[v], g, E)
    <3>1. CASE v = w
      BY <1>1, <1>3, <1>5, <3>1
    <3>2. CASE v # w
      <4> DEFINE t == ingest[v]
      <4>1. ingest'[v] = t
        BY <1>1, <3>2
      <4>2. Fits(t, rows, docs)
        BY RunOf
      <4>3. t.held \cap DOMAIN t.added \cap DOMAIN g = {}
        <5>1. t.held \cap DOMAIN t.added \cap DOMAIN rows = {}
          BY <4>2 DEF Fits
        <5>2. t.held \cap DOMAIN s.added = {}
          BY <1>2, <1>6, <3>2
        <5> HIDE DEF t, s
        <5> QED BY <1>4, <5>1, <5>2
      <4>4. /\ DOMAIN rows \subseteq DOMAIN g /\ DOMAIN rows \subseteq Items
            /\ \A k \in DOMAIN rows : rows[k].into = Canonical \/ g[k].into = rows[k].into
            /\ \A d \in docs : \E e \in E : e.doc = d.doc
        BY <1>3, <1>4 DEF Stored, Sound, E
      <4> HIDE DEF t
      <4> QED BY <4>1, <4>2, <4>3, <4>4, FitsStays
    <3> QED BY <3>1, <3>2
  <2> QED BY <1>1, <2>1, <2>2 DEF RunsFit
<1>14. HeldApart'
  <2>1. ingest'[w].held = {} /\ \A v \in Ingests \ {w} : ingest'[v] = ingest[v]
    BY <1>1, <1>3, <1>5
  <2> QED BY <2>1 DEF SignalsInv, HeldApart
<1>15. Planned'
  <2>1. Visible(rows) \subseteq Visible(g)
    BY <1>4 DEF Visible
  <2> QED BY <1>1, <2>1 DEF SignalsInv, Planned
<1> QED BY <1>11, <1>12, <1>13, <1>14, <1>15 DEF SignalsInv
-----------------------------------------------------------------------------
(* The steps of the merge script. *)

LEMMA ScanStep == ASSUME SignalsInv, ScanEvents PROVE SignalsInv'
<1> DEFINE table == [i \in Visible(rows) |-> rows[i]]
<1>1. PICK order \in Orders(table) : merger' = [pc |-> "planned", plan |-> PlanMerges(order), was |-> rows]
  BY DEF ScanEvents
<1>2. rows' = rows /\ docs' = docs /\ ingest' = ingest /\ judged' = judged
  BY DEF ScanEvents
<1>3. DOMAIN table = Visible(rows) /\ IsFiniteSet(DOMAIN table)
  BY FS_Subset DEF SignalsInv, Stored, Visible
<1> HIDE DEF table
<1>4. /\ \A p \in PlanMerges(order) : p = <<p[1], p[2]>> /\ p[1] \in Visible(rows) /\ p[2] \in Visible(rows)
      /\ \A p, q \in PlanMerges(order) : p[1] # q[2]
  BY <1>3, PlanIsClean
<1>5. Planned'
  BY <1>1, <1>2, <1>4 DEF Planned
<1>6. Stored' /\ KeptMeansStored' /\ HeldApart' /\ RunsFit'
  BY <1>2 DEF SignalsInv, Stored, Stands, KeptMeansStored, HeldApart, RunsFit
<1> QED BY <1>5, <1>6 DEF SignalsInv

LEMMA ApplyStep == ASSUME SignalsInv, ApplyMerges PROVE SignalsInv'
<1> DEFINE canon(i) == CHOOSE c \in Items : <<i, c>> \in merger.plan
           dups == {p[1] : p \in merger.plan}
           moved(d) == [d EXCEPT !.at = IF d.at \in dups THEN canon(d.at) ELSE d.at]
           g == rows'
<1>1. /\ merger.pc = "planned" /\ docs' = {moved(d) : d \in docs}
      /\ ingest' = ingest /\ judged' = judged /\ merger' = NoMerger
  BY DEF ApplyMerges
<1>2. Stored /\ KeptMeansStored /\ HeldApart /\ RunsFit
  BY DEF SignalsInv
<1>3. /\ \A p \in merger.plan : p = <<p[1], p[2]>> /\ p[1] \in Visible(rows) /\ p[2] \in Visible(rows)
      /\ \A p, q \in merger.plan : p[1] # q[2]
  BY <1>1 DEF SignalsInv, Planned
<1>4. ASSUME NEW i \in dups PROVE i \in Visible(rows) /\ canon(i) \in Visible(rows) \ dups
  <2>1. PICK p \in merger.plan : i = p[1]
    OBVIOUS
  <2>2. p[2] \in Items /\ <<i, p[2]>> \in merger.plan
    BY <1>2, <1>3, <2>1 DEF Stored, Sound, Visible
  <2>3. <<i, canon(i)>> \in merger.plan
    BY <2>2
  <2> HIDE DEF canon
  <2>4. <<i, canon(i)>>[2] = canon(i)
    OBVIOUS
  <2>5. canon(i) \in Visible(rows)
    BY <1>3, <2>3, <2>4
  <2>6. canon(i) \notin dups
    BY <1>3, <2>3, <2>4
  <2> QED BY <1>3, <2>1, <2>5, <2>6
<1>5. /\ DOMAIN g = DOMAIN rows
      /\ \A i \in DOMAIN rows : /\ StoredRow(g[i])
                                /\ g[i].into = IF i \in dups THEN canon(i) ELSE rows[i].into
  <2> DEFINE canons == {p[2] : p \in merger.plan}
             best(c) == {merger.was[i].grade : i \in {c} \cup {d \in dups : canon(d) = c}}
             raised(c) == CHOOSE h \in best(c) : \A k \in best(c) : k =< h
  <2>1. rows' = [i \in DOMAIN rows |->
         IF i \in dups THEN [rows[i] EXCEPT !.into = canon(i)]
         ELSE IF i \in canons /\ raised(i) # merger.was[i].grade
         THEN [rows[i] EXCEPT !.grade = raised(i)] ELSE rows[i]]
    BY DEF ApplyMerges
  <2> HIDE DEF canon, dups, canons, raised
  <2>2. ASSUME NEW i \in DOMAIN rows
        PROVE  StoredRow(g[i]) /\ g[i].into = IF i \in dups THEN canon(i) ELSE rows[i].into
    <3>1. StoredRow(rows[i])
      BY <1>2 DEF Stored
    <3>2. ASSUME NEW x PROVE /\ StoredRow([rows[i] EXCEPT !.into = x]) /\ [rows[i] EXCEPT !.into = x].into = x
                             /\ StoredRow([rows[i] EXCEPT !.grade = x])
                             /\ [rows[i] EXCEPT !.grade = x].into = rows[i].into
      BY <3>1 DEF StoredRow
    <3> QED BY <2>1, <3>1, <3>2
  <2> QED BY <2>1, <2>2
<1> HIDE DEF canon, dups, g
<1>6. Sound(rows) /\ Sound(g)
  <2>1. /\ \A i \in DOMAIN rows \ dups : g[i].into = rows[i].into
        /\ \A i \in DOMAIN rows \cap dups : g[i].into \in Visible(rows) \ dups
    BY <1>4, <1>5
  <2>2. Sound(rows)
    BY <1>2 DEF Stored
  <2> QED BY <1>5, <2>1, <2>2, SoundMerged
<1>7. \A k \in DOMAIN rows : rows[k].into = Canonical \/ g[k].into = rows[k].into
  BY <1>4, <1>5 DEF Visible
<1>8. ASSUME NEW d \in docs
      PROVE  /\ moved(d).doc = d.doc /\ Article(moved(d)) /\ moved(d).at \in DOMAIN g
             /\ \E j \in DOMAIN g : Doc[j] = d.doc /\ LeadsTo(g, moved(d).at) = LeadsTo(g, j)
  <2> DEFINE at == IF d.at \in dups THEN canon(d.at) ELSE d.at
  <2>1. /\ Article(d) /\ d.at \in DOMAIN rows
        /\ \E j \in DOMAIN rows : Doc[j] = d.doc /\ LeadsTo(rows, d.at) = LeadsTo(rows, j)
    BY <1>2 DEF Stored, Stands
  <2>2. moved(d).doc = d.doc /\ moved(d).at = at /\ Article(moved(d))
    <3> HIDE DEF at
    <3>1. /\ [d EXCEPT !.at = at].doc = d.doc /\ [d EXCEPT !.at = at].at = at
          /\ Article([d EXCEPT !.at = at])
      BY <2>1 DEF Article
    <3> QED BY <3>1 DEF at
  <2>3. PICK j \in DOMAIN rows : Doc[j] = d.doc /\ LeadsTo(rows, d.at) = LeadsTo(rows, j)
    BY <2>1
  <2>4. at \in DOMAIN g /\ LeadsTo(g, at) = LeadsTo(g, d.at)
    <3>1. CASE d.at \in dups
      <4>1. g[d.at].into = at /\ at # Canonical /\ at \in DOMAIN g
        BY <1>4, <1>5, <1>6, <2>1, <3>1, SignalsAssumption DEF Visible, Sound
      <4> HIDE DEF at
      <4> QED BY <1>5, <1>6, <2>1, <4>1, LeadsOn
    <3>2. CASE d.at \notin dups
      BY <1>5, <2>1, <3>2
    <3> QED BY <3>1, <3>2
  <2>5. PICK e : e \in LeadsTo(rows, j)
    BY <1>6, LeadsSomewhere
  <2>6. ASSUME NEW k \in DOMAIN rows, e \in LeadsTo(rows, k) PROVE LeadsTo(g, k) = LeadsTo(g, e)
    BY <1>5, <1>6, <1>7, <2>6, LeadsAlong
  <2>7. LeadsTo(g, d.at) = LeadsTo(g, j)
    BY <2>1, <2>3, <2>5, <2>6
  <2> HIDE DEF at, moved
  <2> QED BY <1>5, <2>2, <2>3, <2>4, <2>7
<1>9. Stored'
  <2> HIDE DEF moved
  <2>1. /\ IsFiniteSet(DOMAIN g) /\ \A i \in DOMAIN g : StoredRow(g[i])
    BY <1>2, <1>5 DEF Stored
  <2>2. \A i \in DOMAIN g : \E d \in docs' : d.doc = Doc[i]
    <3> SUFFICES ASSUME NEW i \in DOMAIN g PROVE \E d \in docs' : d.doc = Doc[i]
      OBVIOUS
    <3>1. PICK d \in docs : d.doc = Doc[i]
      BY <1>2, <1>5 DEF Stored
    <3> QED BY <1>1, <1>8, <3>1
  <2>3. \A d \in docs' : /\ Article(d) /\ d.at \in DOMAIN g
                         /\ \E j \in DOMAIN g : Doc[j] = d.doc /\ LeadsTo(g, d.at) = LeadsTo(g, j)
    BY <1>1, <1>8
  <2> QED BY <1>6, <2>1, <2>2, <2>3 DEF Stored, Stands, g
<1>10. KeptMeansStored' /\ HeldApart'
  BY <1>1, <1>2, <1>5 DEF KeptMeansStored, HeldApart, g
<1>11. RunsFit'
  <2>1. ASSUME NEW v \in Ingests PROVE Fits(ingest[v], g, docs')
    <3> DEFINE t == ingest[v]
               E == docs'
    <3> HIDE DEF moved
    <3>1. Fits(t, rows, docs)
      BY RunOf
    <3>2. t.held \cap DOMAIN t.added \cap DOMAIN g = {}
      BY <1>5, <3>1 DEF Fits
    <3>3. \A d \in docs : \E e \in E : e.doc = d.doc
      BY <1>1, <1>8
    <3>4. DOMAIN rows \subseteq DOMAIN g /\ DOMAIN rows \subseteq Items
      BY <1>5, <1>6 DEF Sound
    <3> HIDE DEF t, E
    <3>5. Fits(t, g, E)
      BY <1>7, <3>1, <3>2, <3>3, <3>4, FitsStays
    <3> QED BY <3>5 DEF t, E
  <2> QED BY <1>1, <1>2, <2>1 DEF RunsFit, g
<1>12. Planned'
  BY <1>1 DEF Planned, NoMerger
<1> QED BY <1>9, <1>10, <1>11, <1>12 DEF SignalsInv
-----------------------------------------------------------------------------
LEMMA SignalsInductive == SignalsInv /\ [SignalsNext]_signalVars => SignalsInv'
<1> SUFFICES ASSUME SignalsInv, [SignalsNext]_signalVars PROVE SignalsInv'
  OBVIOUS
<1>0. \A j \in judged : j.kept => j.item \in DOMAIN rows
  BY DEF SignalsInv, KeptMeansStored
<1>1. ASSUME NEW w \in Ingests, CommitFails(w) PROVE SignalsInv'
  <2>1. /\ ingest' = [ingest EXCEPT ![w] = NewRun] /\ rows' = rows /\ docs' = docs
        /\ merger' = merger /\ judged' = judged
    BY <1>1 DEF CommitFails
  <2> QED BY <1>0, <2>1, EndOfRun
<1>2. ASSUME NEW w \in Ingests, IngestDies(w) PROVE SignalsInv'
  <2>1. /\ ingest' = [ingest EXCEPT ![w] = NewRun] /\ rows' = rows /\ docs' = docs
        /\ merger' = merger /\ judged' = judged
    BY <1>2 DEF IngestDies
  <2> QED BY <1>0, <2>1, EndOfRun
<1>3. ASSUME NEW w \in Ingests, LogDecisions(w) PROVE SignalsInv'
  <2>1. /\ ingest' = [ingest EXCEPT ![w] = NewRun] /\ rows' = rows /\ docs' = docs
        /\ merger' = merger /\ judged' \subseteq judged \cup ingest[w].judged
        /\ ingest[w].pc = "log"
    BY <1>3 DEF LogDecisions
  <2>2. \A j \in ingest[w].judged : j.kept => j.item \in DOMAIN rows
    <3> DEFINE s == ingest[w]
    <3>1. Fits(s, rows, docs)
      BY RunOf
    <3> HIDE DEF s
    <3>2. s.pc = "log" => \A j \in s.judged : j.kept => j.item \in DOMAIN rows
      BY <3>1, Nothing DEF Fits
    <3> QED BY <2>1, <3>2 DEF s
  <2>3. \A j \in judged' : j.kept => j.item \in DOMAIN rows
    BY <1>0, <2>1, <2>2
  <2> QED BY <2>1, <2>3, EndOfRun
<1>4. ASSUME rows' = rows, docs' = docs, ingest' = ingest, merger' = merger, judged' = judged
      PROVE  SignalsInv'
  BY <1>4 DEF SignalsInv, Stored, Stands, KeptMeansStored, RunsFit, HeldApart, Planned
<1>5. ASSUME CoolsDown \/ WindowPasses \/ UNCHANGED signalVars PROVE SignalsInv'
  BY <1>4, <1>5 DEF CoolsDown, WindowPasses, signalVars
<1>6. ASSUME NEW w \in Ingests, Poll(w) \/ IngestStep(w) \/ IngestDies(w) PROVE SignalsInv'
  BY <1>1, <1>2, <1>3, <1>6, PollStep, TakeSignalStep, TriageStep, FlushStep, FlushFailsStep,
     StartCommitStep, CommitStep DEF IngestStep
<1> QED BY <1>5, <1>6, ScanStep, ApplyStep DEF SignalsNext

\* The invariant holds of every behaviour, whatever the feeds bring and the
\* database refuses.
THEOREM SignalsKeepsInv == SignalsSpec => []SignalsInv
<1>1. SignalsInit => SignalsInv
  <2> SUFFICES ASSUME SignalsInit PROVE SignalsInv
    OBVIOUS
  <2> DEFINE row(n) == [grade |-> n, into |-> Canonical]
             article(i) == [doc |-> Doc[i], at |-> i]
  <2>0. PICK start \in Starts :
          \E g : rows = [i \in start |-> row(g[i])] /\ docs = {article(i) : i \in start}
    BY DEF SignalsInit
  <2>1. PICK g : rows = [i \in start |-> row(g[i])] /\ docs = {article(i) : i \in start}
    BY <2>0
  <2>2. /\ judged = {} /\ merger.pc = "idle" /\ DOMAIN ingest = Ingests
        /\ \A w \in Ingests : ingest[w] = NewRun
    <3> HIDE DEF NewRun
    <3> QED BY DEF SignalsInit, NoMerger
  <2>3. /\ \A n : StoredRow(row(n)) /\ row(n).into = Canonical
        /\ \A i : Article(article(i)) /\ article(i).doc = Doc[i] /\ article(i).at = i
    BY DEF StoredRow, Article
  <2> HIDE DEF row, article
  <2>4. /\ start \subseteq Items /\ DOMAIN rows = start /\ IsFiniteSet(start)
        /\ \A i \in start : StoredRow(rows[i]) /\ rows[i].into = Canonical
    BY <2>1, <2>3, SignalsAssumption
  <2>5. Sound(rows)
    BY <2>4, SignalsAssumption DEF Sound, Whole, NoCircle
  <2>6. \A d \in docs : /\ Article(d) /\ d.at \in DOMAIN rows
                       /\ \E j \in DOMAIN rows : Doc[j] = d.doc /\ Stands(d.at) = Stands(j)
    BY <2>1, <2>3, <2>4
  <2>7. \A i \in DOMAIN rows : \E d \in docs : d.doc = Doc[i]
    BY <2>1, <2>3, <2>4
  <2>8. Stored /\ KeptMeansStored /\ Planned
    BY <2>2, <2>4, <2>5, <2>6, <2>7 DEF Stored, KeptMeansStored, Planned
  <2>9. RunsFit /\ HeldApart
    <3> HIDE DEF NewRun
    <3> QED BY <2>2, NewRunFits, NewRunIs DEF RunsFit, HeldApart
  <2> QED BY <2>8, <2>9 DEF SignalsInv
<1> QED BY <1>1, SignalsInductive, PTL DEF SignalsSpec

\* For any number of ingest runs side by side and the merge script between their
\* steps: every hidden event leads to a shown one, every document taken in stays
\* with its story, and a post logged as kept has its event.
THEOREM NoStoryIsLost == SignalsSpec => []StoriesStayWhole
<1>1. SignalsInv => StoriesStayWhole
  <2> SUFFICES ASSUME SignalsInv PROVE StoriesStayWhole
    OBVIOUS
  <2>1. Stored /\ KeptMeansStored
    BY DEF SignalsInv
  <2>2. EveryStoryIsShown
    BY <2>1, LeadsSomewhere DEF EveryStoryIsShown, Stored, Stands
  <2>3. EvidenceStaysWithStory
    <3> SUFFICES ASSUME NEW i \in DOMAIN rows
                 PROVE  \E d \in docs, j \in DOMAIN rows :
                            d.doc = Doc[i] /\ Doc[j] = Doc[i] /\ Stands(d.at) = Stands(j)
      BY DEF EvidenceStaysWithStory
    <3>1. PICK d \in docs : d.doc = Doc[i]
      BY <2>1 DEF Stored
    <3>2. PICK j \in DOMAIN rows : Doc[j] = d.doc /\ Stands(d.at) = Stands(j)
      BY <2>1 DEF Stored
    <3> QED BY <3>1, <3>2
  <2> QED BY <2>1, <2>2, <2>3 DEF StoriesStayWhole
<1> QED BY <1>1, SignalsKeepsInv, PTL

\* When a hazard run commits, every item it took is stored, unless that very item
\* lost a deadlock or the race for its document: savepoints cost nobody else.
THEOREM OneItemFallsAlone == SignalsSpec => BadItemFallsAlone
<1>1. ASSUME SignalsInv, NEW w \in Ingests, Commit(w), ingest[w].kind = "hazard"
      PROVE  ingest[w].taken \subseteq DOMAIN rows' \cup ingest[w].beaten
  <2> DEFINE s == ingest[w]
  <2>1. Fits(s, rows, docs)
    BY <1>1, RunOf
  <2>2. s.taken \subseteq DOMAIN rows \cup DOMAIN s.added \cup s.beaten
    <3> HIDE DEF s
    <3>1. s.kind = "hazard" => s.taken \subseteq DOMAIN rows \cup DOMAIN s.added \cup s.beaten
      BY <2>1 DEF Fits
    <3> QED BY <1>1, <3>1 DEF s
  <2>3. DOMAIN rows' = DOMAIN rows \cup DOMAIN s.added
    BY <1>1 DEF Commit, Written
  <2> QED BY <2>2, <2>3
<1>2. SignalsInv => [\A w \in Ingests : Commit(w) /\ ingest[w].kind = "hazard"
          => ingest[w].taken \subseteq DOMAIN rows' \cup ingest[w].beaten]_signalVars
  BY <1>1
<1> QED BY <1>2, SignalsKeepsInv, PTL DEF BadItemFallsAlone
=============================================================================
