------------------------------- MODULE Tenancy -------------------------------
(***************************************************************************)
(* Organizations and the people in them: api/routes/org.py over            *)
(* models/organization.py, with get_membership of api/dependencies.py      *)
(* deciding what a caller may do.  A request reads in one step and commits *)
(* in another, with no lock between them, so requests overtake each other. *)
(***************************************************************************)
EXTENDS Naturals, FiniteSets

CONSTANTS
    Orgs,      \* slugs, which are unique
    Users,
    Requests,  \* request handlers that may be under way at once
    MaxCommits \* bound

Roles == {"admin", "analyst", "viewer"}
ASSUME TenancyAssumption == MaxCommits \in Nat

VARIABLES
    founded,  \* organizations that exist
    memberships,     \* org_members: one row per organization and user, or NoMembership
    asked,    \* what each handler has read; `current` is history: no other commit since
    commits

tenancyVars == <<founded, memberships, asked, commits>>

NoMembership == [role |-> "none", active |-> FALSE]
Row == [role : Roles, active : BOOLEAN]
NoRequest == [op |-> "idle"]
-----------------------------------------------------------------------------
TenancyInit ==
    /\ founded = {} /\ commits = 0
    /\ memberships = [o \in Orgs |-> [u \in Users |-> NoMembership]]
    /\ asked = [r \in Requests |-> NoRequest]

\* get_membership: an active row of the named organization.  Without the header
\* a caller with several is refused, which reads no more and writes nothing.
MembershipOf(u, o) == memberships[o][u].active

ActsAsAdmin(u, o) == MembershipOf(u, o) /\ memberships[o][u].role = "admin"

Admins(o) == {u \in Users : ActsAsAdmin(u, o)}

Asks(r, op, o, u, role) ==
    /\ asked[r] = NoRequest /\ commits < MaxCommits
    /\ asked' = [asked EXCEPT ![r] =
                    [op |-> op, org |-> o, user |-> u, role |-> role,
                     seen |-> memberships[o][u], current |-> TRUE]]
    /\ UNCHANGED <<founded, memberships, commits>>

\* create_org: nobody who already belongs somewhere, and no taken slug.
AskCreate(r, u, o) ==
    /\ \A p \in Orgs : ~MembershipOf(u, p)
    /\ o \notin founded
    /\ Asks(r, "create", o, u, "admin")

\* add_member: 409 for an active member; an old row is used again.
AskAdd(r, by, o, u, role) ==
    /\ ActsAsAdmin(by, o) /\ ~MembershipOf(u, o)
    /\ Asks(r, "add", o, u, role)

\* The last admin is neither demoted nor removed.
AnyMember(o, u) == TRUE \* mutant: the count is not looked at
LeavesAnAdmin(o, u) == memberships[o][u].role = "admin" => Cardinality(Admins(o)) > 1

AskUpdate(r, by, o, u, role) ==
    /\ ActsAsAdmin(by, o) /\ MembershipOf(u, o)
    /\ role # "admin" => LeavesAnAdmin(o, u)
    /\ Asks(r, "update", o, u, role)

AskRemove(r, by, o, u) ==
    /\ ActsAsAdmin(by, o) /\ MembershipOf(u, o)
    /\ LeavesAnAdmin(o, u)
    /\ Asks(r, "remove", o, u, memberships[o][u].role)

\* The unit of work writes the columns that differ from what was read.
Assigned(q) ==
    LET row == memberships[q.org][q.user]
        inserts == q.op = "create" \/ q.seen = NoMembership
    IN  [role |-> IF inserts \/ q.role # q.seen.role THEN q.role ELSE row.role,
         active |-> q.op # "remove" /\ (inserts \/ q.op = "add" \/ row.active)]

\* The unique slug and the unique (org_id, user_id) refuse a second insert.
UniqueRefuses(q) ==
    \/ q.op = "create" /\ q.org \in founded
    \/ q.op = "add" /\ q.seen = NoMembership /\ memberships[q.org][q.user] # NoMembership

Answered(r) == [s \in Requests |->
    IF s = r \/ asked[s] = NoRequest THEN IF s = r THEN NoRequest ELSE asked[s]
    ELSE [asked[s] EXCEPT !.current = FALSE]]

CommitRequest(r) ==
    /\ asked[r] # NoRequest /\ ~UniqueRefuses(asked[r])
    /\ LET q == asked[r] IN
       /\ memberships' = [memberships EXCEPT ![q.org][q.user] = Assigned(q)]
       /\ founded' = founded \cup {q.org}
    /\ asked' = Answered(r)
    /\ commits' = commits + 1

\* The insert fails, the server answers 500; or the process dies first.
DropRequest(r) ==
    /\ asked[r] # NoRequest
    /\ asked' = [asked EXCEPT ![r] = NoRequest]
    /\ UNCHANGED <<founded, memberships, commits>>

TenancyNext ==
    \E r \in Requests :
        \/ \E u \in Users, o \in Orgs : AskCreate(r, u, o)
        \/ \E by, u \in Users, o \in Orgs, role \in Roles : AskAdd(r, by, o, u, role)
        \/ \E by, u \in Users, o \in Orgs, role \in Roles : AskUpdate(r, by, o, u, role)
        \/ \E by, u \in Users, o \in Orgs : AskRemove(r, by, o, u)
        \/ CommitRequest(r)
        \/ DropRequest(r)

TenancySpec == TenancyInit /\ [][TenancyNext]_tenancyVars
-----------------------------------------------------------------------------
Request == [op : {"create", "add", "update", "remove"}, org : Orgs, user : Users,
            role : Roles, seen : Row \cup {NoMembership}, current : BOOLEAN]

\* Types.
TenancyTypeOK ==
    /\ founded \subseteq Orgs /\ commits \in Nat
    /\ memberships \in [Orgs -> [Users -> Row \cup {NoMembership}]]
    /\ asked \in [Requests -> Request \cup {NoRequest}]

\* The refusal works for a request that no other one overtakes: an organization
\* loses its last admin only to a request whose count was read before another
\* request was committed.
LastAdminGoesInARace ==
    [][\A o \in founded : Admins(o) # {} /\ Admins(o)' = {} =>
        \E r \in Requests : /\ asked[r] # NoRequest /\ asked'[r] = NoRequest
                            /\ asked[r].org = o /\ ~asked[r].current]_tenancyVars
=============================================================================
