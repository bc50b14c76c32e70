-------------------------------- MODULE Plans --------------------------------
(***************************************************************************)
(* Accounts, what they pay for and what that lets them do: signing up      *)
(* (api/routes/auth.py), the subscription at Stripe and its webhooks       *)
(* (api/routes/stripe_routes.py), the follows a free account may keep      *)
(* (api/routes/follows.py) and the alert run that reads both               *)
(* (workers/alert_worker.py).  Stripe is external: it sends the notices of *)
(* an account in an order, and delivers each at least once in any order.   *)
(***************************************************************************)
EXTENDS Naturals, Sequences, FiniteSets, SequencesExt

CONSTANTS
    Accounts,
    Beta,       \* addresses of _BETA_ACCOUNTS
    Situations, \* events to follow
    FollowLimit,\* FREE_TIER_FOLLOW_LIMIT
    Posts,      \* follow requests that may be under way at once
    MaxActs, MaxRedelivered \* bounds, the first on what Stripe and the followers do together

ASSUME PlansAssumption == Beta \subseteq Accounts /\ FollowLimit \in Nat

VARIABLES
    account,   \* "none", "shell" (no password yet) or "password"
    tier,
    customer,  \* accounts with a stripe_customer_id
    subscription,           \* at Stripe
    notices, redelivered,   \* webhooks not acknowledged; repeats so far
    orderly,   \* history: accounts whose notices all came once and in order
    follows,   \* active rows per account and event
    posts,     \* what each follow request has read; `current` is history
    muted,     \* event_alerts switched off
    metric,    \* of the last alert run
    acts

billingVars == <<customer, subscription, notices, redelivered, orderly>>
followVars == <<follows, posts>>
plansVars == <<account, tier, billingVars, followVars, muted, metric, acts>>

NoPost == [pc |-> "idle"]
-----------------------------------------------------------------------------
PlansInit ==
    /\ account \in [Accounts -> {"none", "shell"}]
    /\ tier \in [Accounts -> {"free", "enterprise"}]
    /\ \A a \in Accounts : account[a] = "none" => tier[a] = "free"
    /\ customer = {} /\ subscription = [a \in Accounts |-> "none"]
    /\ notices = [a \in Accounts |-> <<>>] /\ redelivered = 0
    /\ orderly = Accounts
    /\ follows = [a \in Accounts |-> [s \in Situations |-> 0]]
    /\ posts = [p \in Posts |-> NoPost]
    /\ muted = {}
    /\ metric = [sent |-> 0, errors |-> 0]
    /\ acts = 0

\* signup: an account without a password is claimed with its tier.
Signup(a) ==
    /\ account[a] # "password"
    /\ account' = [account EXCEPT ![a] = "password"]
    /\ UNCHANGED <<tier, billingVars, followVars, muted, metric, acts>>

\* Signing in to a beta address creates the account and pins its tier.
ProvisionBeta(a) ==
    /\ a \in Beta
    /\ account' = [account EXCEPT ![a] = IF @ = "none" THEN "shell" ELSE @]
    /\ tier' = [tier EXCEPT ![a] = "enterprise"]
    /\ UNCHANGED <<billingVars, followVars, muted, metric, acts>>

\* PATCH /users/me.
SwitchAlerts(a) ==
    /\ account[a] # "none"
    /\ muted' = (muted \cup {a}) \ (muted \cap {a})
    /\ UNCHANGED <<account, tier, billingVars, followVars, metric, acts>>
-----------------------------------------------------------------------------
\* The customer is committed before the session that can lead to a payment.
Checkout(a) ==
    /\ account[a] # "none" /\ tier[a] # "paid"
    /\ customer' = customer \cup {a}
    /\ UNCHANGED <<account, tier, subscription, notices, redelivered, orderly,
                   followVars, muted, metric, acts>>

\* What Stripe does and the notices it sends about it, oldest first.
StripeTurns ==
    {[from |-> {"none", "canceled"}, to |-> "active",
      says |-> <<"incomplete", "succeeded", "active", "completed">>],
     [from |-> {"active"}, to |-> "past_due", says |-> <<"failed", "past_due">>],
     [from |-> {"past_due"}, to |-> "active", says |-> <<"succeeded", "active">>],
     [from |-> {"past_due"}, to |-> "unpaid", says |-> <<"unpaid">>],
     [from |-> {"active", "past_due", "unpaid"}, to |-> "canceled", says |-> <<"deleted">>]}

StripeActs(a) ==
    \E t \in StripeTurns :
        /\ a \in customer /\ subscription[a] \in t.from /\ acts < MaxActs
        /\ subscription' = [subscription EXCEPT ![a] = t.to]
        /\ notices' = [notices EXCEPT ![a] = @ \o t.says]
        /\ acts' = acts + 1
        /\ UNCHANGED <<account, tier, customer, redelivered, orderly, followVars, muted, metric>>

TierKept(now, notice) == \* mutant: a lapsed subscription is only logged
    IF notice \in {"completed", "active", "succeeded"} THEN "paid"
    ELSE IF notice = "deleted" THEN "free" ELSE now
\* The five handlers: what a notice makes of the tier.
TierAfter(now, notice) ==
    IF notice \in {"completed", "active", "succeeded"} THEN "paid"
    ELSE IF notice \in {"canceled", "unpaid", "past_due", "deleted"} THEN "free"
    ELSE now \* a failed payment is logged, another status changes nothing

Overtaken == [p \in Posts |-> IF posts[p] = NoPost THEN NoPost ELSE [posts[p] EXCEPT !.current = FALSE]]

\* A webhook is handled and committed.  Acknowledged it is gone; if the answer is
\* lost Stripe sends it again.
Webhook(a, i, acknowledged) ==
    /\ i \in DOMAIN notices[a]
    /\ tier' = [tier EXCEPT ![a] = TierAfter(@, notices[a][i])]
    /\ acknowledged \/ redelivered < MaxRedelivered
    /\ notices' = IF acknowledged THEN [notices EXCEPT ![a] = RemoveAt(@, i)] ELSE notices
    /\ redelivered' = IF acknowledged THEN redelivered ELSE redelivered + 1
    /\ orderly' = IF acknowledged /\ i = 1 THEN orderly ELSE orderly \ {a}
    /\ posts' = Overtaken
    /\ UNCHANGED <<account, customer, subscription, follows, muted, metric, acts>>
-----------------------------------------------------------------------------
\* The active rows of an account, one by one: an event may have several.
FollowRows(rows) == UNION {{s} \X (1 .. rows[s]) : s \in Situations}
FollowCount(rows) == Cardinality(FollowRows(rows))
Followed(a) == FollowCount(follows[a])

UnlimitedPlan(a) == TRUE \* mutant: the limit is not looked at
WithinPlan(a) == tier[a] = "free" => Followed(a) < FollowLimit

\* create_follow reads: a second active row for the event is refused, and so is
\* every request for it once there are two, by an error.
AskFollow(p, a, s) ==
    /\ posts[p] = NoPost /\ account[a] # "none" /\ acts < MaxActs
    /\ WithinPlan(a)
    /\ follows[a][s] = 0
    /\ posts' = [posts EXCEPT ![p] = [pc |-> "read", account |-> a, event |-> s, current |-> TRUE]]
    /\ acts' = acts + 1
    /\ UNCHANGED <<account, tier, billingVars, follows, muted, metric>>

AddFollow(p) ==
    /\ posts[p] # NoPost
    /\ follows' = [follows EXCEPT ![posts[p].account][posts[p].event] = @ + 1]
    /\ posts' = [Overtaken EXCEPT ![p] = NoPost]
    /\ UNCHANGED <<account, tier, billingVars, muted, metric, acts>>

DeleteFollow(a, s) ==
    /\ follows[a][s] > 0
    /\ follows' = [follows EXCEPT ![a][s] = @ - 1]
    /\ UNCHANGED <<account, tier, billingVars, posts, muted, metric, acts>>

\* Follows of recently updated, mapped events that the run tries to alert.
\* Everyone is taken to have a device token.
Alerted(recent) ==
    {f \in Accounts \X recent : follows[f[1]][f[2]] > 0 /\ tier[f[1]] # "free" /\ f[1] \notin muted}

\* The score in the payload comes from a relationship nothing has loaded, which an
\* asynchronous session refuses to load: every attempt ends in the handler that
\* counts errors, and nothing is sent.
RunAlerts(recent) ==
    /\ recent # {}
    /\ metric' = [sent |-> 0,
                  errors |-> FoldSet(LAMBDA f, n : follows[f[1]][f[2]] + n, 0, Alerted(recent))]
    /\ UNCHANGED <<account, tier, billingVars, followVars, muted, acts>>

PlansNext ==
    \/ \E a \in Accounts :
        \/ Signup(a)
        \/ ProvisionBeta(a)
        \/ SwitchAlerts(a)
        \/ Checkout(a)
        \/ StripeActs(a)
        \/ \E i \in DOMAIN notices[a], acknowledged \in BOOLEAN : Webhook(a, i, acknowledged)
        \/ \E s \in Situations : DeleteFollow(a, s) \/ \E p \in Posts : AskFollow(p, a, s)
    \/ \E p \in Posts : AddFollow(p)
    \/ \E recent \in SUBSET Situations : RunAlerts(recent)

PlansSpec == PlansInit /\ [][PlansNext]_plansVars
-----------------------------------------------------------------------------
\* stripe_routes.py:132, "each event is a state transition": an account whose
\* notices came once and in order has the plan its subscription pays for when the
\* last of them is handled.  Beta addresses are pinned to a plan of their own.
PlanFollowsSubscription ==
    \A a \in orderly \ Beta :
        notices[a] = <<>> /\ subscription[a] # "none" =>
            (tier[a] = "paid" <=> subscription[a] = "active")

\* A free account gets past its limit, or an account gets a second row for an
\* event, only by a request that something committed after its reads.
LimitsBreakInARace ==
    [][\A p \in Posts : posts[p] # NoPost /\ posts'[p] = NoPost /\ posts[p].current =>
        LET a == posts[p].account
        IN  /\ tier[a] = "free" => FollowCount(follows'[a]) <= FollowLimit
            /\ follows'[a][posts[p].event] = 1]_plansVars
=============================================================================
