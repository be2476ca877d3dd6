--------------------------- MODULE StripeBilling ---------------------------
(***************************************************************************)
(* How Stripe's events reach one user's ENTITLEMENT item: the webhook of   *)
(* api/routers/billing.py, the catalogue of api/products.py and the        *)
(* billing transactions of shared/db.py.                                   *)
(*                                                                         *)
(* Stripe raises events as the user buys, renews and cancels.  It delivers *)
(* each of them at least once, in any order, and again until it is         *)
(* answered 200 - and stops days before the event's marker is reaped.  A   *)
(* delivery that fails before the transaction (no credentials, a bad       *)
(* signature, the table out of reach) changes nothing and is redelivered;  *)
(* one that fails after it is redelivered and found to be a duplicate.     *)
(* An event that names no user, or no product of the catalogue, is         *)
(* answered 200 with nothing granted.                                      *)
(* What reaches the account's credits implements CreditLedger.             *)
(***************************************************************************)
EXTENDS Integers, FiniteSetsExt

CONSTANTS
    Pack,                  \* one-off purchases of a credit pack
    Subscription,          \* subscriptions the user may take out
    PlanOf,                \* the plan of each subscription's product
    CreditsOf,             \* the credits of each purchase, or of one period
    NoUser,                \* events whose object carries no cognito_sub
    NoProduct,             \* events whose product the catalogue does not resolve
    LastPeriod,            \* bound: renewals of a subscription
    FreeSignupCredits

FreePlan == "free"         \* DEFAULT_PLAN

(***************************************************************************)
(* The three event types the webhook handles.  Period 0 is a               *)
(* subscription's opening period: Stripe raises both a completed checkout  *)
(* and an invoice for it, which always says billing_reason                 *)
(* "subscription_create".  The invoice of a pack is of no subscription.    *)
(***************************************************************************)
Checkout(x)   == [type |-> "checkout.session.completed", of |-> x, period |-> 0]
Invoice(x, n) == [type |-> "invoice.paid", of |-> x, period |-> n]
Deleted(s)    == [type |-> "customer.subscription.deleted", of |-> s, period |-> 0]

Event ==
    {Checkout(x) : x \in Pack \union Subscription}
    \union {Invoice(x, 0) : x \in Pack \union Subscription}
    \union {Invoice(s, n) : s \in Subscription, n \in 1..LastPeriod}
    \union {Deleted(s) : s \in Subscription}

ASSUME BillingAssumption ==
    /\ Pack \intersect Subscription = {}
    /\ CreditsOf \in [Pack \union Subscription -> Nat \ {0}]
    /\ FreePlan \notin {PlanOf[s] : s \in Subscription}
    /\ NoUser \subseteq Event /\ NoProduct \subseteq Event
    /\ LastPeriod \in Nat
    /\ FreeSignupCredits \in Nat

\* The period of which purchase an event is about.
PeriodOf(e) == <<e.of, e.period>>

VARIABLES
    provisioned,           \* does the ENTITLEMENT item exist?
    available,             \* ENTITLEMENT.available
    plan,                  \* ENTITLEMENT.plan
    periodEnd,             \* ENTITLEMENT.period_end: a period, 0 if removed
    subItem,               \* the SUB# items
    markers,               \* the EVENT# markers not reaped yet
    applied,               \* history: events whose transaction went through
    raised,                \* events Stripe has raised
    earlier,               \* the plan events of the backlog older than each
    reordered,             \* history: a plan event overtook an earlier one
    overlapped,            \* history: two subscriptions were live at once
    granted                \* history: credits ever granted

entitlement == <<provisioned, available, plan, periodEnd, subItem>>
stripe      == <<raised, overlapped>>
billingVars == <<entitlement, markers, applied, earlier, reordered, stripe, granted>>

Absent == [plan |-> "absent", period_end |-> 0]

BillingInit ==
    /\ provisioned = FALSE
    /\ available = 0
    /\ plan = FreePlan
    /\ periodEnd = 0
    /\ subItem = [s \in Subscription |-> Absent]
    /\ markers = {}
    /\ applied = {}
    /\ raised = {}
    /\ earlier = [e \in Event |-> {}]
    /\ reordered = FALSE
    /\ overlapped = FALSE
    /\ granted = 0

(***************************************************************************)
(* The handlers' early returns.                                            *)
(***************************************************************************)
\* _user_from: the sub, in one of the places the object may carry it.
HasUser(e) == e \notin NoUser

\* by_key, by_price_id: a checkout may name no product or one that has left the
\* catalogue, and the catalogue may lack the price of an invoice's line item.
InCatalogue(e) == e \notin NoProduct

\* _subscription_id_from: a one-off payment also produces an invoice.
OfSubscription(e) == e.of \in Subscription

\* Faulty: every paid invoice grants, the opening one too; or, the reference to
\* the subscription read where this API version does not put it, none does.
GrantsAnyInvoice(e) == OfSubscription(e) /\ InCatalogue(e)
GrantsNoInvoice(e) == FALSE

\* _handle_invoice_paid: "not-a-subscription", "first-period" - the checkout
\* grants that one - and "unknown-product" grant nothing.
GrantsInvoice(e) == OfSubscription(e) /\ e.period > 0 /\ InCatalogue(e)

\* Does the event get as far as a transaction?  "no-user" never does, and a
\* cancellation needs no product.
Transacts(e) ==
    /\ HasUser(e)
    /\ e.type = "checkout.session.completed" => InCatalogue(e)
    /\ e.type = "invoice.paid" => GrantsInvoice(e)

Grants(e) == e.type # "customer.subscription.deleted"

IsPlanEvent(e) == OfSubscription(e) /\ Transacts(e)

\* The plan events raised and not applied yet.
Backlog == {e \in raised \ applied : IsPlanEvent(e)}

(***************************************************************************)
(* Stripe.                                                                 *)
(***************************************************************************)
Live == {s \in Subscription : Checkout(s) \in raised /\ Deleted(s) \notin raised}

Raise(events) ==
    /\ raised' = raised \union events
    /\ earlier' = [e \in Event |-> IF e \in events /\ IsPlanEvent(e) THEN Backlog
                                                                    ELSE earlier[e]]
    /\ UNCHANGED <<entitlement, markers, applied, reordered, granted>>

\* POST /billing/checkout sends the user to a hosted page for a product the
\* catalogue has; what is paid there, or at a page of another making, comes back
\* as events.
BuyPack(p) ==
    /\ Checkout(p) \notin raised
    /\ Raise({Checkout(p), Invoice(p, 0)})
    /\ UNCHANGED overlapped

Subscribe(s) ==
    /\ Checkout(s) \notin raised
    /\ Raise({Checkout(s), Invoice(s, 0)})
    /\ overlapped' = (overlapped \/ Live # {})

Renew(s, n) ==
    /\ s \in Live
    /\ Invoice(s, n - 1) \in raised /\ Invoice(s, n) \notin raised
    /\ Raise({Invoice(s, n)})
    /\ UNCHANGED overlapped

Cancel(s) ==
    /\ s \in Live
    /\ Raise({Deleted(s)})
    /\ UNCHANGED overlapped

(***************************************************************************)
(* The webhook.                                                            *)
(***************************************************************************)
\* Faulty: an event redelivered after its marker is gone.
DeliverableForEver(e) == e \in raised

\* Stripe redelivers for days; the marker lives for EVENT_TTL_DAYS.
Deliverable(e) == e \in raised /\ (e \in applied => e \in markers)

\* initialize_user, from the signup trigger or the first GET /account.
InitializeUser ==
    /\ ~provisioned
    /\ provisioned' = TRUE
    /\ available' = FreeSignupCredits
    /\ granted' = granted + FreeSignupCredits
    /\ UNCHANGED <<plan, periodEnd, subItem, markers, applied, earlier, reordered,
                   stripe>>

\* _run_billing_transaction: the marker, if absent, with the entitlement.
Transact(e, credits) ==
    /\ e \notin markers
    /\ markers' = markers \union {e}
    /\ applied' = applied \union {e}
    /\ provisioned' = TRUE
    /\ available' = available + credits
    /\ granted' = granted + credits
    /\ UNCHANGED stripe

\* The event leaves the backlog; it may have overtaken earlier ones.
Overtake(e) ==
    /\ earlier' = [d \in Event |-> IF d = e THEN {} ELSE earlier[d] \ {e}]
    /\ reordered' = (reordered \/ earlier[e] # {})

\* apply_subscription_update: a period_end of None removes the attribute, and
\* the SUB# item is put whatever it held.
ApplySubscription(e, newPlan, end, credits) ==
    /\ Transact(e, credits)
    /\ plan' = newPlan
    /\ periodEnd' = end
    /\ subItem' = [subItem EXCEPT ![e.of] = [plan |-> newPlan, period_end |-> end]]
    /\ Overtake(e)

\* _period_end_from: an invoice has it on its line item; a completed checkout
\* carries no current_period_end, and a cancellation has none.
PeriodEndOf(e) == IF e.type = "invoice.paid" THEN e.period ELSE 0

\* Faulty: a cancellation that only removes the period.
CancelPeriodOnly(e) ==
    /\ e.type = "customer.subscription.deleted" /\ HasUser(e)
    /\ ApplySubscription(e, plan, 0, 0)

\* checkout.session.completed of a credit pack: apply_stripe_credit.
CompletePack(e) ==
    /\ e.type = "checkout.session.completed" /\ e.of \in Pack
    /\ HasUser(e) /\ InCatalogue(e)
    /\ Transact(e, CreditsOf[e.of])
    /\ UNCHANGED <<plan, periodEnd, subItem, earlier, reordered>>

\* ... and of a subscription.
CompleteSubscription(e) ==
    /\ e.type = "checkout.session.completed" /\ e.of \in Subscription
    /\ HasUser(e) /\ InCatalogue(e)
    /\ ApplySubscription(e, PlanOf[e.of], PeriodEndOf(e), CreditsOf[e.of])

\* invoice.paid of a renewal, its product resolved from the line items.
InvoicePaid(e) ==
    /\ e.type = "invoice.paid" /\ HasUser(e) /\ GrantsInvoice(e)
    /\ ApplySubscription(e, PlanOf[e.of], PeriodEndOf(e), CreditsOf[e.of])

\* customer.subscription.deleted, whichever subscription it was.
SubscriptionDeleted(e) ==
    /\ e.type = "customer.subscription.deleted" /\ HasUser(e)
    /\ ApplySubscription(e, FreePlan, 0, 0)

\* One delivery that gets something done.  Any other changes nothing: it failed,
\* found the marker, or took an early return, which is answered 200 as well.
Deliver(e) ==
    /\ Deliverable(e)
    /\ \/ CompletePack(e)
       \/ CompleteSubscription(e)
       \/ InvoicePaid(e)
       \/ SubscriptionDeleted(e)

\* DynamoDB's TTL reaps the marker: 30 days, when Stripe has long given up.
ReapMarker(e) ==
    /\ e \in markers
    /\ markers' = markers \ {e}
    /\ UNCHANGED <<entitlement, applied, earlier, reordered, stripe, granted>>

Purchase ==
    \/ \E p \in Pack : BuyPack(p)
    \/ \E s \in Subscription :
          Subscribe(s) \/ Cancel(s) \/ \E n \in 1..LastPeriod : Renew(s, n)

BillingNext ==
    \/ Purchase
    \/ InitializeUser
    \/ \E e \in raised : Deliver(e) \/ ReapMarker(e)

BillingSpec == BillingInit /\ [][BillingNext]_billingVars

\* Stripe redelivers what was not answered, and one delivery gets through.
FairBillingSpec == BillingSpec /\ \A e \in Event : WF_billingVars(Deliver(e))

(***************************************************************************)
(* Properties.                                                             *)
(***************************************************************************)

Plan == {FreePlan} \union {PlanOf[s] : s \in Subscription}

\* The items and the history are what the webhook can make them; an event of
\* the backlog is older than others of the backlog only.
BillingTypeOK ==
    /\ provisioned \in BOOLEAN
    /\ available \in Nat /\ granted \in Nat
    /\ plan \in Plan
    /\ periodEnd \in 0..LastPeriod
    /\ subItem \in [Subscription -> [plan : Plan \union {"absent"},
                                   period_end : 0..LastPeriod]]
    /\ markers \subseteq applied /\ applied \subseteq raised /\ raised \subseteq Event
    /\ earlier \in [Event -> SUBSET Backlog]
    /\ reordered \in BOOLEAN /\ overlapped \in BOOLEAN

\* The credits of a purchase, or of one period of a subscription, are granted
\* once, however many events Stripe raises for it ("granting here as well
\* would double the first period") and however often it delivers them.
Paid(purchases) == FoldSet(LAMBDA p, sum : sum + CreditsOf[p[1]], 0, purchases)

EachPeriodGrantedOnce ==
    LET paid == Paid({PeriodOf(e) : e \in {a \in applied : Grants(a)}})
    IN  available \in {paid, paid + FreeSignupCredits}

\* The billing items keep their types, and each period its one grant.
BillingInv == BillingTypeOK /\ EachPeriodGrantedOnce

\* The plan is that of the live subscription, and free without one, once every
\* plan event is applied - unless Stripe's deliveries overtook one another, two
\* subscriptions overlapped, when the cancellation of one, which does not ask
\* which subscription the plan is from, ends the plan of both, or the start or
\* the end of one was answered 200 with nothing done.
PlanOfAccount == IF Live = {} THEN FreePlan ELSE PlanOf[CHOOSE s \in Live : TRUE]

Overlooked ==
    \E e \in raised : OfSubscription(e) /\ e.type # "invoice.paid" /\ ~Transacts(e)

PlanFollowsSubscription ==
    Backlog = {} /\ ~reordered /\ ~overlapped /\ ~Overlooked => plan = PlanOfAccount

\* Every purchase, and every period of a subscription, that was paid for is
\* granted in the end: a pack and an opening period by the checkout, whatever
\* their invoice says ("the session is the event a Checkout purchase always
\* produces, so it is the one that grants"), a renewal by its invoice.  What that
\* event may lack is a user - "a paying customer got nothing and needs manual
\* repair" - or a product of the catalogue: it is then answered 200, and nothing
\* else grants.
GrantedBy(x, n) == IF n = 0 THEN Checkout(x) ELSE Invoice(x, n)

IsDue(x, n) ==
    Invoice(x, n) \in raised /\ HasUser(GrantedBy(x, n)) /\ InCatalogue(GrantedBy(x, n))

PaidPeriodIsGranted ==
    \A x \in Pack \union Subscription : \A n \in 0..LastPeriod :
        IsDue(x, n) ~> \E e \in applied : PeriodOf(e) = <<x, n>>

\* The ledger is granted each event once, though markers are reaped.
Ledger == INSTANCE CreditLedger WITH
    Job <- {}, frozen <- 0, status <- [j \in {} |-> "ABSENT"],
    markers <- applied,
    CreditsOf <- [e \in Event |-> IF Grants(e) THEN CreditsOf[e.of] ELSE 0]

GrantsImplementLedger == Ledger!LedgerSpec
=============================================================================
