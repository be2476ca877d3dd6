------------------------- MODULE StripeBillingProofs -------------------------
(***************************************************************************)
(* Proofs about Stripe's events and the billing items, for any number of   *)
(* packs, subscriptions, periods and credits.                              *)
(***************************************************************************)
EXTENDS StripeBilling, FiniteSetTheorems, WellFoundedInduction, TLAPS

\* What the plan is once a plan event is applied.
PlanAfter(e) ==
    IF e.type = "customer.subscription.deleted" THEN FreePlan ELSE PlanOf[e.of]

\* The newest event of the backlog is older than no other of it.
Newest(e) == e \in Backlog /\ \A d \in Backlog : e \notin earlier[d]

EventsOK ==
    /\ \A e \in applied : Transacts(e)
    /\ \A s \in Subscription : Deleted(s) \in raised => Checkout(s) \in raised
    /\ ~overlapped => \A s, t \in Live : s = t

\* Applied in order, the backlog leads to the plan of the account.
PlansOK ==
    ~reordered /\ ~overlapped /\ ~Overlooked =>
        /\ Backlog = {} => plan = PlanOfAccount
        /\ \A e \in Event : Newest(e) => PlanAfter(e) = PlanOfAccount

\* The periods of the purchases whose credits have been granted.
PaidFor == {PeriodOf(e) : e \in {a \in applied : Grants(a)}}

MoneyOK ==
    /\ IsFiniteSet(PaidFor)
    /\ ~provisioned => applied = {} /\ available = 0
    /\ EachPeriodGrantedOnce

\* The inductive invariant of the billing items.
IInv == BillingTypeOK /\ EventsOK /\ PlansOK /\ MoneyOK

----------------------------------------------------------------------------
(* The sum of what is paid, without an order to count it in. *)

\* The member of a set that a fold takes first.
First(s) == CHOOSE x \in s : TRUE

\* f is the fold over the subsets of S.
SumsTo(f, S) ==
    f = [s \in SUBSET S |->
            IF s = {} THEN 0 ELSE f[s \ {First(s)}] + CreditsOf[First(s)[1]]]

\* The sum is such a fold.
LEMMA PaidIsSum == ASSUME NEW S PROVE Paid(S) = (CHOOSE f : SumsTo(f, S))[S]
BY DEF Paid, FoldSet, MapThenFoldSet, SumsTo, First

\* A family of finite sets has one that no other of the family is a part of.
LEMMA SmallestSet ==
    ASSUME NEW S, IsFiniteSet(S), NEW T \in SUBSET SUBSET S, T # {}
    PROVE  \E s \in T : IsFiniteSet(s) /\ \A t \in T : t \subseteq s => t = s
<1>1. \A s \in SUBSET S : IsFiniteSet(s) BY FS_Subset
<1>2. T \subseteq FiniteSubsetsOf(S) BY <1>1 DEF FiniteSubsetsOf
<1>3. IsWellFoundedOn(StrictSubsetOrdering(S), FiniteSubsetsOf(S))
  BY FS_StrictSubsetOrderingWellFounded
<1>4. PICK s \in T : \A t \in T : ~(<<t, s>> \in StrictSubsetOrdering(S))
  BY <1>2, <1>3, WFMin
<1>5. ASSUME NEW t \in T, t \subseteq s PROVE t = s
  <2>1. <<t, s>> \in (SUBSET S) \X (SUBSET S) OBVIOUS
  <2> QED BY <1>4, <1>5, <2>1 DEF StrictSubsetOrdering
<1> QED BY <1>1, <1>5

\* The definition of the fold at one set.
LEMMA SumAt ==
    ASSUME NEW S, NEW f, SumsTo(f, S), NEW s \in SUBSET S
    PROVE  /\ s = {} => f[s] = 0
           /\ s # {} => /\ First(s) \in s
                        /\ f[s] = f[s \ {First(s)}] + CreditsOf[First(s)[1]]
<1>1. f[s] = IF s = {} THEN 0 ELSE f[s \ {First(s)}] + CreditsOf[First(s)[1]]
  BY DEF SumsTo
<1>2. s # {} => First(s) \in s BY DEF First
<1> QED BY <1>1, <1>2

\* Two folds agree wherever both are defined.
LEMMA SumsAgree ==
    ASSUME NEW A, IsFiniteSet(A), NEW B, NEW f, SumsTo(f, A), NEW g, SumsTo(g, B),
           NEW u \in SUBSET A, u \in SUBSET B
    PROVE  f[u] = g[u]
<1> DEFINE Bad == {s \in SUBSET A : s \in SUBSET B /\ f[s] # g[s]}
<1> SUFFICES ASSUME Bad # {} PROVE FALSE OBVIOUS
<1>1. PICK s \in Bad : \A t \in Bad : t \subseteq s => t = s
  <2>1. Bad \in SUBSET SUBSET A OBVIOUS
  <2> HIDE DEF Bad
  <2> QED BY <2>1, SmallestSet
<1>2. s \in SUBSET A /\ s \in SUBSET B /\ f[s] # g[s] OBVIOUS
<1>3. CASE s = {} BY <1>2, <1>3, SumAt
<1>4. CASE s # {}
  <2>1. /\ First(s) \in s
        /\ f[s] = f[s \ {First(s)}] + CreditsOf[First(s)[1]]
        /\ g[s] = g[s \ {First(s)}] + CreditsOf[First(s)[1]]
    BY <1>2, <1>4, SumAt
  <2>2. s \ {First(s)} \notin Bad BY <1>1, <2>1
  <2>3. s \ {First(s)} \in SUBSET A /\ s \ {First(s)} \in SUBSET B BY <1>2
  <2>4. f[s \ {First(s)}] = g[s \ {First(s)}] BY <2>2, <2>3
  <2> QED BY <1>2, <2>1, <2>4
<1> QED BY <1>3, <1>4

\* Every finite set has a fold.
LEMMA SumsExist ==
    ASSUME NEW S, IsFiniteSet(S) PROVE \E f : SumsTo(f, S)
<1> DEFINE Bad == {s \in SUBSET S : ~\E f : SumsTo(f, s)}
<1> SUFFICES ASSUME Bad # {} PROVE FALSE OBVIOUS
<1>1. PICK s \in Bad : IsFiniteSet(s) /\ \A t \in Bad : t \subseteq s => t = s
  <2>1. Bad \in SUBSET SUBSET S OBVIOUS
  <2> HIDE DEF Bad
  <2> QED BY <2>1, SmallestSet
<1> DEFINE fold(t) == CHOOSE f : SumsTo(f, t)
           Sum(t)  == fold(t)[t]
           g == [t \in SUBSET s |->
                    IF t = s /\ s # {}
                    THEN Sum(s \ {First(s)}) + CreditsOf[First(s)[1]] ELSE Sum(t)]
<1>2. \A t \in SUBSET s : t # s => SumsTo(fold(t), t)
  <2> SUFFICES ASSUME NEW t \in SUBSET s, t # s PROVE SumsTo(fold(t), t) OBVIOUS
  <2>1. t \notin Bad /\ t \in SUBSET S BY <1>1
  <2>2. \E f : SumsTo(f, t) BY <2>1
  <2> QED BY <2>2
<1>3. s # {}
  <2> SUFFICES ASSUME s = {} PROVE FALSE OBVIOUS
  <2> DEFINE z == [t \in SUBSET s |-> 0]
  <2>1. SumsTo(z, s) BY DEF SumsTo
  <2> QED BY <2>1
<1>4. ASSUME NEW t \in SUBSET s
      PROVE  g[t] = IF t = {} THEN 0 ELSE g[t \ {First(t)}] + CreditsOf[First(t)[1]]
  <2>1. t # {} => First(t) \in t /\ t \ {First(t)} \in SUBSET s /\ t \ {First(t)} # s
    BY DEF First
  <2>2. CASE t = s
    <3>1. g[t] = Sum(t \ {First(t)}) + CreditsOf[First(t)[1]] BY <1>3, <2>2
    <3>2. g[t \ {First(t)}] = Sum(t \ {First(t)}) BY <1>3, <2>1, <2>2
    <3> QED BY <1>3, <2>2, <3>1, <3>2
  <2>3. CASE t # s
    <3>1. g[t] = Sum(t) /\ SumsTo(fold(t), t) BY <1>2, <2>3
    <3>2. CASE t = {}
      <4> HIDE DEF g, fold
      <4> QED BY <3>1, <3>2, SumAt
    <3>3. CASE t # {}
      <4> DEFINE r == t \ {First(t)}
      <4>1. r \in SUBSET t /\ r \in SUBSET s /\ r # s BY <2>1, <3>3
      <4>2. g[r] = Sum(r) /\ SumsTo(fold(r), r) BY <1>2, <4>1
      <4>3. IsFiniteSet(t) BY <1>1, FS_Subset
      <4> HIDE DEF g, fold
      <4>4. fold(t)[r] = fold(r)[r]
        <5>1. SumsTo(fold(t), t) /\ IsFiniteSet(t)
          BY <3>1, <4>3
        <5>2. r \in SUBSET t /\ r \in SUBSET r
          BY <4>1
        <5>3. SumsTo(fold(r), r)
          BY <4>2
        <5> HIDE DEF r
        <5> QED
          BY <5>1, <5>2, <5>3, SumsAgree
      <4>5. fold(t)[t] = fold(t)[r] + CreditsOf[First(t)[1]] BY <3>1, <3>3, SumAt
      <4> QED BY <3>1, <3>3, <4>2, <4>4, <4>5
    <3> QED BY <3>2, <3>3
  <2> QED BY <2>2, <2>3
<1>5. SumsTo(g, s)
  <2>1. g = [t \in SUBSET s |-> g[t]] OBVIOUS
  <2> HIDE DEF g
  <2> QED BY <1>4, <2>1 DEF SumsTo
<1> QED BY <1>5

\* What is paid for a set is what is paid for the set without its first, and that.
LEMMA PaidUnfolds ==
    ASSUME NEW S, IsFiniteSet(S)
    PROVE  /\ Paid({}) = 0
           /\ S # {} => /\ First(S) \in S
                        /\ Paid(S) = Paid(S \ {First(S)}) + CreditsOf[First(S)[1]]
<1> DEFINE fold(t) == CHOOSE f : SumsTo(f, t)
<1>1. \A t \in SUBSET S : IsFiniteSet(t) /\ SumsTo(fold(t), t) /\ Paid(t) = fold(t)[t]
  BY FS_Subset, SumsExist, PaidIsSum
<1> HIDE DEF fold
<1>2. Paid({}) = 0
  <2>1. {} \in SUBSET S /\ {} \in SUBSET {} OBVIOUS
  <2>2. SumsTo(fold({}), {}) /\ Paid({}) = fold({})[{}] BY <1>1, <2>1
  <2> QED BY <2>1, <2>2, SumAt
<1>3. ASSUME S # {}
      PROVE /\ First(S) \in S /\ Paid(S) = Paid(S \ {First(S)}) + CreditsOf[First(S)[1]]
  <2> DEFINE r == S \ {First(S)}
  <2>1. S \in SUBSET S /\ r \in SUBSET S /\ r \in SUBSET r OBVIOUS
  <2>2. First(S) \in S /\ fold(S)[S] = fold(S)[r] + CreditsOf[First(S)[1]]
    BY <1>1, <1>3, <2>1, SumAt
  <2>3. fold(S)[r] = fold(r)[r] BY <1>1, <2>1, SumsAgree
  <2> QED BY <1>1, <2>1, <2>2, <2>3
<1> QED BY <1>2, <1>3

\* It does not matter in which order they are counted.
LEMMA PaidWithout ==
    ASSUME NEW S \in SUBSET ((Pack \union Subscription) \X Nat), IsFiniteSet(S)
    PROVE  /\ Paid(S) \in Nat
           /\ \A x \in S : Paid(S) = Paid(S \ {x}) + CreditsOf[x[1]]
<1> DEFINE Good(s) == /\ Paid(s) \in Nat
                      /\ \A x \in s : Paid(s) = Paid(s \ {x}) + CreditsOf[x[1]]
           Bad == {s \in SUBSET S : ~Good(s)}
<1> SUFFICES ASSUME Bad # {} PROVE FALSE OBVIOUS
<1>1. PICK s \in Bad : IsFiniteSet(s) /\ \A t \in Bad : t \subseteq s => t = s
  <2>1. Bad \in SUBSET SUBSET S OBVIOUS
  <2> HIDE DEF Bad
  <2> QED BY <2>1, SmallestSet
<1>2. s \in SUBSET S /\ ~Good(s) OBVIOUS
<1>3. \A t \in SUBSET s : t # s => Good(t) BY <1>1
<1>4. \A x \in s : CreditsOf[x[1]] \in Nat
  <2>1. \A x \in s : x \in (Pack \union Subscription) \X Nat BY <1>2
  <2> QED BY <2>1, BillingAssumption
<1> HIDE DEF Bad, Good
<1>5. s # {}
  <2>1. Paid({}) = 0 BY PaidUnfolds, FS_EmptySet
  <2>2. Good({}) BY <2>1 DEF Good
  <2> QED BY <1>2, <2>2
<1> DEFINE f == First(s)
           r == s \ {f}
<1>6. f \in s /\ Paid(s) = Paid(r) + CreditsOf[f[1]] BY <1>1, <1>5, PaidUnfolds
<1>7. r \in SUBSET s /\ r # s BY <1>6
<1>8. Good(r) BY <1>3, <1>7
<1> HIDE DEF f
<1>9. ASSUME NEW x \in s PROVE Paid(s) = Paid(s \ {x}) + CreditsOf[x[1]]
  <2>1. CASE x = f BY <1>6, <2>1
  <2>2. CASE x # f
    <3> DEFINE q == s \ {x}
    <3>1. x \in r /\ q \in SUBSET s /\ q # s /\ f \in q /\ r \ {x} = q \ {f}
      BY <1>6, <2>2
    <3>2. Good(q) /\ Good(q \ {f})
      BY <1>3, <3>1
    <3>3. Paid(r) = Paid(r \ {x}) + CreditsOf[x[1]] BY <1>8, <3>1 DEF Good
    <3>4. /\ Paid(q) = Paid(q \ {f}) + CreditsOf[f[1]]
          /\ Paid(q \ {f}) \in Nat
      BY <3>1, <3>2 DEF Good
    <3>5. Paid(s) = (Paid(q \ {f}) + CreditsOf[x[1]]) + CreditsOf[f[1]] BY <1>6, <3>1, <3>3
    <3>6. CreditsOf[x[1]] \in Nat /\ CreditsOf[f[1]] \in Nat BY <1>4, <1>6
    <3> QED BY <3>4, <3>5, <3>6
  <2> QED BY <2>1, <2>2
<1>10. Paid(s) \in Nat BY <1>4, <1>6, <1>8 DEF Good
<1> QED BY <1>2, <1>9, <1>10 DEF Good

----------------------------------------------------------------------------
(* Events. *)

\* What an event of each type is.
LEMMA EventFacts ==
    /\ \A x \in Pack \union Subscription :
           /\ Checkout(x) \in Event /\ Checkout(x).of = x /\ Checkout(x).period = 0
           /\ Checkout(x).type = "checkout.session.completed"
    /\ \A x \in Pack \union Subscription :
           /\ Invoice(x, 0) \in Event /\ Invoice(x, 0).of = x
           /\ Invoice(x, 0).period = 0 /\ Invoice(x, 0).type = "invoice.paid"
    /\ \A s \in Subscription, n \in 0..LastPeriod :
           /\ Invoice(s, n) \in Event /\ Invoice(s, n).of = s
           /\ Invoice(s, n).period = n /\ Invoice(s, n).type = "invoice.paid"
    /\ \A s \in Subscription :
           /\ Deleted(s) \in Event /\ Deleted(s).of = s /\ Deleted(s).period = 0
           /\ Deleted(s).type = "customer.subscription.deleted"
    /\ \A s \in Subscription : s \notin Pack
    /\ LastPeriod \in Nat
<1>1. LastPeriod \in Nat /\ \A s \in Subscription : s \notin Pack
  BY BillingAssumption
<1>2. \A x \in Pack \union Subscription :
           /\ Checkout(x) \in Event /\ Checkout(x).of = x /\ Checkout(x).period = 0
           /\ Checkout(x).type = "checkout.session.completed"
  BY DEF Event, Checkout
<1>3. \A s \in Subscription, n \in 0..LastPeriod :
           /\ Invoice(s, n) \in Event /\ Invoice(s, n).of = s
           /\ Invoice(s, n).period = n /\ Invoice(s, n).type = "invoice.paid"
  <2> TAKE s \in Subscription, n \in 0..LastPeriod
  <2>1. n = 0 \/ n \in 1..LastPeriod BY <1>1
  <2>2. Invoice(s, n) \in Event BY <2>1 DEF Event
  <2> QED BY <2>2 DEF Invoice
<1>4. \A s \in Subscription :
           /\ Deleted(s) \in Event /\ Deleted(s).of = s /\ Deleted(s).period = 0
           /\ Deleted(s).type = "customer.subscription.deleted"
  BY DEF Event, Deleted
<1>5. \A x \in Pack \union Subscription :
           /\ Invoice(x, 0) \in Event /\ Invoice(x, 0).of = x
           /\ Invoice(x, 0).period = 0 /\ Invoice(x, 0).type = "invoice.paid"
  BY DEF Event, Invoice
<1> QED BY <1>1, <1>2, <1>3, <1>4, <1>5

\* What is known of an event.
LEMMA EventCases ==
    ASSUME NEW e \in Event
    PROVE  /\ e.of \in Pack \union Subscription /\ e.period \in 0..LastPeriod
           /\ \/ e.type = "checkout.session.completed" /\ e.period = 0
                 /\ e = Checkout(e.of)
              \/ e.type = "invoice.paid" /\ e = Invoice(e.of, e.period)
              \/ e.type = "customer.subscription.deleted" /\ e.of \in Subscription
                 /\ e = Deleted(e.of)
BY BillingAssumption DEF Event, Checkout, Invoice, Deleted

\* Of two events whose transaction grants credits, no two are of one period.
LEMMA OneEventPerPeriod ==
    ASSUME NEW d \in Event, NEW e \in Event, Transacts(d), Transacts(e),
           Grants(d), Grants(e), PeriodOf(d) = PeriodOf(e)
    PROVE  d = e
<1>1. d.of = e.of /\ d.period = e.period BY DEF PeriodOf
<1>2. /\ d.type = "invoice.paid" => d.period > 0
      /\ e.type = "invoice.paid" => e.period > 0
  BY DEF Transacts, GrantsInvoice
<1> QED BY <1>1, <1>2, EventCases DEF Grants

----------------------------------------------------------------------------
(* Credits. *)

\* A transaction grants the credits of its event's period, for the first time.
LEMMA TransactPays ==
    ASSUME BillingTypeOK, EventsOK, MoneyOK, NEW e \in raised, Deliverable(e), Transacts(e),
           Transact(e, IF Grants(e) THEN CreditsOf[e.of] ELSE 0)
    PROVE  /\ MoneyOK'
           /\ provisioned' \in BOOLEAN /\ available' \in Nat /\ granted' \in Nat
           /\ e \notin applied /\ applied' = applied \union {e}
<1>0. /\ e \in Event /\ applied \subseteq Event /\ available \in Nat /\ granted \in Nat
      /\ FreeSignupCredits \in Nat
  BY BillingAssumption DEF BillingTypeOK
<1>1. e \notin applied /\ applied' = applied \union {e} /\ provisioned' = TRUE
  BY DEF Transact, Deliverable
<1>2. e.of \in Pack \union Subscription /\ e.period \in Nat
  BY <1>0, EventCases, EventFacts
<1>3. /\ CreditsOf[e.of] \in Nat
      /\ available' = available + (IF Grants(e) THEN CreditsOf[e.of] ELSE 0)
      /\ granted' = granted + (IF Grants(e) THEN CreditsOf[e.of] ELSE 0)
  BY <1>2, BillingAssumption DEF Transact
<1>4. PaidFor \in SUBSET ((Pack \union Subscription) \X Nat)
  <2>1. \A a \in applied : PeriodOf(a) \in (Pack \union Subscription) \X Nat
    BY <1>0, EventCases, EventFacts DEF PeriodOf
  <2> QED BY <2>1 DEF PaidFor
<1>5. IsFiniteSet(PaidFor) /\ available \in {Paid(PaidFor), Paid(PaidFor) + FreeSignupCredits}
  BY DEF MoneyOK, EachPeriodGrantedOnce, PaidFor
<1>6. Paid(PaidFor) \in Nat BY <1>4, <1>5, PaidWithout
<1>7. CASE ~Grants(e)
  <2>1. PaidFor' = PaidFor BY <1>1, <1>7 DEF PaidFor, PeriodOf, Grants
  <2>2. EachPeriodGrantedOnce' <=> (available' \in {Paid(PaidFor'), Paid(PaidFor') + FreeSignupCredits})
    BY DEF EachPeriodGrantedOnce, PaidFor
  <2>3. available' = available BY <1>0, <1>3, <1>7
  <2>4. EachPeriodGrantedOnce' BY <1>5, <2>1, <2>2, <2>3
  <2>5. available' \in Nat /\ granted' \in Nat BY <1>0, <1>3, <1>7
  <2> QED BY <1>1, <1>5, <2>1, <2>4, <2>5 DEF MoneyOK
<1>8. CASE Grants(e)
  <2> DEFINE p == PeriodOf(e)
             more == PaidFor \union {p}
  <2>1. PaidFor' = more BY <1>1, <1>8 DEF PaidFor, PeriodOf, Grants
  <2>2. p \notin PaidFor
    <3> SUFFICES ASSUME NEW a \in applied, Grants(a), PeriodOf(a) = p PROVE FALSE
      BY DEF PaidFor
    <3>1. Transacts(a) /\ a \in Event BY <1>0 DEF EventsOK
    <3>2. a = e BY <1>0, <1>8, <3>1, OneEventPerPeriod
    <3> QED BY <1>1, <3>2
  <2>3. p[1] = e.of /\ p \in (Pack \union Subscription) \X Nat BY <1>2 DEF PeriodOf
  <2>4. IsFiniteSet(more) /\ more \in SUBSET ((Pack \union Subscription) \X Nat)
    BY <1>4, <1>5, <2>3, FS_AddElement
  <2>5. more \ {p} = PaidFor /\ p \in more BY <2>2
  <2>6. Paid(more) = Paid(PaidFor) + CreditsOf[e.of]
    <3> HIDE DEF more, p
    <3> QED BY <2>3, <2>4, <2>5, PaidWithout
  <2> HIDE DEF more, p
  <2>7. available' \in {Paid(more), Paid(more) + FreeSignupCredits}
    BY <1>0, <1>3, <1>5, <1>6, <1>8, <2>6
  <2>8. EachPeriodGrantedOnce' <=> (available' \in {Paid(PaidFor'), Paid(PaidFor') + FreeSignupCredits})
    BY DEF EachPeriodGrantedOnce, PaidFor
  <2>9. EachPeriodGrantedOnce' BY <2>1, <2>7, <2>8
  <2>10. available' \in Nat /\ granted' \in Nat BY <1>0, <1>3, <1>8
  <2> QED BY <1>1, <2>1, <2>4, <2>9, <2>10 DEF MoneyOK
<1> QED BY <1>7, <1>8

----------------------------------------------------------------------------
(* What Stripe raises. *)

\* The one live subscription gives the account its plan, and none the free one.
LEMMA AccountPlan ==
    /\ Live = {} => PlanOfAccount = FreePlan
    /\ \A s : Live = {s} => PlanOfAccount = PlanOf[s]
BY DEF PlanOfAccount

\* What was answered with nothing done stays so.
LEMMA OverlookedStays == raised \subseteq raised' => (Overlooked => Overlooked')
BY DEF Overlooked, Transacts, GrantsInvoice, OfSubscription, HasUser, InCatalogue

\* Raising events changes nothing but them and the backlog.
LEMMA RaiseEffect ==
    ASSUME IInv, NEW new \in SUBSET Event, new \intersect applied = {}, Raise(new),
           overlapped' \in BOOLEAN
    PROVE  /\ BillingTypeOK' /\ MoneyOK'
           /\ raised' = raised \union new /\ applied' = applied
           /\ plan' = plan /\ reordered' = reordered
           /\ Backlog' = Backlog \union {e \in new : IsPlanEvent(e)}
           /\ \A e \in Event :
                 earlier'[e] = IF e \in new /\ IsPlanEvent(e) THEN Backlog ELSE earlier[e]
<1>0. BillingTypeOK /\ MoneyOK BY DEF IInv
<1>1. /\ raised' = raised \union new /\ applied' = applied /\ markers' = markers
      /\ plan' = plan /\ reordered' = reordered /\ provisioned' = provisioned
      /\ available' = available /\ granted' = granted /\ periodEnd' = periodEnd
      /\ subItem' = subItem
      /\ earlier' = [e \in Event |-> IF e \in new /\ IsPlanEvent(e) THEN Backlog
                                                                    ELSE earlier[e]]
  BY DEF Raise, entitlement
<1>2. \A e \in new : e \notin applied OBVIOUS
<1>3. Backlog' = Backlog \union {e \in new : IsPlanEvent(e)}
  BY <1>1, <1>2
  DEF Backlog, IsPlanEvent, Transacts, GrantsInvoice, OfSubscription, HasUser, InCatalogue
<1>4. earlier' \in [Event -> SUBSET Backlog']
  BY <1>0, <1>1, <1>3 DEF BillingTypeOK
<1>5. BillingTypeOK' BY <1>0, <1>1, <1>4 DEF BillingTypeOK
<1>6. MoneyOK'
  BY <1>0, <1>1 DEF MoneyOK, PaidFor, EachPeriodGrantedOnce, PeriodOf, Grants
<1> QED BY <1>1, <1>3, <1>5, <1>6

\* A plan event that is raised is the newest of the backlog.
LEMMA RaisedIsNewest ==
    ASSUME IInv, NEW new \in SUBSET Event, new \intersect applied = {}, Raise(new),
           NEW x \in new, {e \in new : IsPlanEvent(e)} = {x}, overlapped' \in BOOLEAN
    PROVE  Backlog' # {} /\ \A e \in Event : Newest(e)' => e = x
<1>1. /\ Backlog' = Backlog \union {x}
      /\ earlier'[x] = Backlog
  BY RaiseEffect
<1>2. ASSUME NEW e \in Event, Newest(e)' PROVE e = x
  <2>1. e \in Backlog' /\ e \notin earlier'[x] BY <1>1, <1>2 DEF Newest
  <2> QED BY <1>1, <2>1
<1> QED BY <1>1, <1>2

\* Nothing for the plan is raised.
LEMMA RaisedForNoPlan ==
    ASSUME IInv, NEW new \in SUBSET Event, new \intersect applied = {}, Raise(new),
           \A e \in new : ~IsPlanEvent(e), overlapped' = overlapped, Live' = Live
    PROVE  PlansOK'
<1>1. /\ Backlog' = Backlog /\ plan' = plan /\ reordered' = reordered
      /\ \A e \in Event : earlier'[e] = earlier[e]
  <2>1. overlapped' \in BOOLEAN BY DEF IInv, BillingTypeOK
  <2> QED BY <2>1, RaiseEffect
<1>2. PlanOfAccount' = PlanOfAccount BY DEF PlanOfAccount
<1>3. \A e \in Event : Newest(e)' => Newest(e)
  <2>1. Backlog \subseteq Event BY DEF Backlog, IInv, BillingTypeOK
  <2> QED BY <1>1, <2>1 DEF Newest
<1>4. PlansOK /\ \A e \in Event : PlanAfter(e)' = PlanAfter(e) BY DEF IInv, PlanAfter
<1>5. Overlooked => Overlooked' BY OverlookedStays DEF Raise
<1> QED BY <1>1, <1>2, <1>3, <1>4, <1>5 DEF PlansOK

\* A pack is bought.
LEMMA BuyPackKeeps == ASSUME IInv, NEW p \in Pack, BuyPack(p) PROVE IInv'
<1> DEFINE new == {Checkout(p), Invoice(p, 0)}
<1>0. new \in SUBSET Event BY EventFacts
<1>1. Raise(new) /\ new \intersect applied = {} /\ overlapped' = overlapped
  <2>1. Invoice(p, 0) \notin applied
    BY EventFacts DEF IInv, EventsOK, Transacts, GrantsInvoice
  <2> QED BY <2>1 DEF BuyPack, IInv, BillingTypeOK
<1>2. \A s \in Subscription : Checkout(s) \notin new /\ Deleted(s) \notin new
  BY EventFacts
<1>3. \A e \in new : ~IsPlanEvent(e) BY EventFacts DEF IsPlanEvent, OfSubscription
<1> HIDE DEF new
<1>4. overlapped' \in BOOLEAN BY <1>1 DEF IInv, BillingTypeOK
<1>5. /\ BillingTypeOK' /\ MoneyOK' /\ raised' = raised \union new /\ applied' = applied
  BY <1>0, <1>1, <1>4, RaiseEffect
<1>6. Live' = Live BY <1>2, <1>5 DEF Live
<1>7. EventsOK'
  BY <1>1, <1>2, <1>5, <1>6
  DEF IInv, EventsOK, Transacts, GrantsInvoice, OfSubscription, HasUser, InCatalogue
<1>8. PlansOK' BY <1>0, <1>1, <1>3, <1>6, RaisedForNoPlan
<1> QED BY <1>5, <1>7, <1>8 DEF IInv

\* A subscription is taken out: its checkout is the newest of the backlog.
LEMMA SubscribeKeeps == ASSUME IInv, NEW s \in Subscription, Subscribe(s) PROVE IInv'
<1> DEFINE x == Checkout(s)
           new == {x, Invoice(s, 0)}
<1>0. /\ BillingTypeOK /\ EventsOK /\ 0 \in 0..LastPeriod
      /\ new \in SUBSET Event /\ x \in new
  BY EventFacts DEF IInv
<1>1. /\ Raise(new) /\ Checkout(s) \notin raised
      /\ overlapped' = (overlapped \/ Live # {})
  BY DEF Subscribe
<1>2. new \intersect applied = {}
  <2>1. Invoice(s, 0) \notin applied
    BY <1>0, EventFacts DEF EventsOK, Transacts, GrantsInvoice
  <2> QED BY <1>0, <1>1, <2>1 DEF BillingTypeOK
<1>3. overlapped' \in BOOLEAN BY <1>0, <1>1 DEF BillingTypeOK
<1>4. /\ BillingTypeOK' /\ MoneyOK' /\ raised' = raised \union new /\ applied' = applied
      /\ plan' = plan /\ reordered' = reordered
  <2> HIDE DEF new
  <2> QED BY <1>0, <1>1, <1>2, <1>3, RaiseEffect
<1>5. Transacts(x) => {e \in new : IsPlanEvent(e)} = {x}
  BY <1>0, EventFacts DEF IsPlanEvent, Transacts, GrantsInvoice, OfSubscription
<1>6. Live' = Live \union {s}
  <2>1. Deleted(s) \notin raised BY <1>0, <1>1 DEF EventsOK
  <2>2. \A t \in Subscription :
           /\ Deleted(t) \notin new
           /\ Checkout(t) \in new => t = s
    BY <1>0, EventFacts
  <2> QED BY <1>4, <2>1, <2>2 DEF Live
<1>7. EventsOK'
  <2>1. \A t \in Subscription : Deleted(t) \notin new BY <1>0, EventFacts
  <2> QED BY <1>0, <1>1, <1>4, <1>6, <2>1
          DEF EventsOK, Transacts, GrantsInvoice, OfSubscription, HasUser, InCatalogue
<1>8. PlansOK'
  <2> SUFFICES ASSUME ~Overlooked' PROVE PlansOK' BY DEF PlansOK
  <2>0. Transacts(x)
    BY <1>0, <1>4, EventFacts
    DEF Overlooked, Transacts, GrantsInvoice, OfSubscription, HasUser, InCatalogue
  <2>1. Backlog' # {} /\ \A e \in Event : Newest(e)' => e = x
    <3> HIDE DEF x, new
    <3> QED BY <1>0, <1>1, <1>2, <1>3, <1>5, <2>0, RaisedIsNewest
  <2>2. ~overlapped' => PlanOfAccount' = PlanOf[s]
    BY <1>1, <1>6 DEF PlanOfAccount
  <2>3. PlanAfter(x)' = PlanOf[s] BY EventFacts DEF PlanAfter
  <2> QED BY <2>1, <2>2, <2>3 DEF PlansOK
<1> QED BY <1>4, <1>7, <1>8 DEF IInv

\* A subscription is renewed: only a renewal that grants concerns the plan.
LEMMA RenewKeeps ==
    ASSUME IInv, NEW s \in Subscription, NEW n \in 1..LastPeriod, Renew(s, n)
    PROVE  IInv'
<1> DEFINE x == Invoice(s, n)
           new == {x}
<1>0. /\ BillingTypeOK /\ EventsOK /\ n \in 0..LastPeriod /\ n > 0
      /\ x \in Event
  BY EventFacts DEF IInv
<1>1. /\ Raise(new) /\ x \notin raised /\ s \in Live /\ overlapped' = overlapped
      /\ new \intersect applied = {} /\ new \in SUBSET Event /\ x \in new
  BY <1>0 DEF Renew, BillingTypeOK
<1>2. overlapped' \in BOOLEAN BY <1>0, <1>1 DEF BillingTypeOK
<1>3. /\ BillingTypeOK' /\ MoneyOK' /\ raised' = raised \union new /\ applied' = applied
  <2> HIDE DEF new
  <2> QED BY <1>0, <1>1, <1>2, RaiseEffect
<1>4. \A t \in Subscription : Checkout(t) \notin new /\ Deleted(t) \notin new
  BY <1>0, EventFacts
<1>5. Live' = Live BY <1>3, <1>4 DEF Live
<1>6. EventsOK'
  BY <1>0, <1>1, <1>3, <1>4, <1>5
  DEF EventsOK, Transacts, GrantsInvoice, OfSubscription, HasUser, InCatalogue
<1>7. PlansOK'
  <2>1. CASE ~Transacts(x)
    <3>1. \A e \in new : ~IsPlanEvent(e) BY <2>1 DEF IsPlanEvent
    <3> HIDE DEF new
    <3> QED BY <1>1, <1>5, <3>1, RaisedForNoPlan
  <2>2. CASE Transacts(x)
    <3>1. {e \in new : IsPlanEvent(e)} = {x}
      BY <1>0, <2>2, EventFacts DEF IsPlanEvent, OfSubscription
    <3>2. Backlog' # {} /\ \A e \in Event : Newest(e)' => e = x
      <4> HIDE DEF x, new
      <4> QED BY <1>1, <1>2, <3>1, RaisedIsNewest
    <3>3. ~overlapped' => PlanOfAccount' = PlanOf[s]
      BY <1>0, <1>1, <1>5 DEF EventsOK, PlanOfAccount
    <3>4. PlanAfter(x)' = PlanOf[s] BY <1>0, EventFacts DEF PlanAfter
    <3> QED BY <3>2, <3>3, <3>4 DEF PlansOK
  <2> QED BY <2>1, <2>2
<1> QED BY <1>3, <1>6, <1>7 DEF IInv

\* A subscription is cancelled: what is newest then is the free plan.
LEMMA CancelKeeps == ASSUME IInv, NEW s \in Subscription, Cancel(s) PROVE IInv'
<1> DEFINE x == Deleted(s)
           new == {x}
<1>0. BillingTypeOK /\ EventsOK /\ x \in Event BY EventFacts DEF IInv
<1>1. /\ Raise(new) /\ x \notin raised /\ s \in Live /\ overlapped' = overlapped
      /\ new \intersect applied = {} /\ new \in SUBSET Event /\ x \in new
  BY <1>0 DEF Cancel, Live, BillingTypeOK
<1>2. overlapped' \in BOOLEAN BY <1>0, <1>1 DEF BillingTypeOK
<1>3. /\ BillingTypeOK' /\ MoneyOK' /\ raised' = raised \union new /\ applied' = applied
  <2> HIDE DEF new
  <2> QED BY <1>0, <1>1, <1>2, RaiseEffect
<1>4. \A t \in Subscription : Checkout(t) \notin new /\ (Deleted(t) \in new => t = s)
  BY <1>0, EventFacts
<1>5. Live' = Live \ {s} /\ Checkout(s) \in raised
  BY <1>1, <1>3, <1>4 DEF Live
<1>6. EventsOK'
  BY <1>0, <1>1, <1>3, <1>4, <1>5
  DEF EventsOK, Transacts, GrantsInvoice, OfSubscription, HasUser, InCatalogue
<1>7. PlansOK'
  <2> SUFFICES ASSUME ~Overlooked' PROVE PlansOK' BY DEF PlansOK
  <2>0. Transacts(x)
    BY <1>1, <1>3, EventFacts
    DEF Overlooked, Transacts, GrantsInvoice, OfSubscription, HasUser, InCatalogue
  <2>1. {e \in new : IsPlanEvent(e)} = {x}
    BY <2>0, EventFacts DEF IsPlanEvent, OfSubscription
  <2>2. Backlog' # {} /\ \A e \in Event : Newest(e)' => e = x
    <3> HIDE DEF x, new
    <3> QED BY <1>1, <1>2, <2>1, RaisedIsNewest
  <2>3. ~overlapped' => PlanOfAccount' = FreePlan
    BY <1>0, <1>1, <1>5 DEF EventsOK, PlanOfAccount
  <2>4. PlanAfter(x)' = FreePlan BY EventFacts DEF PlanAfter
  <2> QED BY <2>2, <2>3, <2>4 DEF PlansOK
<1> QED BY <1>3, <1>6, <1>7 DEF IInv

----------------------------------------------------------------------------
(* What the webhook does. *)

\* The first use of the account grants the free credits, before anything else.
LEMMA InitializeUserKeeps == ASSUME IInv, InitializeUser PROVE IInv'
<1>0. BillingTypeOK /\ EventsOK /\ PlansOK /\ MoneyOK /\ FreeSignupCredits \in Nat
  BY BillingAssumption DEF IInv
<1>1. /\ provisioned' = TRUE /\ available' = FreeSignupCredits
      /\ granted' = granted + FreeSignupCredits /\ applied = {}
      /\ UNCHANGED <<plan, periodEnd, subItem, markers, applied, earlier, reordered,
                     raised, overlapped>>
  BY <1>0 DEF InitializeUser, stripe, MoneyOK
<1>2. BillingTypeOK' BY <1>0, <1>1 DEF BillingTypeOK, Backlog
<1>3. EventsOK' BY <1>0, <1>1 DEF EventsOK, Live
<1>4. PlansOK'
  BY <1>0, <1>1, OverlookedStays
  DEF PlansOK, Backlog, Newest, PlanOfAccount, Live, PlanAfter
<1>5. MoneyOK'
  <2>1. PaidFor' = {} BY <1>1 DEF PaidFor
  <2>2. IsFiniteSet({}) /\ Paid({}) = 0 BY FS_EmptySet, PaidUnfolds
  <2>3. EachPeriodGrantedOnce' <=> (available' \in {Paid(PaidFor'), Paid(PaidFor') + FreeSignupCredits})
    BY DEF EachPeriodGrantedOnce, PaidFor
  <2>4. EachPeriodGrantedOnce' BY <1>0, <1>1, <2>1, <2>2, <2>3
  <2> QED BY <1>1, <2>1, <2>2, <2>4 DEF MoneyOK
<1> QED BY <1>2, <1>3, <1>4, <1>5 DEF IInv

\* A pack's credits are granted; the plan is not concerned.
LEMMA CompletePackKeeps ==
    ASSUME IInv, NEW e \in raised, Deliverable(e), CompletePack(e) PROVE IInv'
<1>0. /\ BillingTypeOK /\ EventsOK /\ PlansOK /\ MoneyOK /\ e \in Event
  BY DEF IInv, BillingTypeOK
<1>1. /\ e.type = "checkout.session.completed" /\ e.of \in Pack
      /\ HasUser(e) /\ InCatalogue(e)
      /\ Transact(e, CreditsOf[e.of])
      /\ UNCHANGED <<plan, periodEnd, subItem, earlier, reordered, raised, overlapped>>
      /\ markers' = markers \union {e}
  BY DEF CompletePack, Transact, stripe
<1>2. Transacts(e) /\ Grants(e) /\ ~IsPlanEvent(e)
  BY <1>1, EventFacts DEF Transacts, Grants, IsPlanEvent, OfSubscription
<1>3. /\ MoneyOK' /\ provisioned' \in BOOLEAN /\ available' \in Nat /\ granted' \in Nat
      /\ applied' = applied \union {e}
  BY <1>0, <1>1, <1>2, TransactPays
<1>4. Backlog' = Backlog
  BY <1>1, <1>2, <1>3
  DEF Backlog, IsPlanEvent, Transacts, GrantsInvoice, OfSubscription, HasUser, InCatalogue
<1>5. BillingTypeOK' BY <1>0, <1>1, <1>3, <1>4 DEF BillingTypeOK
<1>6. EventsOK'
  BY <1>0, <1>1, <1>2, <1>3
  DEF EventsOK, Live, Transacts, GrantsInvoice, OfSubscription, HasUser, InCatalogue
<1>7. PlansOK'
  BY <1>0, <1>1, <1>4, OverlookedStays
  DEF PlansOK, Newest, PlanOfAccount, Live, PlanAfter
<1> QED BY <1>3, <1>5, <1>6, <1>7 DEF IInv

\* A plan event leaves the backlog for the items.
LEMMA ApplyKeeps ==
    ASSUME IInv, NEW e \in raised, Deliverable(e), IsPlanEvent(e),
           NEW end \in 0..LastPeriod,
           ApplySubscription(e, PlanAfter(e), end, IF Grants(e) THEN CreditsOf[e.of] ELSE 0)
    PROVE  IInv'
<1>0. /\ BillingTypeOK /\ EventsOK /\ PlansOK /\ MoneyOK /\ e \in Event
      /\ e.of \in Subscription /\ Transacts(e)
  BY DEF IInv, BillingTypeOK, IsPlanEvent, OfSubscription
<1>1. /\ Transact(e, IF Grants(e) THEN CreditsOf[e.of] ELSE 0)
      /\ plan' = PlanAfter(e) /\ periodEnd' = end
      /\ subItem' = [subItem EXCEPT ![e.of] = [plan |-> PlanAfter(e), period_end |-> end]]
      /\ earlier' = [d \in Event |-> IF d = e THEN {} ELSE earlier[d] \ {e}]
      /\ reordered' = (reordered \/ earlier[e] # {})
      /\ raised' = raised /\ overlapped' = overlapped /\ markers' = markers \union {e}
  BY DEF ApplySubscription, Transact, Overtake, stripe
<1>2. /\ MoneyOK' /\ provisioned' \in BOOLEAN /\ available' \in Nat /\ granted' \in Nat
      /\ e \notin applied /\ applied' = applied \union {e}
  BY <1>0, <1>1, TransactPays
<1>3. Backlog' = Backlog \ {e} /\ e \in Backlog
  BY <1>1, <1>2
  DEF Backlog, IsPlanEvent, Transacts, GrantsInvoice, OfSubscription, HasUser, InCatalogue
<1>4. PlanAfter(e) \in Plan BY <1>0 DEF PlanAfter, Plan
<1>5. BillingTypeOK'
  <2>1. earlier' \in [Event -> SUBSET Backlog']
    BY <1>0, <1>1, <1>3 DEF BillingTypeOK
  <2>2. /\ subItem' \in [Subscription -> [plan : Plan \union {"absent"},
                                          period_end : 0..LastPeriod]]
    BY <1>0, <1>1, <1>4 DEF BillingTypeOK
  <2>3. reordered' \in BOOLEAN /\ overlapped' \in BOOLEAN
    BY <1>0, <1>1 DEF BillingTypeOK
  <2>4. Plan' = Plan BY DEF Plan
  <2>5. /\ plan' \in Plan /\ periodEnd' \in 0..LastPeriod
        /\ markers' \subseteq applied' /\ applied' \subseteq raised' /\ raised' \subseteq Event
    BY <1>0, <1>1, <1>2, <1>4 DEF BillingTypeOK
  <2> QED BY <1>2, <2>1, <2>2, <2>3, <2>4, <2>5 DEF BillingTypeOK
<1>6. EventsOK'
  BY <1>0, <1>1, <1>2
  DEF EventsOK, Live, Transacts, GrantsInvoice, OfSubscription, HasUser, InCatalogue
<1>7. PlansOK'
  <2> SUFFICES ASSUME ~reordered', ~overlapped', ~Overlooked'
               PROVE  /\ Backlog' = {} => plan' = PlanOfAccount'
                      /\ \A d \in Event : Newest(d)' => PlanAfter(d)' = PlanOfAccount'
    BY DEF PlansOK
  <2>1. /\ ~reordered /\ ~overlapped /\ ~Overlooked /\ earlier[e] = {}
        /\ PlanOfAccount' = PlanOfAccount
        /\ \A d \in Event : PlanAfter(d)' = PlanAfter(d)
    <3>1. ~reordered /\ earlier[e] = {} BY <1>1
    <3>2. ~overlapped BY <1>1
    <3>3. PlanOfAccount' = PlanOfAccount BY <1>1 DEF PlanOfAccount, Live
    <3>4. \A d \in Event : PlanAfter(d)' = PlanAfter(d) BY DEF PlanAfter
    <3>5. ~Overlooked BY <1>1, OverlookedStays
    <3> QED BY <3>1, <3>2, <3>3, <3>4, <3>5
  <2>2. \A d \in Event : Newest(d) => PlanAfter(d) = PlanOfAccount
    BY <1>0, <2>1 DEF PlansOK
  <2>3. ASSUME Backlog' = {} PROVE plan' = PlanOfAccount'
    <3>1. Backlog = {e} BY <1>3, <2>3
    <3>2. Newest(e) BY <2>1, <3>1 DEF Newest
    <3> QED BY <1>0, <1>1, <2>1, <2>2, <3>2
  <2>4. ASSUME NEW d \in Event, Newest(d)' PROVE PlanAfter(d) = PlanOfAccount
    <3>1. d \in Backlog /\ d # e /\ \A b \in Backlog \ {e} : d \notin earlier'[b]
      BY <1>3, <2>4 DEF Newest
    <3>2. \A b \in Backlog \ {e} : earlier'[b] = earlier[b] \ {e}
      BY <1>0, <1>1 DEF Backlog, BillingTypeOK
    <3>3. Newest(d) BY <2>1, <3>1, <3>2 DEF Newest
    <3> QED BY <2>2, <3>3
  <2> QED BY <2>1, <2>3, <2>4
<1> QED BY <1>2, <1>5, <1>6, <1>7 DEF IInv

\* A delivery is one of a pack's checkout or of a plan event.
LEMMA DeliverKeeps == ASSUME IInv, NEW e \in raised, Deliver(e) PROVE IInv'
<1>0. /\ Deliverable(e) /\ e \in Event /\ 0 \in 0..LastPeriod
      /\ e.period \in 0..LastPeriod
  BY EventCases, EventFacts DEF Deliver, IInv, BillingTypeOK
<1>1. CASE CompletePack(e) BY <1>0, <1>1, CompletePackKeeps
<1>2. CASE CompleteSubscription(e)
  <2>1. /\ e.type = "checkout.session.completed" /\ e.of \in Subscription
        /\ HasUser(e) /\ InCatalogue(e)
        /\ ApplySubscription(e, PlanOf[e.of], 0, CreditsOf[e.of])
    BY <1>2 DEF CompleteSubscription, PeriodEndOf
  <2>2. IsPlanEvent(e) /\ Grants(e) /\ PlanAfter(e) = PlanOf[e.of]
    BY <2>1 DEF IsPlanEvent, OfSubscription, Transacts, Grants, PlanAfter
  <2> QED BY <1>0, <2>1, <2>2, ApplyKeeps
<1>3. CASE InvoicePaid(e)
  <2>1. /\ e.type = "invoice.paid" /\ HasUser(e) /\ GrantsInvoice(e)
        /\ ApplySubscription(e, PlanOf[e.of], e.period, CreditsOf[e.of])
    BY <1>3 DEF InvoicePaid, PeriodEndOf
  <2>2. IsPlanEvent(e) /\ Grants(e) /\ PlanAfter(e) = PlanOf[e.of]
    BY <1>0, <2>1 DEF IsPlanEvent, GrantsInvoice, Transacts, Grants, PlanAfter
  <2> QED BY <1>0, <2>1, <2>2, ApplyKeeps
<1>4. CASE SubscriptionDeleted(e)
  <2>1. /\ e.type = "customer.subscription.deleted" /\ HasUser(e)
        /\ ApplySubscription(e, FreePlan, 0, 0)
    BY <1>4 DEF SubscriptionDeleted
  <2>2. IsPlanEvent(e) /\ ~Grants(e) /\ PlanAfter(e) = FreePlan
    BY <1>0, <2>1, EventCases
    DEF IsPlanEvent, OfSubscription, Transacts, Grants, PlanAfter
  <2> QED BY <1>0, <2>1, <2>2, ApplyKeeps
<1> QED BY <1>1, <1>2, <1>3, <1>4 DEF Deliver

\* A marker is reaped, or nothing happens.
LEMMA ReapKeeps ==
    ASSUME IInv, markers' \subseteq markers,
           UNCHANGED <<entitlement, applied, earlier, reordered, stripe, granted>>
    PROVE  IInv'
<1>0. BillingTypeOK /\ EventsOK /\ PlansOK /\ MoneyOK BY DEF IInv
<1>1. UNCHANGED <<provisioned, available, plan, periodEnd, subItem, applied, earlier,
                  reordered, raised, overlapped, granted>>
  BY DEF entitlement, stripe
<1>2. BillingTypeOK' BY <1>0, <1>1 DEF BillingTypeOK, Backlog
<1>3. EventsOK' BY <1>0, <1>1 DEF EventsOK, Live
<1>4. PlansOK'
  BY <1>0, <1>1, OverlookedStays
  DEF PlansOK, Backlog, Newest, PlanOfAccount, Live, PlanAfter
<1>5. MoneyOK' BY <1>0, <1>1 DEF MoneyOK, PaidFor, EachPeriodGrantedOnce
<1> QED BY <1>2, <1>3, <1>4, <1>5 DEF IInv

----------------------------------------------------------------------------
(* The invariant, and what follows from it. *)

\* It holds at first.
LEMMA InitHolds == BillingInit => IInv
<1> SUFFICES ASSUME BillingInit PROVE IInv OBVIOUS
<1>0. LastPeriod \in Nat BY BillingAssumption
<1>1. /\ provisioned = FALSE /\ available = 0 /\ granted = 0 /\ plan = FreePlan
      /\ periodEnd = 0 /\ subItem = [s \in Subscription |-> Absent]
      /\ markers = {} /\ applied = {} /\ raised = {} /\ earlier = [e \in Event |-> {}]
      /\ reordered = FALSE /\ overlapped = FALSE
  BY DEF BillingInit
<1>2. BillingTypeOK
  <2>1. subItem \in [Subscription -> [plan : Plan \union {"absent"},
                                      period_end : 0..LastPeriod]]
    BY <1>0, <1>1 DEF Absent
  <2>2. plan \in Plan BY <1>1 DEF Plan
  <2>3. earlier \in [Event -> SUBSET Backlog] BY <1>1
  <2>4. provisioned \in BOOLEAN /\ reordered \in BOOLEAN /\ overlapped \in BOOLEAN
    BY <1>1
  <2>5. available \in Nat /\ granted \in Nat /\ periodEnd \in 0..LastPeriod
    BY <1>0, <1>1
  <2>6. markers \subseteq applied /\ applied \subseteq raised /\ raised \subseteq Event
    BY <1>1
  <2> QED BY <2>1, <2>2, <2>3, <2>4, <2>5, <2>6 DEF BillingTypeOK
<1>3. Live = {} /\ Backlog = {} BY <1>1 DEF Live, Backlog
<1>4. EventsOK BY <1>1, <1>3 DEF EventsOK
<1>5. PlansOK BY <1>1, <1>3 DEF PlansOK, PlanOfAccount, Newest
<1>6. MoneyOK
  <2>1. PaidFor = {} BY <1>1 DEF PaidFor
  <2>2. IsFiniteSet({}) /\ Paid({}) = 0 BY FS_EmptySet, PaidUnfolds
  <2>3. EachPeriodGrantedOnce <=> (available \in {Paid(PaidFor), Paid(PaidFor) + FreeSignupCredits})
    BY DEF EachPeriodGrantedOnce, PaidFor
  <2> QED BY <1>1, <2>1, <2>2, <2>3 DEF MoneyOK
<1> QED BY <1>2, <1>4, <1>5, <1>6 DEF IInv

\* Every step keeps it.
LEMMA StepKeeps == IInv /\ [BillingNext]_billingVars => IInv'
<1> SUFFICES ASSUME IInv, [BillingNext]_billingVars PROVE IInv' OBVIOUS
<1>1. CASE Purchase
  BY <1>1, BuyPackKeeps, SubscribeKeeps, CancelKeeps, RenewKeeps DEF Purchase
<1>2. CASE InitializeUser BY <1>2, InitializeUserKeeps
<1>3. ASSUME NEW e \in raised, Deliver(e) PROVE IInv' BY <1>3, DeliverKeeps
<1>4. ASSUME NEW e \in raised, ReapMarker(e) PROVE IInv'
  BY <1>4, ReapKeeps DEF ReapMarker
<1>5. CASE UNCHANGED billingVars BY <1>5, ReapKeeps DEF billingVars
<1> QED BY <1>1, <1>2, <1>3, <1>4, <1>5 DEF BillingNext

\* Billing keeps its invariant.
THEOREM BillingInvariant == BillingSpec => []IInv
BY InitHolds, StepKeeps, PTL DEF BillingSpec

\* The items keep their types, and the credits there are those of the free
\* signup and of each purchase and period once, however many events Stripe
\* raises for it and however often and in whatever order it delivers them.
THEOREM BillingCorrect == BillingSpec => []BillingInv
<1>1. IInv => BillingInv BY DEF IInv, MoneyOK, BillingInv
<1> QED BY <1>1, BillingInvariant, PTL

\* Delivered in order, and of one subscription at a time, the events leave the
\* account with the plan of its live subscription.
THEOREM PlanIsThatOfSubscription == BillingSpec => []PlanFollowsSubscription
<1>1. IInv => PlanFollowsSubscription
  BY DEF IInv, PlansOK, PlanFollowsSubscription
<1> QED BY <1>1, BillingInvariant, PTL

\* At first the billing items are a ledger without jobs.
LEMMA InitIsLedger == BillingInit => Ledger!LedgerInit
BY DEF BillingInit, Ledger!LedgerInit

\* Every step of the billing items is one of the ledger's, or none.
LEMMA StepIsLedgerStep ==
    IInv /\ [BillingNext]_billingVars => [Ledger!LedgerNext]_(Ledger!ledgerVars)
<1> SUFFICES ASSUME IInv, [BillingNext]_billingVars
             PROVE  [Ledger!LedgerNext]_(Ledger!ledgerVars)
  OBVIOUS
<1> USE DEF Ledger!LedgerNext, Ledger!ledgerVars, Ledger!entitlement
<1>0. raised \subseteq Event BY DEF IInv, BillingTypeOK
<1>1. UNCHANGED <<provisioned, available, applied, granted>> =>
          UNCHANGED Ledger!ledgerVars
  OBVIOUS
<1>2. CASE Purchase
  BY <1>1, <1>2 DEF Purchase, BuyPack, Subscribe, Renew, Cancel, Raise, entitlement
<1>3. CASE InitializeUser BY <1>3 DEF InitializeUser, Ledger!InitializeUser
<1>4. ASSUME NEW e \in raised, Deliver(e) PROVE Ledger!LedgerNext
  <2>1. e \in Event /\ (e \notin applied \/ e \in markers)
    BY <1>0, <1>4 DEF Deliver, Deliverable
  <2>2. Transact(e, IF Grants(e) THEN CreditsOf[e.of] ELSE 0)
    BY <1>4
    DEF Deliver, CompletePack, CompleteSubscription, InvoicePaid,
        SubscriptionDeleted, ApplySubscription, Grants
  <2>3. Ledger!ApplyStripeEvent(e)
    BY <1>0, <2>1, <2>2 DEF Transact, Ledger!ApplyStripeEvent
  <2> QED BY <1>0, <2>3
<1>5. ASSUME NEW e \in raised, ReapMarker(e) PROVE UNCHANGED Ledger!ledgerVars
  BY <1>1, <1>5 DEF ReapMarker, entitlement
<1>6. CASE UNCHANGED billingVars BY <1>1, <1>6 DEF billingVars, entitlement
<1> QED BY <1>2, <1>3, <1>4, <1>5, <1>6 DEF BillingNext

\* The ledger is granted each event once, though markers are reaped.
THEOREM BillingImplementsLedger == BillingSpec => GrantsImplementLedger
BY InitIsLedger, StepIsLedgerStep, BillingInvariant, PTL
DEF BillingSpec, GrantsImplementLedger, Ledger!LedgerSpec
=============================================================================
