CONSTANTS
    pack_10 = pack_10
    pack_30 = pack_30
    monthly = monthly
    pro = pro
    Pack = {pack_10, pack_30}
    Subscription = {monthly, pro}
    NoUser <- MCNoUser
    NoProduct <- MCNoProduct
    PlanOf <- MCPlanOf
    CreditsOf <- MCCreditsOf
    LastPeriod = 1
    FreeSignupCredits = 8

SPECIFICATION FairBillingSpec

INVARIANTS
    BillingInv
    PlanFollowsSubscription

PROPERTIES
    PaidPeriodIsGranted
    GrantsImplementLedger

\* Everything is bought, applied and reaped: the account then rests.
CHECK_DEADLOCK FALSE
