CONSTANTS
    Request = {r1, r2, r3}
    MaxTurns = 2
    LifetimeBounded = TRUE

SPECIFICATION FairSessionSpec

INVARIANTS
    WorkerHoldsClaim
    NoLeakedClaim
    PendingIsLatest
    ConfirmedIsStarted

PROPERTIES
    ImplementsConversation
    NeverWedged

\* All requests have been answered: the session then rests.
CHECK_DEADLOCK FALSE
