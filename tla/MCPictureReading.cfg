CONSTANTS
    Request = {r1, r2}
    MaxAttempts = 2
    MaxRetry = 1
    MaxFaults = 2

SPECIFICATION FairPictureSpec

INVARIANTS
    PictureInv
    OneReaderAtATime

PROPERTIES
    ClaimSettles
    ImplementsPictureItem

\* A picture described or given up rests.
CHECK_DEADLOCK FALSE
