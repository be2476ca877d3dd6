CONSTANTS
    c1 = c1
    c2 = c2
    c3 = c3
    Call <- MCCall
    Text <- MCText
    Folded <- MCFolded
    Cap = 2
    Attempts = 2
    MaxClears = 2
    Absent = Absent

SPECIFICATION MemorySpec

INVARIANTS
    MemoryInv
    ForgottenStaysForgotten

PROPERTY
    OnlyGrowsOrForgets

\* Every call has returned: the memory then rests.
CHECK_DEADLOCK FALSE
