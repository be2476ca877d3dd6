CONSTANTS
    MaxIterations = 2
    Calls <- MCCalls

SPECIFICATION TurnSpec

INVARIANTS
    HistoryReplays

\* Both engines have answered: the turn then rests.
CHECK_DEADLOCK FALSE
