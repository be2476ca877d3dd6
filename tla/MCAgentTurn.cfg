CONSTANTS
    MaxIterations = 2
    Calls <- MCCalls

SPECIFICATION TurnSpec

INVARIANTS
    WithinBudget
    SameAnswer
    HistoryReplaysUnlessCut

\* Both engines have answered: the turn then rests.
CHECK_DEADLOCK FALSE
