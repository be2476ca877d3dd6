CONSTANTS
    MaxRetries = 3
    Text <- MCText

SPECIFICATION FairStreamSpec

INVARIANTS
    NothingHiddenIsShown
    LiveIsStored
    ToldWhatHappened

PROPERTY
    TurnEnds

\* The turn has settled and its response has ended: nothing is left to do.
CHECK_DEADLOCK FALSE
