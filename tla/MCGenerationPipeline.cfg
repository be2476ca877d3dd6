CONSTANTS
    pack = pack
    Job = {words, agent}
    AgentJob = {agent}
    Event = {pack}
    CreditsOf <- MCCreditsOf
    FreeSignupCredits = 1
    MaxRetry = 1
    MaxFaults = 1
    FaultModel <- AnyFault

SPECIFICATION PipelineSpec

INVARIANTS
    PipelineTypeOK
    LedgerInv
    SpendNeedsCredit
    SucceededIsCharged

PROPERTIES
    OnlyStraysWriteAfterSettlement
    ImplementsLedger
    ImplementsAccount

\* Every execution ends and every credit may be used: the system then rests.
CHECK_DEADLOCK FALSE
