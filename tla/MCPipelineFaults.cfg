CONSTANTS
    pack = pack
    Job = {agent}
    AgentJob = {agent}
    Event = {pack}
    CreditsOf <- MCCreditsOf
    FreeSignupCredits = 1
    MaxRetry = 1
    MaxFaults = 3
    FaultModel <- AnyFault

SPECIFICATION FairPipelineSpec

INVARIANTS
    StrandedOnlyBy
    PaidNarrationKept

PROPERTIES
    ExecutionsEnd
    FrozenCreditSettles

\* Every execution ends and every credit may be used: the system then rests.
CHECK_DEADLOCK FALSE
