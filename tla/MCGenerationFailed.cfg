CONSTANTS
    pack = pack
    Job = {agent}
    AgentJob = {agent}
    Event = {pack}
    CreditsOf <- MCCreditsOf
    FreeSignupCredits = 1
    MaxRetry = 1
    MaxFaults = 1
    FaultModel <- SlowLedger

SPECIFICATION PipelineSpec

INVARIANTS
    FailedIsRefunded

\* Every execution ends and every credit may be used: the system then rests.
CHECK_DEADLOCK FALSE
