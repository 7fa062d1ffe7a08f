SPECIFICATION MCSpec
CONSTANTS
    Messages <- MCPoll
    NoMessage = "none"
    Kind <- MCPollKind
    PollOf <- MCPollPollOf
    DrainLimit = 1
    Capacity = 1
    Backlog = 1
    Generations = 1
    StoreFaults = TRUE
INVARIANTS
    AcknowledgedIsKept
    EffectsComeOnce
PROPERTY
    InboundIsServed
