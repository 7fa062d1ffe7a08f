SPECIFICATION Spec
CONSTANTS
    Messages <- MCOdd
    NoMessage = "none"
    Kind <- MCOddKind
    PollOf <- MCOddPollOf
    DrainLimit = 1
    Capacity = 1
    Backlog = 1
    Generations = 2
    StoreFaults = FALSE
INVARIANT
    WipeIsFinal
