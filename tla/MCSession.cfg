SPECIFICATION MCSpec
CONSTANTS
    Waiters <- MCTwoTasks
    Generations = 2
    Faults = TRUE
INVARIANTS
    LogoutIsExact
    RequestStaysArmed
PROPERTY
    LogoutTakesEffect
