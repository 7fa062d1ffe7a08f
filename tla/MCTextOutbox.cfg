SPECIFICATION FairSpec
CONSTANTS
    Deliveries <- MCTwo
    Times <- MCTimes
    MaxFailed = 1
    StoreFaults = TRUE
INVARIANTS
    NoAcceptedTextLost
    DiscardIsFinalUnlessDetached
    QueueIsCarried
PROPERTIES
    ImplementsPromise
    QueueIsServed
