SPECIFICATION JobsSpec
CONSTANTS
    Clients = {"panel", "bar"}
    Requests <- MCRequests
    Owner <- MCOwner
    Keys = {"chat"}
    NoKey = "none"
    Key <- MCKey
    NoGate = "no gate"
    MaxQueued = 2
    MaxRunning = 1
    QueueCapacity = 1
    Media = {"video"}
    Tasks = {1, 2}
    MaxPending = 2
    MaxParallel = 1
    NoMedia = "none"
    Pictures = {"p", "q"}
    NoPicture = "none"
    Fetchers = {"f", "g"}
    Backlog = 2
    Listable <- MCListable
    Recency <- MCRecency
    HiddenChat = "system"
    ListLimit = 2
    Lookups = 2
    LastSession = 3
    ReadsAtOnce = 1
    RosterEvents = 3
    Daemons = {"one", "two"}
    Nobody = "nobody"
INVARIANTS
    DownloadsAreAccounted
    StaleAvatarIsExplained
    AnswersAreTrue
    GateIsExclusive
PROPERTIES
    CommandsAreAnswered
    StartsAreExclusive
