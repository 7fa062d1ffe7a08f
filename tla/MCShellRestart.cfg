SPECIFICATION ShellSpec
CONSTANTS
    Watched = {{"chats"}, {"messages"}, {"unread"}, {"outbox"}}
    Changes = 2
    Capacity = 1
    Happenings = 2
    Recordings = {one, two}
    MaxJobs = 1
    Attempts = 2
    Senders = {"c1", "c2"}
    ChatKey <- MCChatKey
    Ballots = {"x", "y"}
    NoChoice = "no"
    SendEvents = 3
    LastSecond = 2
    Requests = 3
    Tasks = {"t1", "t2"}
    Conversations = 2
    WorkEvents = 2
    LastGeneration = 2
    Signals = 3
    Sessions = 2
    Readers = {"panel", "popup"}
    RecoverySteps = 4
    Faces = {"ada", "bob"}
    FaceChanges = 2
    Breaks = 1
    Listings <- MCListings
    MenuEvents = 2
SYMMETRY MCSymmetry
INVARIANT
    ShellIsServed
