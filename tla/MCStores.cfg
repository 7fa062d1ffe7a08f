SPECIFICATION StoresSpec
CONSTANTS
    Jids = {lid, phone}
    NoJid = "none"
    Ids = {"first", "second"}
    Mine = {}
    Time <- MCTime
    HistoryLimit = 1
    NamedCap = 1
    PhoneUnread = 1
    LastTime = 3
    Operations = 3
    Old = "lid"
    New = "phone"
    Values = {this, that}
    NoValue = none
    Selectable = 1
    LastStamp = 3
    Events = 4
    Alias = "a"
    Phone = "p"
    Names = {"x", "y"}
    NoName = ""
    NameEvents = 4
    MaxStarts = 2
    Attachments <- MCAttachments
    KindOf <- MCKindOf
    TitledOnly = {}
    Drafts = {"draft"}
    Budget = 5
    CacheEvents = 3
    PollLimit = 3
    Deliveries = 4
    PageLimit = 2
    LastSecond = 2
    PageEvents = 3
SYMMETRY MCSymmetry
INVARIANTS
    BadgeCoversUnread
    WhatWasDoneStays
    StoredValuesConverge
    NamesFollowTheirSource
    UpgradeIsWhole
    CacheIsSound
    RowsAreShown
PROPERTY
    KeptFilesGoForAReason
CHECK_DEADLOCK FALSE
