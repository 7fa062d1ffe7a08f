SPECIFICATION MCSpec
CONSTANTS
    Chats = {1}
    Groups = {1}
    Messages <- MCMessages
    ChatOf <- MCChatOf
    SenderOf <- MCSenderOf
    StampOf <- MCStampOf
    Times = {1, 2}
    ReceiptLimit = 1
INVARIANTS
    NoReceiptIsLost
    ReadLossesAreExplained
PROPERTY
    IntentsAreServed
