SPECIFICATION MCSpec
CONSTANTS
    Panels = {left, right}
    Chats = {"ada"}
    NoChat = "none"
    NoPanel = "nobody"
    Connects = 2
    Generations = 1
    CallFaults = TRUE
SYMMETRY MCSymmetry
INVARIANTS
    CatchUpGatesTheGeneration
    IntentsAreAdvertised
