SPECIFICATION Spec
CONSTANTS
    Panels = {left}
    Chats = {"ada"}
    NoChat = "none"
    NoPanel = "nobody"
    Connects = 2
    Generations = 1
    CallFaults = FALSE
SYMMETRY MCSymmetry
INVARIANT
    UnavailableDuringCatchUp
