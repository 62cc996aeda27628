\* Two banks of one interrupt each.
CONSTANTS
    NumBanks = 2
    PinsPerBank = 1
    IoPins = {}
SPECIFICATION Spec
INVARIANT ControllerAsAsked
CHECK_DEADLOCK FALSE
