\* One bank of two interrupts and an output; every transfer may fail.
CONSTANTS
    NumBanks = 1
    PinsPerBank = 3
    IoPins = {2}
SPECIFICATION Spec
INVARIANTS EnabledIsConfigured ControllerAsAsked
CHECK_DEADLOCK FALSE
