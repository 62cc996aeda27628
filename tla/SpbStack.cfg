\* One peripheral of SpbTestTool beside one that uses delays.
CONSTANTS
    tool = tool
    other = other
    Target <- Peripherals
    Request <- Peripherals
    Tool <- Tools
    MaxTransfers = 2
SPECIFICATION FairStackSpec
INVARIANTS CancelFindsRequest BusFollowsLock SequenceFlagMatches
PROPERTIES RequestsAnswered
CHECK_DEADLOCK FALSE
