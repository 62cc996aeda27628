\* One connection that suffers every fault, with fairness.
CONSTANTS
    c1 = c1
    Conn <- OneConn
    NumReaders = 1
    Faults <- AllFaults
SPECIFICATION FairSpec
INVARIANTS DisconnectSentOnce ListHoldsLiveObjects DisconnectEventHasSetter
PROPERTIES KeepsChannelLife DeletedIsDisposed RemovalClosesChannels
CHECK_DEADLOCK FALSE
