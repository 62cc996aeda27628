\* Every fault, and two transfers that may be under way together.
CONSTANTS
    f1 = f1
    q1 = q1
    q2 = q2
    File <- OneFile
    Io <- TwoTransfers
    Faults = {"remote disconnect", "send failure"}
SPECIFICATION FairSpec
INVARIANTS DisconnectSentOnce CloseIsSynchronous
PROPERTIES CloseReturns ConnectionIsDisposed TransfersEnd
CHECK_DEADLOCK FALSE
