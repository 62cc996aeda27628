\* The system stops where the code would use a request handle that was cleared.
CONSTANTS
    r1 = r1
    t1 = t1
    t2 = t2
    t3 = t3
    Reader <- MCReader
    Thread <- MCThread
SPECIFICATION FairSpec
INVARIANTS StopEventMeansQuiet NoLostCancel
PROPERTIES CancelledReaderStops
CHECK_DEADLOCK FALSE
