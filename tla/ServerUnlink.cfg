CONSTANTS
    c1 = c1
    Conn <- OneConn
    NumReaders = 1
    Faults = {"device removal"}
SPECIFICATION Spec
INVARIANT UnlinkedOnce
CHECK_DEADLOCK FALSE
