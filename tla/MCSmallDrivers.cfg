\* Two mice and two callers; two waits; two switches; two readers of a pipe.
CONSTANTS
    Mice = {m1, m2}
    Caller = {c1, c2}
    MaxEnables = 2
    MaxEvents = 2
    Wait = {w1, w2}
    Switch = {s1, s2}
    MaxReads = 1
    MaxChanges = 2
    Reader = {r1, r2}
    MaxWaiting = 2
SPECIFICATION AllSpec
INVARIANTS HookUsesLiveObjects HandlesAgree ReadEndsFirst WaitCompletedOnce
PROPERTIES CallsReturn CloseReturns NotedToggleEnds TransfersEnd
CHECK_DEADLOCK FALSE
