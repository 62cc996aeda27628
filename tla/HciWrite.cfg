\* Two writes: one that may be cancelled, one whose send may be refused.
CONSTANTS
  Requests = {r1}
  Small = {}
  NumPackets = 1
  Writes = {w1, w2}
  Cancelled = {w1}
  Refused = {w2}
SPECIFICATION WritesSpec
INVARIANTS CompletedOnce UsesLiveObjects AllReleased
PROPERTIES EveryWriteCompletes
CHECK_DEADLOCK FALSE
