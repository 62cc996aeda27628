\* Three reads, one of them too small, and three packets.
CONSTANTS
  Requests = {r1, r2, r3}
  Small = {r3}
  NumPackets = 3
SPECIFICATION FairSpec
INVARIANTS NoStrandedPair PacketsAccounted ListInOrder
PROPERTIES PairsMeet
CHECK_DEADLOCK FALSE
