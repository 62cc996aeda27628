\* Streams of two to four packets, one with noise.
CONSTANTS
  Streams <- SomeStreams
  MaxAclPayload = 5
  MaxParams = 7
SPECIFICATION FairSpec
INVARIANTS TypeOK NoByteLost
PROPERTIES PumpGoesOn StreamIsDelivered
CHECK_DEADLOCK FALSE
