\* One read and two packets: the second packet takes the read from the first.
CONSTANTS
  Requests = {r1}
  Small = {}
  NumPackets = 2
SPECIFICATION Spec
PROPERTIES PacketNeverOvertakes
CHECK_DEADLOCK FALSE
