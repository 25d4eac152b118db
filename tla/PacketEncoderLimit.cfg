CONSTANTS
  NoData = NoData
  Modulus = 65536
  MaxFrame = 65517
  Packets <- MCPackets
SPECIFICATION Spec
INVARIANT LimitEnforced
CHECK_DEADLOCK FALSE
