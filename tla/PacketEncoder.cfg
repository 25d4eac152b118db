CONSTANTS
  NoData = NoData
  Modulus = 65536
  MaxFrame = 65517
  Packets <- MCPackets
SPECIFICATION Spec
INVARIANTS TypeOK BufferHolds LimitDecides LengthsAgree ReaderWantsWhatIsWritten
\* A packet is encoded once.
CHECK_DEADLOCK FALSE
