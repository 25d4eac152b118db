\* Every kind of packet and of damage, in pairs and behind a signed packet.
CONSTANTS
  Wires <- MCWires
  AuxMode = FALSE
  NoPacket = NoPacket
SPECIFICATION FairSpec
INVARIANTS TypeOK NothingSkipped EachByteReadOnce ExactDelivery FieldsBelongToPacket
PROPERTIES DeliveryFairSpec CleanStreamDelivered EveryPacketSettled
\* The stream ends and the reader has freed what it can.
CHECK_DEADLOCK FALSE
