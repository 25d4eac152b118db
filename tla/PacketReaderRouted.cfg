CONSTANTS
  Wires <- MCRoutedWires
  AuxMode = FALSE
  NoPacket = NoPacket
SPECIFICATION Spec
PROPERTY WaitsOnlyForMissingBytes
CHECK_DEADLOCK FALSE
