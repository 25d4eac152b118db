CONSTANTS
  a = a
  b = b
  Packets = {a, b}
  NoData = NoData
  ZeroKey = "zero"
  MaxRecords = 2
  MaxFrame = 35
  MaxOps = 6
  Records <- MCRecords
  Fills <- MCFills
  NoiseHeads <- MCNoiseHeads
SPECIFICATION Spec
INVARIANTS ContentAsMeant EncryptionAsAsked LoopVisitsAll
PROPERTY CopyKeepsFront
SYMMETRY Same
\* The program ends.
CHECK_DEADLOCK FALSE
