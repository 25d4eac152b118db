CONSTANTS
  Frames <- MCFrames
  Modulus <- MCModulus
  Overshoot <- MCOvershoot
SPECIFICATION FairSpec
INVARIANTS TypeOK StaysNearFrame DecodedInOrder IntactPrefixDecoded CleanFrameDecoded
PROPERTIES WalksOn WalkEnds
\* The call returns.
CHECK_DEADLOCK FALSE
