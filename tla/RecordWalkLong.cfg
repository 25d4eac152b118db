CONSTANTS
  Frames <- MCFrames
  Modulus <- MCModulus
  Overshoot <- MCOvershoot
SPECIFICATION FairSpec
PROPERTY WalkReturns
\* Where it returns, it stops.
CHECK_DEADLOCK FALSE
