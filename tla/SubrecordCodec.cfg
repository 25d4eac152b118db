CONSTANTS
  Capacity <- MCCapacity
  Objects <- MCObjects
SPECIFICATION Spec
INVARIANTS TypeOK WritesInsideBuffer ReadsInsideData RoundTrip TakesItsLength CutDataNoticed OvershootBounded
\* SetSRD returns, or GetData has nothing to write or overran its buffer.
CHECK_DEADLOCK FALSE
