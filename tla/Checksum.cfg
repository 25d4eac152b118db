CONSTANTS
  Data <- MCData
  Longest <- MCLongest
  LastFirst = 0
  Damage <- MCDamage
  FarBits = {7}
SPECIFICATION Spec
INVARIANTS BitPairNoticed BurstNoticed
PROPERTY DamageDecides
\* One message is sent.
CHECK_DEADLOCK FALSE
