CONSTANT
  Values <- MCValues
SPECIFICATION Spec
INVARIANTS ReadsBack BitsTell
