CONSTANTS
  c = c
  d = d
  NUL = NUL
  Garbage = Garbage
  Inputs <- MCInputs
  FirstCapacity = 4
SPECIFICATION ReadSpec
INVARIANT SourceIsInput
PROPERTY ReadingEnds
CHECK_DEADLOCK FALSE
