CONSTANTS
  c1 = c1
  c2 = c2
  Char = {c1, c2}
  NUL = NUL
  Garbage = Garbage
  Texts <- MCTexts
  MempoolSize = 7
SPECIFICATION Spec
INVARIANTS
  TypeOK
  FreedAsAllocated
PROPERTY ImplementsInterning
CHECK_DEADLOCK FALSE
