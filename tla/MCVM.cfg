CONSTANTS
  Half = 4
  Cap = 3
  x = x
  a = a
  IntVars = {x}
  ArrVars = {a}
  Start <- MCStart
  End <- MCEnd
  Garbage = Garbage
  Programs <- MCPrograms
  DepthOf <- PrefixDepth
  MaxLen = 4
  MaxOut = 2
SPECIFICATION Spec
CONSTRAINT OutputBound
INVARIANTS
  TypeOK
  DepthAgrees
  LiveWordsWritten
  OnlyArraysFault
PROPERTY ImplementsOpcodes
CHECK_DEADLOCK FALSE
