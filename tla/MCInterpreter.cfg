CONSTANTS
  Half = 4
  x = x
  y = y
  a = a
  IntVars = {x, y}
  ArrVars = {a}
  Start <- MCStart
  End <- MCEnd
  Undef = Undef
  Sources <- MCSources
  Exprs <- MCExprs
  Nested <- NestedIn
  Stmts <- MCStmts
SPECIFICATION Spec
INVARIANT TypeOK
PROPERTY OnlyWhileRunsForever
CHECK_DEADLOCK FALSE
