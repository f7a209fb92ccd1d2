CONSTANTS
  Half = 16
  ShortHalf = 128
  Cap = 4
  x = x
  y = y
  z = z
  a = a
  b = b
  IntVars = {x, y, z}
  ArrVars = {a, b}
  Start <- MCStart
  End <- MCEnd
  Garbage = Garbage
  Undef = Undef
  Sources <- MCSources
  Exprs <- MCExprs
  Nested <- NestedIn
  Stmts <- MCStmts
  Cancels <- CancelsElement
  EmptyOver <- MCEmptyOver
SPECIFICATION Spec
INVARIANTS
  OutputAgrees
  OutcomeAgrees
  StackRespected
PROPERTY BothEnd
CHECK_DEADLOCK FALSE
