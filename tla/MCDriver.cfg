CONSTANTS
  Half = 16
  ShortHalf = 128
  Cap = 6
  IntVars = {1, 2, 4, 5, 6, 7, 8, 9, 10, 11}
  ArrVars = {3}
  Start <- MCStart
  End <- MCEnd
  Garbage = Garbage
  Undef = Undef
  Sources <- MCSources
  OperandEq <- is_operand_eq
  Exprs <- MCExprs
  Nested <- NestedIn
  Alpha <- MCAlpha
  Digit <- MCDigit
  Space <- MCSpace
SPECIFICATION Spec
INVARIANTS
  DeclaredAsAssumed
  PrintsItsMeaning
PROPERTY BothBuildsEnd
CHECK_DEADLOCK FALSE
