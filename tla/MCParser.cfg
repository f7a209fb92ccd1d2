CONSTANTS
  Half = 4
  IntVars = {1, 3}
  ArrVars = {2}
  Start <- MCStart
  End <- MCEnd
  Texts <- MCTexts
  Tokens <- MCTokens
  MaxStmts = 2
  StmtCapacity = 1
  OperandEq <- is_operand_eq
  FreeExpr <- free_expr
  FreeStmts <- free_stmts
SPECIFICATION MemSpec
INVARIANTS
  TypeOK
  ReadAsWritten
  CompletelyEqual
  CrashesOnlyAtEnd
  RefsValid
  LeaksOnlyNested
PROPERTY OnlyUnknownNeverEnds
CHECK_DEADLOCK FALSE
