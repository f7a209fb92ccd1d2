CONSTANTS
  Half = 4
  ShortHalf = 24
  x = x
  y = y
  a = a
  IntVars = {x, y}
  ArrVars = {a}
  Start <- MCStart
  End <- MCEnd
  Exprs <- MCExprs
  Stmts <- MCStmts
  Sources <- MCSources
SPECIFICATION Spec
INVARIANTS
  TypeOK
  CodeCertified
  LandingsBalanced
PROPERTIES
  FusionStopsAtLandings
  GenerationEnds
CHECK_DEADLOCK FALSE
