CONSTANTS
  Sources <- MCSources
  Chars <- MCChars
  Alpha <- MCAlpha
  Digit <- MCDigit
  Space <- MCSpace
  MaxToks = 6
SPECIFICATION Spec
INVARIANTS
  TypeOK
  TokensAreTheText
  OverrunsOnlyInComment
  ReadsBack
PROPERTY OnlyUnderscoreNeverEnds
CHECK_DEADLOCK FALSE
