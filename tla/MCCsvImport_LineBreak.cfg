SPECIFICATION ImportSpec
CONSTANTS
  Inputs <- LineBreakInputs
  Text = {x, far, bad}
  x = x
  far = far
  bad = bad
  MaxString = 0
  BeyondPole <- MCBeyond
  BeyondWorld <- MCBeyond
  IllEncoded <- MCIllEncoded
  Stale <- MCStale
  NUL = NUL
  LF = LF
  COMMA = COMMA
  QUOTE = QUOTE
  BLANK = BLANK
  MaxLine = 14
  MaxColumns = 6
INVARIANTS
  QuotedStringErrorsAreIllFormatted
