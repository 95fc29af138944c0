SPECIFICATION ImportSpec
CONSTANTS
  Inputs <- MCInputs
  Text = {x, far, bad}
  x = x
  far = far
  bad = bad
  MaxString = 5
  BeyondPole <- MCBeyond
  BeyondWorld <- MCBeyond
  IllEncoded <- MCIllEncoded
  Stale <- MCStale
  NUL = NUL
  LF = LF
  COMMA = COMMA
  QUOTE = QUOTE
  BLANK = BLANK
  MaxLine = 14
  MaxColumns = 6
INVARIANTS
  TypeOK
  UnreadIsIntact
  DeliversPrefix
  EndsOnlyForCause
  StraysOnlyForCause
  ProgressInRange
PROPERTIES
  ImplementsImportFile
  ImportEnds
