SPECIFICATION Spec
CONSTANTS
  a = a
  b = b
  A = A
  B = B
  LIGHTS = LIGHTS
  WRECKS = WRECKS
  Paths = {a, b}
  Names = {A, B}
  BaseName <- TwoCharts
  Features = {LIGHTS}
  NoName = NoName
  NoPath = NoPath
  NoQuery = NoQuery
  MaxCalls = 3
  MaxFaults = 0
  MaxRuns = 1
INVARIANTS
  EveryObjectIsIndexed
