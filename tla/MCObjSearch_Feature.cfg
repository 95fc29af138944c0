SPECIFICATION Spec
CONSTANTS
  a = a
  b = b
  A = A
  B = B
  LIGHTS = LIGHTS
  WRECKS = WRECKS
  Paths = {a, b}
  Names = {A, B}
  BaseName <- TwoCharts
  Features = {LIGHTS, WRECKS}
  NoName = NoName
  NoPath = NoPath
  NoQuery = NoQuery
  MaxCalls = 2
  MaxFaults = 0
  MaxRuns = 1
INVARIANTS
  ObjectHasItsFeature
