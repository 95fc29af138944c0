SPECIFICATION Spec
CONSTANTS
  a = a
  b = b
  A = A
  B = B
  LIGHTS = LIGHTS
  WRECKS = WRECKS
  Paths = {a, b}
  Names = {A, B}
  BaseName <- SameName
  Features = {LIGHTS, WRECKS}
  NoName = NoName
  NoPath = NoPath
  NoQuery = NoQuery
  MaxCalls = 2
  MaxFaults = 1
  MaxRuns = 1
PROPERTIES
  GuiThreadReturns
  QueuedIsStored
