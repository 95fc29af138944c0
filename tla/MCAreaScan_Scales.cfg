SPECIFICATION Spec
CONSTANTS
  Lats <- MCLats
  Lons <- MCLons
  Quarter = 3
  Scales <- MCScales
  Preset = {4, 2}
  UserScale = 2
  Screen = 4
  Span = 4
  MaxDialogs = 2
INVARIANTS
  TypeOK
  OneScanAtATime
  StopCostsOneScale
  LeavesNoGaps
PROPERTIES
  ScanReturns
CHECK_DEADLOCK FALSE
