SPECIFICATION Spec
CONSTANTS
  Lats <- GlobeLats
  Lons <- GlobeLons
  Quarter = 3
  Scales <- MCScales
  Preset = {4, 2}
  UserScale = 2
  Screen = 4
  Span = 8
  MaxDialogs = 1
INVARIANTS
  RefusesOnlyIDL
CHECK_DEADLOCK FALSE
