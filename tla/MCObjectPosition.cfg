SPECIFICATION Spec
CONSTANTS
  Base = 2
  Debris = {3}
  Angles <- MCAngles
  Quarter = 8
  Half = 16
  OldRows <- MCOldRows
INVARIANTS
  SearchNeverFails
  RepairKeepsStored
  JumpsToTheObject
