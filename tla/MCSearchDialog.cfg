SPECIFICATION Spec
CONSTANTS
  Units <- MCUnits
  Entries <- MCEntries
  MaxLimit = 10
  Fine = 40
  Upper <- MCUpper
  EncWords <- MCEncWords
  ExactWords <- MCExactWords
  Order <- MCOrder
  Part <- MCPart
  Distances = {120, 123}
  MaxObjects = 2
  Many = 1
INVARIANTS
  AllMeansAll
  ItemsDiffer
  ShowsOnlyWanted
  ShowsAllWanted
  NearestFirst
  ButtonHasRow
PROPERTIES
  SettingsSurvive
