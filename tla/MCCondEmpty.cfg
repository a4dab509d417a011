SPECIFICATION Spec
CONSTANTS
  Ids <- MCIds
  NoId = ""
  Databases <- MCDatabases
  OldBin <- MCOldBin
  Leftover <- MCLeftover
  Faulty <- MCNoneFaulty
  MaxRows = 1
INVARIANT RecordCarriesInfo
