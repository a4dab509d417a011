SPECIFICATION Spec
CONSTANTS
  Ids <- MCIds
  NoId = ""
  Databases <- MCDatabases
  OldBin <- MCOldBin
  Leftover <- MCLeftover
  Faulty <- MCFaulty
  MaxRows = 2
INVARIANT TypeOK
INVARIANT Framed
INVARIANT JoinSound
INVARIANT CutShows
PROPERTY ImplementsPromise
PROPERTY Terminates
