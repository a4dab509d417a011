CONSTANTS
  Tables <- MCTables
  Leftovers <- MCLeftovers
  Faulty <- MCFaulty
SPECIFICATION Spec
INVARIANT TypeOK
INVARIANT RecordsReadBack
INVARIANT EveryRowOnce
INVARIANT OldFileKept
