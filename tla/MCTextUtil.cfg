CONSTANTS
  Lists <- MCLists
  Lines <- MCLines
  Names <- MCNames
  MaxLen = 5
SPECIFICATION Spec
INVARIANT TypeOK
INVARIANT DivIsRuns
INVARIANT LineReadsBack
INVARIANT PathKept
