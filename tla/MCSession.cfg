CONSTANTS
  Paths <- MCPaths
  KindOf <- MCKindOf
  Mem = ":memory:"
  NoDb = "none"
  MaxCalls = 3
SPECIFICATION Spec
INVARIANT TypeOK
INVARIANT OwnData
INVARIANT InUseIsListed
INVARIANT GoneHoldsNothing
