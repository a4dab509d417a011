SPECIFICATION Spec
CONSTANTS
  OldSizes <- Sizes03
  NewSizes <- Sizes13
  MaxSaves = 2
INVARIANT TypeOK
PROPERTY OldOrNew
