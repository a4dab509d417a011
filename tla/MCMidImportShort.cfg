SPECIFICATION Spec
CONSTANTS
  Text <- MCText
  NoText = ""
  Kinds <- MCKinds
  Files <- MCFiles
  MaxLines = 3
INVARIANT ShortLineRejected
