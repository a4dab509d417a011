CONSTANTS
  Tables <- MCTables
  Leftovers <- MCLeftovers
  Faulty = {}
SPECIFICATION Spec
INVARIANT DocLinksRead
