CONSTANTS
  Provinces <- MCProvinces
  NoProv = "none"
  Cwd = "."
  Root = "/"
  Dirs <- MCDirs
  Paths <- MCPaths
  ArgLists <- MCArgLists
  Worlds <- MCWorlds
  MaxVersion = 2
  MaxRuns = 3
SPECIFICATION Spec
INVARIANT TypeOK
INVARIANT OneProvince
INVARIANT CleanRunDelivers
PROPERTY InputsUntouched
CHECK_DEADLOCK FALSE
