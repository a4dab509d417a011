CONSTANTS
  Provinces <- MCProvinces
  NoProv = "none"
  Cwd = "."
  Root = "/"
  Dirs <- MCDirs
  Paths <- MCPaths
  ArgLists <- MCArgLists
  Worlds <- MCWorlds
  MaxVersion = 2
  MaxRuns = 2
SPECIFICATION Spec
INVARIANT ImportOkMeansSaved
CHECK_DEADLOCK FALSE
