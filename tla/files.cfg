CONSTANTS
  IntWidth = 8
  PATH_MAX = 9
  NAME_MAX = 8
  MAX_PROCESSES = 3
  MAX_FDS = 2
  MaxHandles = 2
  Counts = {2}
  Host <- MCHost
  Paths <- MCPaths
  Opened <- MCOpened
  Entered <- MCEntered
SPECIFICATION Spec
INVARIANTS
  ImageFaithful
  PathsResolve
  CwdIsDirectory
  ReadsInOrder
