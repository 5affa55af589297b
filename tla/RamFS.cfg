SPECIFICATION Spec
CONSTANTS
  MAX_FILES = 2
  MAX_CONTENT = 2
  MAX_OPEN = 2
  FilePaths <- MCPaths
  Contents <- MCContents
  Counts <- MCCounts
INVARIANTS TypeOK PositionInFile ListsChildren
PROPERTIES IsFileStore
