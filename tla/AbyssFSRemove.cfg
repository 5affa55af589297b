SPECIFICATION Spec
CONSTANTS
  TOTAL_BLOCKS = 5
  INODE_BLOCKS = 1
  NUM_INODES = 4
  BLOCK_UNITS = 2
  DIR_CAP = 5
  MAX_SIZE = 2
  Names <- MCNames
  Paths <- MCPaths
  Cwds <- MCFlatCwds
  Buffers <- MCBuffers
PROPERTY RemovedIsGone
CHECK_DEADLOCK FALSE
