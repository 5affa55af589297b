SPECIFICATION Spec
CONSTANTS
  HEAP_SIZE = 5
  SIZE_MOD = 16
  Sizes <- MCSizes
INVARIANTS TypeOK AreasDisjoint
PROPERTY RefusalIsFinal
