\* The driver ends by itself: it exits, or the run is over.
CONSTANTS
  InitSize = 89
  MinHeap = 44
  MinChunk = 32
  Sizes = {0, 1}
  Vars = {a, b}
SPECIFICATION MySpec
INVARIANT SoundUntilStray
SYMMETRY VarSymmetry
CHECK_DEADLOCK FALSE
