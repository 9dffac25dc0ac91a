\* The driver ends by itself: it exits, or the run is over.
CONSTANTS
  InitSize = 93
  MinHeap = 44
  MinChunk = 32
  Sizes = {0, 1, 21}
  Vars = {a, b, c}
SPECIFICATION SampleSpec
INVARIANTS HeapTypeOK Tiled BlocksApart ListedAreFree
SYMMETRY VarSymmetry
CHECK_DEADLOCK FALSE
