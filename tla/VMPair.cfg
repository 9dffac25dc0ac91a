\* Four pages, three frames against two, seven references; an int of seven
\* bits never turns negative.  The program stops at the end of its input.
CONSTANTS
  NPages = 4
  NFrames = 3
  PageSize = 2
  UintMod = 128
  VAddrs <- MCAddrs
  MaxClock = 7
SPECIFICATION PairSpec
INVARIANTS TypeOK TablesInverse LastTranslationStands TotalsAgree
INVARIANTS BothHandleFaults Inclusion MoreMemoryNoWorse
PROPERTIES FramesStay ImplementsLRU
CHECK_DEADLOCK FALSE
