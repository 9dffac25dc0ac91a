\* An int of four bits: the clock and the addresses both turn negative.  The
\* program stops at the end of its input or at an address it rejects.
CONSTANTS
  NPages = 3
  NFrames = 2
  PageSize = 5
  UintMod = 16
  VAddrs <- MCWrapAddrs
  MaxClock = 10
SPECIFICATION Spec
INVARIANT TotalsAgree
CHECK_DEADLOCK FALSE
