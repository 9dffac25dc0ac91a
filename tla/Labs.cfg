\* Each program ends.
CONSTANTS
  NumArgs <- MCNumArgs
  NumBytes = 3
  ByteBits = 3
  ExpBits = 2
  FracBits = 3
  MafArgs <- MCMafArgs
  DirName <- MCDirName
  Entries <- MCEntries
  Records <- MCRecords
  Users <- MCUsers
  MaxName = 5
  PointSize = 3
  MaxByte = 3
  Files <- MCPoints
SPECIFICATION LabsSpec
INVARIANTS SumSoFar SumUnlessCarryPasses RangesRight BitsShown OwnRecordShown BoxRight
CHECK_DEADLOCK FALSE
