\* The programs of Labs, for the one property of what add shows; each ends.
CONSTANTS
  NumArgs <- MCNumArgs
  NumBytes = 3
  ByteBits = 3
  ExpBits = 2
  FracBits = 3
  MafArgs <- MCMafArgs
  DirName <- MCDirName
  Entries <- MCEntries
  Records <- MCRecords
  Users <- MCUsers
  MaxName = 5
  PointSize = 3
  MaxByte = 3
  Files <- MCPoints
SPECIFICATION LabsSpec
INVARIANT SumShown
CHECK_DEADLOCK FALSE
