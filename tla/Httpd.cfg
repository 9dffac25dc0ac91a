\* The server may end, and all clients may be through.
CONSTANTS
  c1 = c1
  c2 = c2
  Clients <- MCClients
  Requests <- MCRequests
  QueueLen = 0
  BufSize = 10
  HeaderLen = 7
  MaxPieces = 2
  Site <- MCSite
SPECIFICATION Spec
INVARIANTS HttpdTypeOK DescriptorsClosed Accounted PagesRight SurvivesTheWellBehaved
PROPERTY Served
CHECK_DEADLOCK FALSE
