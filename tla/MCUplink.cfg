SPECIFICATION FairSpec
CONSTANTS
  Fds = {0, 1, 2}
  Roles <- MCRoles
  Setups <- MCSetups
  QueueLen = 2
  WireLen = 2
  MissLimit = 3
  InitPackets = 3
INVARIANTS
  TypeOK
  NoFdLost
  ReportsAreVerified
PROPERTIES
  SilentServerIsLeft
  SessionComesUp
