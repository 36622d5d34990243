SPECIFICATION FairSpec
CONSTANTS
  A = a
  B = b
  Hosts <- TwoHosts
  Seeds <- OneDial
  IdMod = 8
  BACKLOG = 1
  SocketLimit = 2
  RST_INFO_TIMEOUT = 2
  RST_INFO_LIMIT = 1
  KEEPALIVE_INTERVAL = 3
  RTO = 2
  RetransmitLimit = 2
  SynRetransmitLimit = 1
  MaxDelay = 0
  MaxWrites = 1
  MaxLosses = 1
  MaxDups = 1
  MaxRestarts = 1
PROPERTIES OrphanIsReset ClosedIsRemoved
