SPECIFICATION Spec
CONSTANTS
  A = a
  B = b
  Hosts <- TwoHosts
  Seeds <- OneDial
  IdMod = 8
  BACKLOG = 1
  SocketLimit = 2
  RST_INFO_TIMEOUT = 2
  RST_INFO_LIMIT = 1
  KEEPALIVE_INTERVAL = 3
  RTO = 1
  RetransmitLimit = 4
  SynRetransmitLimit = 2
  MaxDelay = 0
  MaxWrites = 1
  MaxLosses = 1
  MaxDups = 0
  MaxRestarts = 0
INVARIANT DialSurvivesLoss
