SPECIFICATION Spec
CONSTANTS
  A = a
  B = b
  Hosts <- TwoHosts
  Seeds <- TwoDials
  IdMod = 8
  BACKLOG = 1
  SocketLimit = 2
  RST_INFO_TIMEOUT = 1
  RST_INFO_LIMIT = 1
  KEEPALIVE_INTERVAL = 2
  RTO = 1
  RetransmitLimit = 1
  SynRetransmitLimit = 1
  MaxDelay = 0
  MaxWrites = 1
  MaxLosses = 1
  MaxDups = 0
  MaxRestarts = 1
INVARIANTS ResetJustified
