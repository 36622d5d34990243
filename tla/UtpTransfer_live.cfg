CONSTANTS
  SeqMod = 16
  None = None
  OUTGOING_BUFFER_MAX_SIZE = 7
  DUPLICATE_ACKS_BEFORE_RESEND = 1
  ACK_NR_ALLOWED_WINDOW = 1
  MIN_WINDOW_SIZE = 1
  PACKET_SIZE = 2
  MaxResends = 2
  RetransmitLimit = 2
  SynRetransmitLimit = 0
  opt_sndbuf = 3
  Cwnds = {3}
  EackBits = 3
  RingInit = 2
  InitSeqs = {13}
  MaxBytes = 1
  REORDER_BUFFER_MAX_SIZE = 5
  opt_rcvbuf = 2
  Vanishes = TRUE
  Reads = {1}
  MaxAcks = 1
SPECIFICATION FairSpec
PROPERTIES
  CloseIsCarriedOut
CHECK_DEADLOCK FALSE
