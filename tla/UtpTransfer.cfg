CONSTANTS
  SeqMod = 16
  None = None
  OUTGOING_BUFFER_MAX_SIZE = 7
  DUPLICATE_ACKS_BEFORE_RESEND = 1
  ACK_NR_ALLOWED_WINDOW = 1
  MIN_WINDOW_SIZE = 1
  PACKET_SIZE = 2
  MaxResends = 2
  RetransmitLimit = 1
  SynRetransmitLimit = 0
  opt_sndbuf = 3
  Cwnds = {3}
  EackBits = 3
  RingInit = 2
  InitSeqs = {13}
  MaxBytes = 3
  REORDER_BUFFER_MAX_SIZE = 5
  opt_rcvbuf = 2
  Vanishes = FALSE
  Reads = {2}
  MaxAcks = 1
SPECIFICATION Spec
INVARIANTS
  DroppedIsThere
  FinAckedIsReceived
PROPERTIES
  ImplementsPipe
CHECK_DEADLOCK FALSE
