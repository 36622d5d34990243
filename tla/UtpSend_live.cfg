CONSTANTS
  SeqMod = 8
  OUTGOING_BUFFER_MAX_SIZE = 3
  DUPLICATE_ACKS_BEFORE_RESEND = 1
  ACK_NR_ALLOWED_WINDOW = 1
  MIN_WINDOW_SIZE = 1
  PACKET_SIZE = 3
  MaxResends = 2
  RetransmitLimit = 1
  SynRetransmitLimit = 1
  opt_sndbuf = 2
  PacketSizes = {2}
  Cwnds = {1, 2}
  Windows = {0, 1, 2}
  EackBits = 1
  RingInit = 2
  InitSeqs = {7}
  MaxBytes = 2
SPECIFICATION FairSpec
INVARIANTS
  WaitingIsTimed
  FullIsFull
PROPERTIES
  WaitingIsResolved
  WriterReleased
CHECK_DEADLOCK FALSE
