CONSTANTS
  SeqMod = 16
  OUTGOING_BUFFER_MAX_SIZE = 4
  DUPLICATE_ACKS_BEFORE_RESEND = 1
  ACK_NR_ALLOWED_WINDOW = 1
  MIN_WINDOW_SIZE = 1
  PACKET_SIZE = 3
  MaxResends = 2
  RetransmitLimit = 1
  SynRetransmitLimit = 1
  opt_sndbuf = 4
  PacketSizes = {1, 2}
  Cwnds = {2}
  Windows = {4}
  EackBits = 2
  RingInit = 2
  InitSeqs = {14}
  MaxBytes = 3
SPECIFICATION Spec
INVARIANTS
  TypeOK
  WindowAccounting
  OldestWaiting
  RingHoldsWindow
  RoomForFin
  StreamInOrder
PROPERTIES SentIsFrozen
CHECK_DEADLOCK FALSE
