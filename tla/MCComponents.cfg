CONSTANTS
  SeqMod = 4
  MTU_FLOOR_MIN = 3
  udp_mtu = 7
  SearchSlack = 1
  DUPLICATE_ACKS_BEFORE_RESEND = 2
  DupMod = 3
  InitSeqs = {0}
  HeaderSize = 1
  SmallSizes = {1, 4}
  MaxWindow = 2
  HistMod = 12
  HistOrigins = {0, 9}
  CUR_DELAY_SIZE = 2
  DELAY_BASE_HISTORY = 3
  Span = 5
  DriftMod = 17
  DriftOrigins = {15}
  MAX_AVERAGE_DELAY_SAMPLE = 8
  Rolling = 4
  Reach = 5
  Spread = 3
  MaxSamples = 2
  MIN_WINDOW_SIZE = 2
  MAX_CWND_INCREASE_BYTES_PER_RTT = 6
  CCONTROL_TARGET = 10
  Targets = {0, 4}
  SendBuffers = {1, 3, 20}
  PacketSizes = {4, 7}
  Delays = {0, 4, 9, 10, 25}
  MaxAcked = 8
  BitsPerByte = 6
  ExtBitsLen = 2
  MaskLen = 4
  Shorts = {0, 1, 63, 64, 4095}
  Words = {0, 77, 4096, 16777215}
  Windows = {0, 65, 262144, 16777215}
  Masks = {{}, {0}, {5, 6}, {21}, {0, 11, 12, 18}}
  TailBytes = {0, 1, 2, 3}
  MaxTail = 6
SPECIFICATION AllSpec
INVARIANTS
  RangeSound
  FloorHasPassed
  ValueIsQueuingDelay
  DriftIsSlope
  WindowInBounds
  RoundTrip
  ParsesTheGrammar
PROPERTIES
  SteersByDelay
CHECK_DEADLOCK FALSE
