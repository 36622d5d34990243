CONSTANTS
  SeqMod = 16
  None = None
  REORDER_BUFFER_MAX_SIZE = 5
  EackWindow = 4
  RingInit = 2
  opt_rcvbuf = 4
  Packets = 6
  Lens <- MCLens
  FinAt = 6
  InitSeqs = {12, 3}
  MaxRead = 2
  MaxBuilt = 1
SPECIFICATION FairSpec
INVARIANTS
  AckedIsKept
  ReorderCountExact
  WindowUpdateComing
PROPERTIES ImplementsByteStream EofArrives 
CHECK_DEADLOCK FALSE
