CONSTANTS
  MinRto = 2
  FirstRto = 6
  FirstVar = 2
  FinRto = 1
  TIMEOUT_CHECK_INTERVAL = 1
  Poll = 1
  MinSample = 0
  MaxSample = 8
  Samples = {0, 8}
  Width = 1536
  Steps = {1}
  MaxOutstanding = 2
SPECIFICATION Spec
INVARIANTS
  EstimateInRange
  DeadPeerIsNoticed
  NotGivenUpEarly
CHECK_DEADLOCK FALSE
