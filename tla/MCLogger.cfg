CONSTANTS
  Hw = 2
  Threshold = 2
  MaxTraces = 3
  MaxPackets = 3
  NoJob = NoJob
SPECIFICATION FairSpec
CHECK_DEADLOCK FALSE
INVARIANTS
  TypeOK
  PacketOwnedOnce
  TraceWrittenOnce
  EventLogInOrder
PROPERTIES
  StopReturns
  QueuedIsPrinted
