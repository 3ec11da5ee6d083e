CONSTANTS
  p1 = p1
  p2 = p2
  SamePid = SamePid
  Pids <- MCPids
  FirstPid = p1
  Programs <- MCPrograms
  Alphabet <- MCAlphabet
  Ops <- MCOps
  MaxLen = 4
  MaxOps = 3
  Padding = 7
  InterruptAt = {"plain"}
  FileLen = 3
  TOHOST_CHECK_PERIOD = 3
  MaxBubbles = 1
  LoadValues = {0, 1}
  DeviceValues = {0, 3}
  Devices = {1, 2}
  DEVICE_TICK_PERIOD = 3
SPECIFICATION FairSpec
CHECK_DEADLOCK FALSE
INVARIANTS
  TypeOK
  EventsAreTheStarts
  InLockstep
  NothingPendingUnasked
  VectorCovers
PROPERTIES
  AccountedOnce
  Terminates
