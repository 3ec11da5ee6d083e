CONSTANTS
  Hw = 2
  Threshold = 2
  MaxTraces = 3
  MaxPackets = 3
  NoJob = NoJob
SPECIFICATION Spec
CHECK_DEADLOCK FALSE
INVARIANT AllLogged
