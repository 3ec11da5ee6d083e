CONSTANTS
  Pids = {idle, init, p, q}
  Idle = idle
  InitTask = init
  Bins = {sh}
  X = X
  NoBin = NoBin
  MaxAsid = 3
SPECIFICATION Spec
CHECK_DEADLOCK FALSE
PROPERTY OnlyExecReplaces
