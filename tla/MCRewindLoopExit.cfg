CONSTANTS
  p1 = p1
  p2 = p2
  SamePid = SamePid
  Pids <- MCPids
  FirstPid = p1
  Programs <- MCPrograms
  TimedPrograms <- MCTimedPrograms
  INTERLEAVE = 3
  INSNS_PER_RTC_TICK = 3
  Alphabet <- MCAlphabet
  TimedAlphabet <- MCTimedAlphabet
  Isr <- MCIsr
  Deadline = 3
  MaxLen = 2
  MaxTimed = 0
  Padding = 0
  INSN_PER_CKPT = 7
SPECIFICATION FairSpec
CHECK_DEADLOCK FALSE
PROPERTY Terminates
