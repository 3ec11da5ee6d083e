CONSTANTS
  p1 = p1
  p2 = p2
  SamePid = SamePid
  Pids <- MCPids
  FirstPid = p1
  Programs <- MCPrograms
  TimedPrograms <- MCTimedPrograms
  INTERLEAVE = 3
  INSNS_PER_RTC_TICK = 3
  Alphabet <- MCAlphabet
  TimedAlphabet <- MCTimedAlphabet
  Isr <- MCIsr
  Deadline = 3
  MaxLen = 5
  MaxTimed = 4
  Padding = 8
  INSN_PER_CKPT = 8
SPECIFICATION FairSpec
CHECK_DEADLOCK FALSE
INVARIANTS
  TypeOK
  ProfileMatchesLog
  FastFwdStopsShort
  StampBound
  EventsAreTheStarts
  LogFollowsProgram
PROPERTIES
  AccountedOnce
  Terminates
