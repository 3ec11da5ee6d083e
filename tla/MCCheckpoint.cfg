CONSTANTS
  Ppns = {x, y}
  Hosts = {h1, h2}
  Bufs = {b1, b2}
  Mmus = {hart, debug}
  Values = {zero, one}
  Zero = zero
  RegValues = {reset, written}
  Reset = reset
  None = None
  Absent <- MCAbsent
  Slots <- MCSlots
  NHarts = 2
  NContexts = 2
SPECIFICATION MCSpec
SYMMETRY Symmetry
CHECK_DEADLOCK FALSE
INVARIANTS
  TypeOK
  Recoverable
PROPERTIES
  RestoresMemory
  RestoresTarget
