CONSTANTS
  NBuffers = 3
  Threads = {t1, t2, t3}
  NumFiles = 5
  FileLen <- MCFileLen
  MaxEntries = 3
  FdLimit = 5
SPECIFICATION FairSpec
CHECK_DEADLOCK FALSE
INVARIANTS
  TypeOK
  Exclusive
  OwnershipInv
  NoAssertFailure
PROPERTIES
  InOrder
  ClaimedIsDelivered
