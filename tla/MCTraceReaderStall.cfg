CONSTANTS
  NBuffers = 2
  Threads = {t1, t2}
  NumFiles = 3
  FileLen <- MCFileLen
  MaxEntries = 3
  FdLimit = 3
SPECIFICATION FairSpec
CHECK_DEADLOCK FALSE
PROPERTY AllDelivered
