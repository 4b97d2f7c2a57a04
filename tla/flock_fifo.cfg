SPECIFICATION FairSpec
CONSTANTS
  r1 = r1
  r2 = r2
  w1 = w1
  w2 = w2
  Readers = {r1, r2}
  Writers = {w1, w2}
  Killable = {r1}
  MaxRemoves = 1
  Chunks = 2
  Capacity = 1
INVARIANTS TypeOK OneReader PrintedOnce LossIsReported
PROPERTIES MetProcessesEnd
CHECK_DEADLOCK FALSE
