SPECIFICATION FairSpec
CONSTANTS
  r1 = r1
  r2 = r2
  w1 = w1
  w2 = w2
  Readers = {r1, r2}
  Writers = {w1, w2}
  Pids = {1, 2}
  Killable = {r1, w1}
  Chunks = 2
  Capacity = 1
  Tries = 2
INVARIANTS TypeOK OneWriter
PROPERTIES ImplementsTransfer MeetsWaitingReader ReaderEnds WriterEnds
CHECK_DEADLOCK FALSE
