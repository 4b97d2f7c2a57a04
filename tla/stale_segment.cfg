CONSTANTS
  w1 = w1
  w2 = w2
  r1 = r1
  r2 = r2
  Writers = {w1, w2}
  Readers = {r1, r2}
  Killable = {}
  Stoppable = {}
  Chunks = 1
SPECIFICATION Spec
PROPERTY PrintsPeersData
CHECK_DEADLOCK FALSE
