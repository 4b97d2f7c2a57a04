CONSTANTS
  w1 = w1
  w2 = w2
  r1 = r1
  r2 = r2
  Writers = {w1}
  Readers = {r1}
  Killable = {}
  Stoppable = {}
  Chunks = 2
SPECIFICATION Spec
PROPERTY QuitsOnlyWithoutReader
CHECK_DEADLOCK FALSE
