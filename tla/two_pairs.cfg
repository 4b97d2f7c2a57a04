CONSTANTS
  w1 = w1
  w2 = w2
  r1 = r1
  r2 = r2
  Writers = {w1, w2}
  Readers = {r1, r2}
  Killable = {w1, w2, r1, r2}
  Stoppable = {w1, w2}
  Chunks = 2
SPECIFICATION Spec
INVARIANTS TypeOK SingleActive PairCount NoDataRace OneToken RemovalHarmsNoSession
PROPERTY CheckFindsPeer
SYMMETRY Symmetry
CHECK_DEADLOCK FALSE
