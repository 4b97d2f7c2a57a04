SPECIFICATION FairSpec
CONSTANTS
  INT_MAX = 4
  LONG_MAX = 9
  Numbers <- TestNumbers
  MaxArgs = 2
  p0 = p0
  p1 = p1
  p2 = p2
  p3 = p3
  p4 = p4
  Pids = {p0, p1, p2, p3, p4}
  First = p0
INVARIANTS ArgsChecked NoOverflow LostUpdatesBounded CountsOnce
PROPERTIES PrintNumEnds
CHECK_DEADLOCK FALSE
