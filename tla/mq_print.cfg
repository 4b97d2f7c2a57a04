CONSTANTS
  MaxNum = 5
  Removable = TRUE
  Killable = {0, 1, 2, 3, 4, 5}
SPECIFICATION FairSpec
INVARIANTS TypeOK OneTurn PrintsInOrder StatusHonest NobodyLeftBehind
PROPERTIES AllEnd
CHECK_DEADLOCK FALSE
