SPECIFICATION FairSpec
CONSTANTS
  MaxLen = 4
  Capacity = 2
  Killable = {"parent", "child"}
INVARIANT PadsToLength
PROPERTIES ImplementsTransfer BothEnd
CHECK_DEADLOCK FALSE
