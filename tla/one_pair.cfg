CONSTANTS
  writer = w1
  reader = r1
  Writers = {w1}
  Readers = {r1}
  Killable = {w1, r1}
  Stoppable = {w1, r1}
  Chunks = 3
SPECIFICATION PairSpec
PROPERTIES ImplementsChannel PairedEnds FormedPairTransfers
CHECK_DEADLOCK FALSE
