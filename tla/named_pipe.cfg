SPECIFICATION FairSpec
CONSTANTS
  c1 = c1
  x1 = x1
  w1 = w1
  w2 = w2
  r1 = r1
  r2 = r2
  tw1 = tw1
  to1 = to1
  tr1 = tr1
  tr2 = tr2
  Creators = {c1}
  Removers = {x1}
  Writers1 = {w1}
  Writers2 = {w2}
  Readers = {r1, r2}
  TestWriters = {tw1}
  TestOpeners = {to1}
  TestReaders = {tr1, tr2}
  Numbers = 3
  Killable = {tw1, to1}
INVARIANTS SeparateFifos Delivered RepeatMeansClosed
PROPERTIES MetReaderEnds
CHECK_DEADLOCK FALSE
