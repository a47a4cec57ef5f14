\* writers and closers of one stream race; in the end the stream is closed and
\* everything is written, so that nothing is left to do
CONSTANTS
  Writers = {w1, w2}
  Closers = {k1, k2}
  Capacity = 1
  MaxWrites = 2
SPECIFICATION LogFairSpec
CHECK_DEADLOCK FALSE
INVARIANTS LogTypeOK NoPanic NothingLost
PROPERTIES CloseReturns
