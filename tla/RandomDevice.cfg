CONSTANTS
  Threads = {t1, t2}
  Main = t1
  KeyBytes = 2
  Sizes <- MCSizes
  BufSize = 3
  LoopSamples = 2
  Samples = 3
SPECIFICATION Spec
INVARIANTS
  FreshUnlessRaced
  ServedWhole
  LateKeysBounded
PROPERTIES
  EveryRequestEnds
CHECK_DEADLOCK FALSE
