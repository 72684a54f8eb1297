SPECIFICATION Spec
CONSTANTS
  Callers = {c1, c2, c3}
  Async = {c3}
  QueueMax = 2
  BatchMax = 2
INVARIANTS NothingDropped SentInOrder
PROPERTY EveryWaitEnds
CHECK_DEADLOCK FALSE
