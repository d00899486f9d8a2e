SPECIFICATION Spec
CONSTANTS
  Nodes = {1}
  Workers <- OneWorker
  NodeBits = 2
  CounterBits = 4
  MayRestart = {}
  MaxIssued = 6
INVARIANTS HoldsCounter
CHECK_DEADLOCK FALSE
