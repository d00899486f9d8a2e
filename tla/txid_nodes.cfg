SPECIFICATION Spec
CONSTANTS
  Nodes = {0, 1}
  Workers <- QuietAndBusy
  NodeBits = 1
  CounterBits = 3
  MayRestart = {1}
  MaxIssued = 5
INVARIANTS FreshIds NodesDisjoint
CHECK_DEADLOCK FALSE
