SPECIFICATION PlanSpec
CONSTANTS
  Nodes = {1, 2, 3}
  MaxDeps = 1
  Shared = {2}
  Apps = {1}
  Groups = {}
  Stems = {}
INVARIANT EveryProcessInOrder
CHECK_DEADLOCK FALSE
