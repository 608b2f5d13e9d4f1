SPECIFICATION PlanSpec
CONSTANTS
  Nodes = {1}
  MaxDeps = 0
  Shared = {}
  Apps = {1, 2}
  Groups = {1}
  Stems = {}
INVARIANT AnyEcosystemInOrder
CHECK_DEADLOCK FALSE
