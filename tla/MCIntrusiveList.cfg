\* Three lists and three nodes.
SPECIFICATION Spec
CONSTANTS
  Lists = {l1, l2, l3}
  Nodes = {n1, n2, n3}
  NULL = NULL
INVARIANTS
  NeighboursAgree
  NodesLeadToAList
PROPERTIES
  ImplementsWaiterLists
