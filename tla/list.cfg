SPECIFICATION Spec
CONSTANTS
  Lists = {l1, l2}
  Nodes = {n1, n2, n3, n4}
  Null = Null
SYMMETRY Interchangeable
INVARIANTS Linked
PROPERTIES ImplementsList
CHECK_DEADLOCK FALSE
