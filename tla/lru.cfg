SPECIFICATION Spec
CONSTANTS
  Ids = {i1, i2, i3, i4}
  Items = {x, y}
  Nothing = Nothing
  Nodes = {n1, n2, n3, n4}
  Null = Null
  MaxSize = 3
SYMMETRY Interchangeable
PROPERTIES
  ImplementsLRU
