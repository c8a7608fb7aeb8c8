SPECIFICATION HeapSpec
CONSTANTS
  TopLists = {}
  SortedLists = {percpu}
  Elems = {1, 2, 3}
  Nodes = {x1, x2, x3}
  Nothing = Nothing
  NULL = NULL
  Junk = Junk
  Key <- ElemKey
  Owner <- ElemOwner
PROPERTY EqualsGoAfter
