SPECIFICATION HeapSpec
CONSTANTS
  TopLists = {tasks}
  SortedLists = {percpu}
  Elems = {1, 2, 3}
  Nodes = {x1, x2, x3, x4, x5, x6}
  Nothing = Nothing
  NULL = NULL
  Junk = Junk
  Key <- ElemKey
  Owner <- ElemOwner
SYMMETRY NodeSymmetry
INVARIANTS HeapExact StaysSorted
PROPERTIES ImplementsSequences LoopsShrink
