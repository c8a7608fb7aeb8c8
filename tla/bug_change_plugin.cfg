SPECIFICATION Spec
CONSTANTS
  Unit = 12
  Word = 1000
  Cpus = {0, 1}
  Tids = {}
  Prios = {0}
  Pids = {7}
  OobFree = {0}
  OobCount = {0}
  WildLists = {}
  MaxTaskId = 4
  Plugins <- EdfRm
  CreateParams <- HalfCpu
  ModifyParams <- ModifyLast
INVARIANT CapacityConserved
