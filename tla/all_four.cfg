SPECIFICATION Spec
CONSTANTS
  Unit = 12
  Word = 1000
  Cpus = {0, 1}
  Tids = {101}
  Prios = {0, 50, 99}
  Pids = {7}
  OobFree = {0}
  OobCount = {0}
  WildLists = {}
  MaxTaskId = 3
  Plugins <- AllFour
  CreateParams <- AllParams
  ModifyParams <- NoModify
INVARIANTS TypeOK CapacityConserved CountsExact
PROPERTIES WorstFit ReleaseDemotes
