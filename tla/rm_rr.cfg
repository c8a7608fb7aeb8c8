SPECIFICATION Spec
CONSTANTS
  Unit = 12
  Word = 51
  Cpus = {0}
  Tids = {}
  Prios = {0, 1, 26, 51}
  Pids = {7}
  OobFree = {0}
  OobCount = {0}
  WildLists = {}
  MaxTaskId = 4
  Plugins <- RmRr
  CreateParams <- RmRrParams
  ModifyParams <- ModifySecond
INVARIANTS CapacityConserved PluginListsExact RMNoInversion RRPrioritiesSound NoCrash
