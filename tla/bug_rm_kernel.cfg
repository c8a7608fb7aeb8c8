SPECIFICATION ClaimSpec
CONSTANTS
  Unit = 12
  Word = 1000
  Cpus = {0, 1}
  Tids = {101, 102}
  Prios = {0}
  Pids = {7}
  OobFree = {0}
  OobCount = {0}
  WildLists = {}
  MaxTaskId = 3
  Plugins <- RmWide
  CreateParams <- RmPeriods
  ModifyParams <- NoModify
INVARIANT KernelRateMonotonic
