SPECIFICATION DaemonSpec
CONSTANTS
  Unit = 12
  Word = 1000
  Cpus = {0}
  Tids = {101}
  Prios = {50}
  Pids = {7, 8}
  OobFree = {0}
  OobCount = {0}
  WildLists = {}
  MaxTaskId = 1
  MaxFd = 2
  MaxConn = 2
  SigPipe = "ignored"
  Descs = {}
  SendTypes = {"create", "attach", "detach", "destroy"}
  Plugins <- FpOne
  CreateParams <- FpParams
  ModifyParams <- FpParams
CHECK_DEADLOCK FALSE
PROPERTIES DisconnectCleans RequestsAnswered
