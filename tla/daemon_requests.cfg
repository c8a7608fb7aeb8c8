SPECIFICATION DaemonSpec
CONSTANTS
  Unit = 12
  Word = 1000
  Cpus = {0, 1}
  Tids = {101}
  Prios = {50}
  Pids = {7}
  OobFree = {0}
  OobCount = {0}
  WildLists = {}
  MaxTaskId = 2
  MaxFd = 1
  MaxConn = 2
  SigPipe = "ignored"
  Descs = {0, 1, 2}
  SendTypes = {"create", "modify", "attach", "detach", "destroy", "connections_info", "plugins_info",
               "tasks_info", "connection_info", "plugin_info", "plugin_cpu_info", "task_info"}
  Plugins <- FpTwo
  CreateParams <- FpParams
  ModifyParams <- Modify1
CHECK_DEADLOCK FALSE
PROPERTIES ImplementsService
