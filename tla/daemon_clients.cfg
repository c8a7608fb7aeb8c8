SPECIFICATION DaemonSpec
CONSTANTS
  Unit = 12
  Word = 1000
  Cpus = {0}
  Tids = {}
  Prios = {50}
  Pids = {7, 8}
  OobFree = {0}
  OobCount = {0}
  WildLists = {}
  MaxTaskId = 2
  MaxFd = 2
  MaxConn = 3
  SigPipe = "ignored"
  Descs = {}
  SendTypes = {"create", "destroy"}
  Plugins <- EdfOne
  CreateParams <- EdfParams
  ModifyParams <- Modify1
CHECK_DEADLOCK FALSE
INVARIANTS DaemonTypeOK NoOrphan ClientKeepsReservations RepliesMatch
PROPERTIES ImplementsService
