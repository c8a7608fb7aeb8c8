SPECIFICATION MonitorSpec
CONSTANTS
  Users = {m1, m2}
  Me = m1
  Mon = m2
  Nobody = nobody
  Ids = {1, 2}
  MaxDesc = 3
  Threads = {1, 2}
  Free = 0
  CallTypes = {"create", "attach", "destroy"}
  MaxCalls = 3
  Runtime <- Runtimes
CHECK_DEADLOCK FALSE
INVARIANTS LibraryTypeOK ExchangesPaired TasksTrue BlindOnce WalkTrue
PROPERTIES MutexReleased WalkEnds
