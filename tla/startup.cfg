SPECIFICATION StartupSpec
CONSTANTS
  Procs = 3
  Full = 20
  IntLimit = 128
  MaxStarts = 3
  Docs <- SomeDocs
  Params <- SomeParams
CHECK_DEADLOCK FALSE
INVARIANTS StartupTypeOK ReadAsWritten SchedulerGetsValid LimitHonoured NothingLost NoDrift
