SPECIFICATION Spec
CONSTANTS
  QLen = 3
  MaxTasks = 1
  MaxCalls = 6
  Calls = {"run", "resume", "stop", "wait_for_stop_ms", "terminate", "reset_rings"}
  MayExpire = TRUE
  MayFail = TRUE
INVARIANTS StopIsServed WritesLiveStream QuietIsConsistent
CHECK_DEADLOCK FALSE
