SPECIFICATION FairSpec
CONSTANTS
  QLen = 3
  MaxTasks = 2
  MaxCalls = 5
  Calls = {"run", "resume", "pause", "stop", "terminate", "reset_state", "deinit"}
  MayExpire = FALSE
  MayFail = FALSE
INVARIANTS FreedWhenLeft OneOwner
PROPERTIES CallReturns StopIsCarriedOut
CHECK_DEADLOCK FALSE
