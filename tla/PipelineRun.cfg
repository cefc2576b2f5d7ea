SPECIFICATION Spec
CONSTANTS
  Amount = 2
  Capacity = 1
  Size = 2
  Blocking = {}
  Clients = {{"run", "pause", "resume", "stop", "wait_for_stop", "terminate", "reset_ringbuffer"}}
  MaxCalls = 6
  Faults = {"thread", "open", "process"}
  Resets = TRUE
  Patient = TRUE
  MayExpire = FALSE
INVARIANTS
  PlaysOneStream
  FinishedIsComplete
CHECK_DEADLOCK FALSE
