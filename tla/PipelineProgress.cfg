SPECIFICATION FairSpec
CONSTANTS
  Amount = 1
  Capacity = 1
  Size = 1
  Blocking = {}
  Clients = {
    {"run", "stop", "wait_for_stop", "reset_ringbuffer", "reset_items_state", "listen",
     "listen_more", "set_listener", "remove_listener"},
    {"run", "pause", "resume", "stop", "wait_for_stop", "wait_for_stop_with_ticks",
     "terminate", "reset_ringbuffer", "reset_elements"}}
  MaxCalls = 6
  Faults = {}
  Resets = TRUE
  Patient = TRUE
  MayExpire = FALSE
PROPERTY FinishedIsTrue
PROPERTY CallsReturn
PROPERTY PlaysOut
CHECK_DEADLOCK FALSE
