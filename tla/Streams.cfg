SPECIFICATION Spec
CONSTANTS
  Size = 3
  MaxPos = 6
  MaxErrors = 2
INVARIANTS
  ReadsGoOn
  HeaderIsTrue
CHECK_DEADLOCK FALSE
