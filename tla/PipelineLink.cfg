SPECIFICATION Spec
CONSTANTS
  El = {a, b, c}
  Rb = {r1, r2, r3}
  Null = Null
  MaxChain = 3
  MaxStale = 1
  MayFail = TRUE
  MayAbandon = FALSE
SYMMETRY Sym
INVARIANTS NoDangling NoLeak  KeptIsHeld
CHECK_DEADLOCK FALSE
