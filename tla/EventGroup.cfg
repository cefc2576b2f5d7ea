SPECIFICATION Spec
CONSTANTS
  Threads = {t1, t2, t3}
  Bits = {b1, b2, b3}
  Shared = FALSE
  MayExpire = TRUE
SYMMETRY Symmetry
INVARIANT NobodySleepsOnASetBit
