SPECIFICATION Spec
CONSTANTS
  Size = 4
  Word = 2
  Lens = {0, 2, 3, 5}
  MaxBytes = 6
  SemMax = 2
  CntMod = 64
  Finite = TRUE
  ResetAnytime = FALSE
  AppOps = {"abort", "unblock", "reset"}
  MaxOps = 2
INVARIANTS IInv InOrder EndIsTheEnd
PROPERTY StreamSpec
