SPECIFICATION FairSpec
CONSTANTS
  Size = 3
  Word = 2
  Lens = {1, 4}
  MaxBytes = 5
  SemMax = 2
  CntMod = 64
  Finite = FALSE
  ResetAnytime = FALSE
  AppOps = {"abort", "reset"}
  MaxOps = 1
PROPERTIES AbortEndsRead AbortEndsWrite WriteReturns EndIsReported
