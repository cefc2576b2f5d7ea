SPECIFICATION Spec
CONSTANTS
  Byte <- Ages
  MaxBegin = 2
  MaxSlots = 12
  MainBufSize = 14
  Headers <- MCHeaders
  SlotSet = {12}
  Begins = {0, 2}
  SideInfo <- MCSideInfo
  Scfsi <- MCScfsi
  MaxFrames = 2
INVARIANTS
  CodeWordsFit
  FrameLayout
  ReadsOwnData
  FactorsAreFresh
  SpectrumIsKept
  OverlapIsKnown
  SynthesisHistory
CHECK_DEADLOCK FALSE
