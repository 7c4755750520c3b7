CONSTANTS
  Files <- MCFiles
  NoFile = NoFile
  BinSh = "pure"
  Aout <- MCAout
  Kerns = {"v1", "bsd211"}
  Core = 10
  Page = 2
  Slot = 3
  V1Base = 2
  V1Top = 4
  Novl = 2
  MaxOvl = 2
  MaxArgs = 1
  MaxPush = 1
  Breaks = {8, 9}
  MaxFrames = 2
SPECIFICATION Spec
INVARIANTS
  WindowHoldsCurrent
  SegmentsInPlace
  ExecByFileAlone
PROPERTIES
  OverlayResumed
CHECK_DEADLOCK FALSE
