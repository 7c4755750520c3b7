CONSTANTS
  Files <- WideFiles
  NoFile = NoFile
  BinSh = "pure"
  Aout <- MCAout
  Kerns = {"v1", "bsd211"}
  Core = 10
  Page = 2
  Slot = 3
  V1Base = 2
  V1Top = 4
  Novl = 2
  MaxOvl = 2
  MaxArgs = 1
  MaxPush = 1
  Breaks = {8, 9}
  MaxFrames = 2
SPECIFICATION Spec
PROPERTIES
  SwitchWithinWindow
CHECK_DEADLOCK FALSE
