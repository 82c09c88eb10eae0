CONSTANTS
  MaxProcs = 3
  MaxPid = 3
  MaxOpenFiles = 0
  SliceTicks = 2
  TickMod = 2
  UsbKeyboard = FALSE
SPECIFICATION FairSpec
PROPERTIES ReadyRuns ExitedReaped
