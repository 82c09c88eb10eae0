CONSTANTS
  MaxProcs = 4
  MaxPid = 4
  MaxOpenFiles = 0
  SliceTicks = 1
  TickMod = 1
  UsbKeyboard = FALSE
SPECIFICATION LaunchSpec
INVARIANT ExitsToShell
