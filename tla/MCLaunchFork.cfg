CONSTANTS
  MaxProcs = 3
  MaxPid = 6
  MaxOpenFiles = 0
  SliceTicks = 1
  TickMod = 1
  UsbKeyboard = FALSE
SPECIFICATION BootedSpec
PROPERTY ForkChildKept
