CONSTANTS
  MaxProcs = 2
  MaxPid = 3
  MaxOpenFiles = 0
  SliceTicks = 1
  TickMod = 1
  UsbKeyboard = TRUE
SPECIFICATION Spec
INVARIANT KilledStops
