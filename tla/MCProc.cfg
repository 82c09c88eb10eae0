CONSTANTS
  MaxProcs = 4
  MaxPid = 4
  MaxOpenFiles = 1
  SliceTicks = 1
  TickMod = 1
  UsbKeyboard = FALSE
SPECIFICATION Spec
INVARIANTS PidsUnique RunsCurrent OwnAddressSpace VforkParentWakes ConsoleKept FdOwnerKnown KillServed
PROPERTIES StackKept WaitMonotone
