SPECIFICATION Spec
CONSTANTS
    MaxDisks = 4
    UsbBase = 2
    AhciPorts = 1
    Pata <- MCPata
    Worlds <- MCWorlds
    Sticks <- MCSticks
    Image <- MCImage
    Files <- MCFiles
    Dirs <- MCDirs
    Sources <- MCSources
    Targets <- MCTargets
    MaxPath = 4
    MaxOps = 3
INVARIANTS MountHolds
PROPERTIES  CopyReaches SaveRestores
CONSTRAINT Sound
VIEW View
