CONSTANTS
  Slots = {1, 2}
  MaxStorage = 2
  MaxHid = 2
  MaxLines = 3
  Cols = 4
  MaxCols = 5
  Rows = 2
  Tab = 2
  Chunk = 3
  BotRetries = 2
  TurRetries = 2
  CapRetries = 2
  MaxLba = 10
  Configs <- MCConfigs
  Descs <- MCDescs
  Worlds <- MCWorlds
SPECIFICATION DevSpec
CONSTRAINT Shallow
VIEW View
INVARIANTS  HistoryShows EntriesLive  BotTrue
PROPERTIES RepeatsHeld 
CHECK_DEADLOCK FALSE
