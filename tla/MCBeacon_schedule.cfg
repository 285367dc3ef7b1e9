SPECIFICATION FairSpec
CONSTANTS
  Places = {home}
  NoPlace = NoPlace
  Speeds = {80, 120}
  FixTicks = 1
  Paths = 2
  Texts = 1
  Delays = {1}
  FactoryDelay = 4
  SmartFloor = 2
  SmartScale = 240
  PathCommands <- MCPathCommands
  TextCommands <- MCTextCommands
  Locks <- MCLocks
  Files <- MCFiles
INVARIANT TypeOK
INVARIANT FixMatchesCounter
PROPERTY RetryStops
PROPERTY EveryPathUsed
