\* Sixteen components, one at a time, each within the bounds given here.
SPECIFICATION Spec
CONSTANTS
  Places = {"here", "there"}
  NoPlace = "nowhere"
  Speeds = {9}
  FixTicks = 2
  PositionSlots = 2
  Home = "here"
  Senders = {"x", "y", "z"}
  HeardFrames <- MCHeardFrames
  SeenCapacity = 2
  Window = 2
  Minutes = 2
  Decades = 2
  Period = 2
  Strides <- MCStrides
  BucketFrames = 1
  RemoteKeys = 2
  Seeds = {"s", "t"}
  CommandDepth = 2
  EditorSize = 4
  Bytes = {"x"}
  EditorTexts <- MCEditorTexts
  Configs = {"new", "other"}
  DefaultConfig = "default"
  ForeignFiles <- MCForeignFiles
  Topics <- MCTopics
  Patterns <- MCPatterns
  MaxSubs = 2
  EventDepth = 2
  KissFrames <- MCKissFrames
  RxCapacity = 16
  Piece = 8
  LinkFrames = 2
  Calls = {"w", "d"}
  Ax25Texts <- MCAx25Texts
  FieldLen = 2
  Leftovers <- MCLeftovers
  MaxPath = 2
  MaxLine = 7
  WsMessages <- MCWsMessages
  Pieces = 2
  QueryStrings <- MCQueryStrings
  ModemFrames = 2
  RepeatSlots = 2
  TxSlots = 3
  TxMessages = {100}
  Retries = 1
  Delayed = TRUE
  OwnCall = "me"
  Callers = {"a", "b"}
  Ids = {"1"}
  LogEntries = 1
  MessageSlots = 1
  Drafts = 1
  Pages <- MCPages
  MaxTime = 1
  SettingTexts = {"t"}
  Delays = {300}
  MaxChanges = 1
  Stations = 3
  Height = 2
  Digis = {"D", "E"}
  DigiAliases <- MCDigiAliases
  SentPaths <- MCSentPaths
  Ssid = 0
  QueryKeys = 2
  Codes = {"c", "d"}
  KeyTimes = {1}
  MaxMade = 4
INVARIANTS TrafficKnown KeysSwitchedOff SteadyAreCalled FramesArrive ClientsServed
INVARIANTS LegacyBuffers LegacyTables
PROPERTIES DistancesFollow 
CHECK_DEADLOCK FALSE
