\* Three slots; callbacks call the engine again, up to three loops nested.
SPECIFICATION FairSpec
CONSTANTS
  Size = 3
  Commands = {"beacon", "message", "keys"}
  KeysCommand = "keys"
  Nothing = Nothing
  MaxDrains = 3
  Reentrant = TRUE
INVARIANTS TypeOK RingConsistent
PROPERTIES ImplementsFifo ImplementsFairFifo LoopReturns
CHECK_DEADLOCK FALSE
