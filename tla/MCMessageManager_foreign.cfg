\* Answers between other stations.
SPECIFICATION Spec
CONSTANTS
  RxSize = 1
  TxSize = 1
  IdMod = 3
  FirstId = 0
  Stations = {"a"}
  NoId = NoId
  RetryInputs = {1}
  DelayInputs = {1}
  FactoryRetries = 1
  FactoryDelay = 1
  Deltas = {1}
  MaxTime = 2
  LastCommand = 2
  MaxNextId = 2
PROPERTIES ForeignFramesSettleNothing
CHECK_DEADLOCK FALSE
