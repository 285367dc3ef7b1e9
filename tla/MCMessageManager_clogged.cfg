\* The outbox under fairness, ticks until every retry is used up.
SPECIFICATION FairSpec
CONSTANTS
  RxSize = 1
  TxSize = 2
  IdMod = 4
  FirstId = 0
  Stations = {"a"}
  NoId = NoId
  RetryInputs = {1}
  DelayInputs = {1}
  FactoryRetries = 1
  FactoryDelay = 1
  Deltas = {1}
  MaxTime = 6
  LastCommand = 1
  MaxNextId = 3
PROPERTIES OutboxReopens
CHECK_DEADLOCK FALSE
