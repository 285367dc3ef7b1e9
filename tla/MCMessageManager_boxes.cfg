\* Inbox and outbox of two slots each; retries 2 and 0 (256 in a byte); commands until
\* LastCommand, answers at any time, then ticks for long enough to use up every retry.
SPECIFICATION FairSpec
CONSTANTS
  RxSize = 2
  TxSize = 2
  IdMod = 3
  FirstId = 0
  Stations = {"a"}
  NoId = NoId
  RetryInputs = {2, 256}
  DelayInputs = {2}
  FactoryRetries = 1
  FactoryDelay = 1
  Deltas = {1}
  MaxTime = 7
  LastCommand = 1
  MaxNextId = 2
INVARIANTS TypeOK BlankSlotsSilent IdsDistinctUntilWrap
PROPERTIES UnreadKept UnansweredKept AnsweredSilent RetriesConclude
CHECK_DEADLOCK FALSE
