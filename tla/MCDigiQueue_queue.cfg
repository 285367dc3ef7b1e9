\* Two slots, three frames: the queue overflows, delays change while frames wait; after
\* LastInput ticks only, until every delay has passed.
SPECIFICATION FairSpec
CONSTANTS
  QueueSize = 2
  Frames = {"f", "g", "z"}
  ZeroCrc = {"z"}
  NoFrame = NoFrame
  FactorySelected = {"f", "g", "z"}
  DupeInputs = {2}
  DelayInputs = {0, 2}
  FactoryDupe = 3
  FactoryDelay = 1
  Deltas = {1}
  MaxTime = 5
  LastInput = 2
INVARIANTS TypeOK NothingOverdue
PROPERTIES LeavesInTurn SilentWhenOff WaitingServed
CHECK_DEADLOCK FALSE
