\* The same frame heard twice while it waits.
SPECIFICATION Spec
CONSTANTS
  QueueSize = 2
  Frames = {"f"}
  ZeroCrc = {}
  NoFrame = NoFrame
  FactorySelected = {"f"}
  DupeInputs = {30}
  DelayInputs = {2}
  FactoryDupe = 30
  FactoryDelay = 2
  Deltas = {1}
  MaxTime = 3
  LastInput = 3
INVARIANTS NoFrameWaitsTwice
CHECK_DEADLOCK FALSE
