\* Two clients in two descriptors.
SPECIFICATION Spec
CONSTANTS
  MaxClients = 2
  MaxSubscribers = 3
  Topics = {"frame.rx", "gps.updated"}
  Filters = {{"frame.rx"}, {"gps.updated"}}
  NumFds = 2
  MaxConnections = 3
INVARIANTS EventsReachSubscriber
CHECK_DEADLOCK FALSE
