\* Three clients, four descriptors, four connections, three subscriptions.
SPECIFICATION Spec
CONSTANTS
  MaxClients = 3
  MaxSubscribers = 3
  Topics = {"frame.rx", "gps.updated"}
  Filters = {{"frame.rx"}}
  NumFds = 4
  MaxConnections = 4
INVARIANTS TypeOK ClientsOwnSockets SubscriptionBelongs NoDanglingContext HeldContextsLive
CHECK_DEADLOCK FALSE
