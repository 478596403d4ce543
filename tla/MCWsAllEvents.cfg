\* One connection, a longer feed, and everything the outside may do; liveness
\* under the fairness of threads and network.
SPECIFICATION FairSpec
CONSTANTS
  c1 = c1
  c2 = c2
  w1 = w1
  w2 = w2
  Conn = {c1}
  Worker = {w1}
  WorkerOf <- OneWorker
  MaxPackets = 4
  Events = {"eof", "reset", "ping", "recverror", "stop"}
INVARIANT WireProtocol
PROPERTIES GoodbyeFrees ImplementsFairFeed
CHECK_DEADLOCK FALSE
