\* A connection on each of two workers, running beside the UDP thread.
SPECIFICATION Spec
CONSTANTS
  c1 = c1
  c2 = c2
  w1 = w1
  w2 = w2
  Conn = {c1, c2}
  Worker = {w1, w2}
  WorkerOf <- TwoWorkers
  MaxPackets = 2
  Events = {"eof", "reset"}
INVARIANTS NeverDeletedWhileRegistered HandlerOwnsConnection
PROPERTY ImplementsFeed
CHECK_DEADLOCK FALSE
