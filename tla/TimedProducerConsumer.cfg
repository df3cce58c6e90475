\* Threads delayed at will and threads that run at once.  The process exits,
\* so it may stop.
SPECIFICATION TFairSpec
CONSTANTS
  Nobody = Nobody
  Producer = p
  Consumers = {c1, c2}
  MaxSize = 2
  Batch = 2
  WakeAll = TRUE
  TimeToWait = 2
  MaxTime = 5
INVARIANTS TimedTypeOK OneBatchThenExit
PROPERTIES ImplementsUntimed ProcessExits
CHECK_DEADLOCK FALSE
