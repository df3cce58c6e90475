\* The three readers of rwlock.c and three batches; up to three threads to
\* join.  The programs of threads_deadlock.c and threads_basic.c stop.
SPECIFICATION FairSpec
CONSTANTS
  RwReaders = {r1, r2, r3}
  RwBatch = 2
  RwMaxCounter = 6
  FjMaxThreads = 3
INVARIANTS RwWholeBatches FjResults
PROPERTIES EverythingIsRead EndsStuck ThreadsAreJoined
CHECK_DEADLOCK FALSE
