\* A MAX_SIZE of 8.
SPECIFICATION PollFairSpec
CONSTANTS
  Nobody = Nobody
  Producer = p
  Consumer = c
  MaxSize = 8
INVARIANT RangeDespiteRaces
PROPERTIES StoresKeepDirection CounterIsAtomic BothThreadsWork
