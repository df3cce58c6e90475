\* producer_withbroadcast.c: three consumers, a broadcast after each batch.
SPECIFICATION FairSpec
CONSTANTS
  Nobody = Nobody
  Producer = p
  Consumers = {c1, c2, c3}
  MaxSize = 2
  Batch = 2
  WakeAll = TRUE
INVARIANTS TypeOK NoLostWakeup CounterBound
PROPERTIES CounterIsAtomic WaitersAreWoken ConsumptionNeverStops
