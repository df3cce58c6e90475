\* producer_withsignal.c: one consumer, a signal after each increment.
SPECIFICATION FairSpec
CONSTANTS
  Nobody = Nobody
  Producer = p
  Consumers = {c1}
  MaxSize = 6
  Batch = 1
  WakeAll = FALSE
PROPERTY ConsumptionNeverStops
