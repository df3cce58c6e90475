\* Two readers, a queue of 2, an unsigned int that wraps after 3 and a float
\* that stops at 2.0; mq.c ends a run at its bound of 4.  A process none of
\* whose launches went well stops.
CONSTANTS
  Writer = w
  Readers = {r1, r2}
  MaxMsgs = 2
  UIntMax = 3
  TqFloatMax = 4
  PlainMax = 4
SPECIFICATION QFairSpec
INVARIANTS WriterNeverBlocks NonblockAscends
PROPERTIES DeliversInOrder TqChain PlainInOrder ThreadsKeepReceiving ProcessesKeepReceiving
CHECK_DEADLOCK FALSE
