\* Lengths on both sides of every limit; two rounds of two guesses.  The
\* benchmark ends.
SPECIFICATION TcSpec
CONSTANTS
  CcKeyLengths = {0, 3, 64, 65}
  CcDataLengths = {0, 8, 12, 512, 520}
  TcRounds = 2
  TcIterations = 2
  TcPassLength = 24
  TcKeyLength = 3
INVARIANTS CcEndsClean CcInitPrecedes TcBenchmarkOK
CHECK_DEADLOCK FALSE
