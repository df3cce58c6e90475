\* What the nonblocking writer reports after its first refusal.
CONSTANTS
  Writer = w
  Readers = {r1, r2}
  MaxMsgs = 2
  UIntMax = 3
SPECIFICATION NSpec
INVARIANT FullIsReportedWhenFull
