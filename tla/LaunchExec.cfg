\* What runs main's code after an execv that failed.
CONSTANTS
  Writer = w
  Readers = {r1, r2}
  MaxMsgs = 2
  UIntMax = 3
  TqFloatMax = 5
SPECIFICATION LnSpec
INVARIANT OnlyParentPauses
