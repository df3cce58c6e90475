\* Any caller, data of 12 bytes among the rest.
SPECIFICATION CcSpec
CONSTANTS
  CcKeyLengths = {3}
  CcDataLengths = {8, 12}
INVARIANT CcWholeBlocks
