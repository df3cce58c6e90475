\* Programs that may stop: a capture that hangs or returns, a child that
\* nobody signals, a process that was killed.
SPECIFICATION FairSpec
CONSTANTS
  TlvLength = 2
  CapChunk = 2
  CapCapacity = 4
  CapMaxTotal = 5
  CapMaxGarbage = 3
  SgMaxSends = 5
  ZpMaxName = 3
  ZpDirs = {2}
INVARIANTS TlvIntact CapResult WpLastWord SgProtected ZpRunOK
PROPERTIES MessagesEnd CaptureReturns BothEnd AllHandled
CHECK_DEADLOCK FALSE
