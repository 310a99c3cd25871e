SPECIFICATION Spec
CONSTANTS
  M = 17
  Expand <- MCExpand
  Salsa <- MCSalsa
  Xor <- MCXor
  TestCase <- MCTestCase
  Requests <- MCRequests
CHECK_DEADLOCK FALSE
INVARIANTS DerivesScrypt MemoryReleased
