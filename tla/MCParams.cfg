SPECIFICATION Spec
CONSTANTS
  Pow2 <- MCPow2
  MaxLogN = 15
  MiB = 1048576
  OpsFloor = 1048576
  RPLimit = 2048
  SizeMax = 33554431
  U32 = 16384
  U64 = 4194303
  Memories <- MCMemories
  Speeds <- MCSpeeds
  MaxMems <- MCMaxMems
  LogNs <- MCLogNs
  Rs <- MCRs
  Ps <- MCPs
CHECK_DEADLOCK FALSE
INVARIANTS ShiftsDefined PickedWithinLimits PickedIsStrongest DecryptsUnderSameLimits ShownIsTrue
