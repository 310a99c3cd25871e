SPECIFICATION FairSpec
CONSTANTS
  Cells <- MCCells
  Tag <- MCTag
  Nothing = Nothing
  a = a
  b = b
  TagLen = 2
  EncBlock = 2
  Authentic <- MCAuthentic
  Inputs <- MCInputs
  Headers = {"short", "magic", "version", "truncated", "checksum", "params", "signature", "good"}
  Forced = {TRUE, FALSE}
INVARIANTS NoUnauthenticatedPlaintext SuccessfulCopyIsWhole ReadErrorRejects FailureLeavesNothing AuthenticIsAccepted
PROPERTIES ImplementsAuthRelease CallReturns
