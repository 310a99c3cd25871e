SPECIFICATION Spec
CONSTANTS
  a = a
  b = b
  Forged = Forged
  Bytes = {a, b}
  Inputs <- MCInputs
  HeaderLen = 4
  MagicLen = 1
  SumLen = 3
  TagLen = 2
  EncBlock = 2
INVARIANTS SuccessIsWhole DecryptsToInput KeysZeroed ReadErrorFails
