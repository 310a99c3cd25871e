SPECIFICATION Spec
CONSTANTS
  BlockLen = 5
  LenBytes = 2
  Transforms <- MCTransforms
  MaxBytes = 23
  HBlock = 5
  HDigest = 2
  KeyLens <- MCKeyLens
  DataLens = {0, 1, 2}
  MaxData = 3
  Iterations = {1, 2, 3}
  DkLens = {0, 1, 2, 3, 5}
  Keys = {k1, k2}
  Streams = {s1, s2}
CHECK_DEADLOCK FALSE
INVARIANTS DigestIsOfMessage MacIsHmac DkIsPbkdf2 BlocksAreAes
