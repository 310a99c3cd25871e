SPECIFICATION Spec
CONSTANTS
  Block = 2
  Base = 3
  Nonces = {n1, n2}
  Garbage = {0, 5}
  Detected = {0, 1, 2}
  MaxBytes = 14
INVARIANTS KeystreamInOrder
PROPERTIES ImplementsCtrStream
