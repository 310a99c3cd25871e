SPECIFICATION RPSpec
CONSTANTS
  badsigs <- MCbadsigs
  Fatal <- MCFatal
  Lines = {A, B}
  Zeroed = Zeroed
  MaxCalls = 2
  MaxSignals = 3
CHECK_DEADLOCK FALSE
INVARIANTS ResentWithEcho
