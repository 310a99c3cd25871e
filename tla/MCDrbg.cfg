SPECIFICATION DrbgSpec
CONSTANTS
  RESEED_INTERVAL = 2
  GENERATE_MAXLEN = 4
  HashLen = 2
  InstantiateLen = 3
  ReseedLen = 2
  Rdrand = TRUE
  MaxRequest = 9
  MaxCalls = 3
CHECK_DEADLOCK FALSE
INVARIANTS OutputIsSeeded OutputNotRecoverable ReaderReleased
