SPECIFICATION Spec
CONSTANTS
  CommandLines <- MCLines
  IntOf <- MCIntOf
  FracOf <- MCFracOf
  Digit <- MCDigit
  Prefix <- MCPrefix
  Chars = {"a"}
  MAXPASSLEN = 3
  UINT64_MAX = 65535
  SIZE_MAX = 32767
  MiB = 3
  Amounts = {2000, 16000, 32767, 50000}
  Units = {4}
  Resolutions = {1, 2}
  MaxSetBacks = 1
CHECK_DEADLOCK FALSE
INVARIANTS
  OptionsAsWritten
  SizeIsExact
  PassphraseIsLine
  LimitIsMemory
PROPERTIES
  StartupEnds
