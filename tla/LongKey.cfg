\* kgetch's array of six, and the fifteen bytes the ring buffer may hold.
CONSTANTS
  Bytes = {"ESC", "[", "A", "NUL"}
  RECEIVED_MAX = 15
  MAX_SPECIAL_KEY_SEQ_LEN = 6
SPECIFICATION HexSpec
INVARIANT KeyFitsArray
