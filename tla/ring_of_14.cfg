SPECIFICATION DecodeSpec
CONSTANTS
  ByteMax = 10
  \* the safe decoder
  Jobs <- Ring14Jobs
  Inputs <- Ring14Inputs
  MaxSequences = 2
  Window = 64
  \* the other one
  Calls <- UnsafeCalls
  Lits = {0, 1, 5, 12, 15}
  Offsets = {0, 1, 5, 11}
  MatchLengths = {4, 7, 19}
  MaxRead = 3
  \* rings: every rule of lz4.h; the margin and the overshoot are to each other as 14 is to 31
  Rules = {"any", "sync", "larger", "larger, exact", "save"}
  Decoders = {"safe", "fast"}
  EmptyFast = FALSE
  EncRing = 12
  MaxBlock = 5
  Margin = 2
  Overshoot = 5
  KB64 = 16
  MatchBytes = 2
CHECK_DEADLOCK FALSE
INVARIANT
  WindowIntact
