SPECIFICATION EncodeSpec
CONSTANTS
  Jobs <- EncodeJobs
  Hash <- MCHash
  Buckets <- MCBuckets
  Window = 54
  RunMask = 9
  ByteMax = 10
  SkipTrigger = 2
  MaxInput = 200
  Memory = 7
  Starts = {0, 3}
  BlockSizes = {1, 3, 4}
  DictSizes = {0, 4}
  MaxText = 6
  KB64 = 4
  MatchBytes = 2
  MatchRoom = 2
  HashUnit = 3
  Large = 3
  Aged = 6
  RenormAt = 12
CHECK_DEADLOCK FALSE
INVARIANTS
  StaysInside
  Succeeds
  RoundTrip
  AcceptedByDecoder
  AssertionsHold
  NeverMisled
  TableBehind
