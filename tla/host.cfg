CONSTANTS
  ping = ping
  odd = odd
  here = here
  there = there
  Packets = {ping, odd}
  Throwing = {odd}
  Failing <- AnyFailure
  RingSlots = 2
  MaxPackets = 3
  MayQuit = TRUE
  Words = 65536
  RawPackets <- AnyPackets
  StrayBytes <- SomeBytes
  Machines = {here, there}
  Serials <- SomeSerials
  MayFail = TRUE
  StrayChars <- SomeChars
SPECIFICATION HostSpec
CHECK_DEADLOCK FALSE
INVARIANTS
  TypeOK
  ReadInOrder
  InjectedFilled
  PayloadFound
  ServerAccepts
  Distinguishes
PROPERTIES
  RingDrains
