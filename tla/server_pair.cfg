SPECIFICATION FairSpec

CONSTANTS
  c1 = c1
  c2 = c2
  c3 = c3
  ip1 = ip1
  ip2 = ip2
  ip3 = ip3
  BadIP = BadIP
  NoConn = NoConn
  Conns = {c1, c2}
  IPs = {ip1, ip2, ip3}
  OwnIP <- ClientIP
  CutIPs <- Ip2CutIsIp3
  Pieces <- JoinInTwo
  RecvPieces = 2
  SendSlots = 1
  Says <- PairSay
  MaxSends <- TwoSendsOfC1
  Readers = {c1}
  Endings <- MixedEndings
  MayStop = FALSE

INVARIANTS
  TypeOK
  ForwardedToOwner

PROPERTIES
  HungUpHandlerEnds
  StreamIsRead
