SPECIFICATION Spec

CONSTANTS
  c1 = c1
  c2 = c2
  c3 = c3
  ip1 = ip1
  ip2 = ip2
  ip3 = ip3
  BadIP = BadIP
  NoConn = NoConn
  Conns = {c1, c2}
  IPs = {ip1, ip2}
  OwnIP <- ClientIP
  CutIPs <- NoCutIPs
  Pieces <- OnePiece
  RecvPieces = 1
  SendSlots = 1
  Says <- MemberSay
  MaxSends <- TwoSends
  Readers = {}
  Endings <- AnyEnding
  MayStop = TRUE

INVARIANTS
  EndedMemberIsClosed
