CONSTANTS
  client = client
  other = other
  peer = peer
  Clients = {client}
  Peers = {peer}
  Parts = {"x", "y", "z"}
  Address <- FrontAddress
  Scenarios <- Reconnects
SPECIFICATION FairSpec
CHECK_DEADLOCK FALSE
PROPERTIES
  SendersEntered
