CONSTANTS
  client = client
  other = other
  peer = peer
  Clients = {client, other}
  Peers = {peer}
  Parts = {"x", "y", "z"}
  Address <- FrontAddress
  Scenarios <- AnyScenario
SPECIFICATION Spec
CHECK_DEADLOCK FALSE
INVARIANTS
  TypeOK
  MembersListed
  StaleEntriesGo
  JoinedIsEntered
