SPECIFICATION FairSpec

CONSTANTS
  h1 = h1
  h2 = h2
  h3 = h3
  h4 = h4
  h5 = h5
  INVALID_SOCKET = INVALID_SOCKET
  Uninitialized = Uninitialized
  Handles <- AllHandles
  Scenarios <- BothScenarios

INVARIANTS
  TypeOK
  CheckerLeaksNothing

PROPERTIES
  Heals
  HealsUnderMenu
