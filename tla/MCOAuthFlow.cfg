SPECIFICATION FairSpec
CONSTANTS
  url1 = url1
  ann = ann
  bob = bob
  r1 = r1
  r2 = r2
  Nil = Nil
  URLs <- OneURL
  OtherStates <- MadeElsewhere
  People <- TwoPeople
  GitHubIDs <- Numbers
  Mail <- Addresses
  Mantissa = 3
  TTL = 1
  MaxTime = 1
  MaxCodes = 2
  Requests <- TwoRequests
INVARIANTS
  LoginIsWhoAuthorised
  EmailIsProviders
  StartedFlowsStand
PROPERTIES
  EveryCallbackEnds
CHECK_DEADLOCK FALSE
