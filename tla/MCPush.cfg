\* One message, and an endpoint for every registration that a failure and
\* two renewals, stops or crashes can ask for.
SPECIFICATION FairSpec
CONSTANTS
  Tokens = {"a", "b", "c", "d"}
  NoToken = "none"
  Messages = {"m"}
  NoMessage = "none"
  MaxUnacked = 1
  MaxFaults = 1
  MaxTurns = 2
INVARIANTS
  PushTypeOK
  NoForgottenEndpoint
  ListenedIsRegistered
  AckedIsDurable
PROPERTIES
  EveryMessageHandled
  RetiredEndpointLeaves
CHECK_DEADLOCK FALSE
