\* A service that answers each request before it takes the next one.
CONSTANTS
  c1 = c1
  c2 = c2
  Clients <- MCClients
  MaxSeq = 2
  QueueDepth = 4
  MaxHeld = 2
  MaxPending = 1
  Faults <- NoFaults
  AppRetries = TRUE
SPECIFICATION FairSpec
INVARIANT HeldForItsResponse
PROPERTY RequestIsAnswered
