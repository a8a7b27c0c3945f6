\* Two clients and a service that defers its responses; no call fails.
CONSTANTS
  c1 = c1
  c2 = c2
  Clients <- MCClients
  MaxSeq = 2
  QueueDepth = 4
  MaxHeld = 3
  MaxPending = 2
  Faults <- NoFaults
  AppRetries = FALSE
SPECIFICATION Spec
SYMMETRY ClientSymmetry
INVARIANT HeldForItsResponse
