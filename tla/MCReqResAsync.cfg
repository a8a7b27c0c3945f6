\* A service that defers its responses, every call may fail, both ends restart.
CONSTANTS
  c1 = c1
  c2 = c2
  Clients <- MCClients
  MaxSeq = 3
  QueueDepth = 2
  MaxHeld = 2
  MaxPending = 2
  Faults <- AllFaults
  AppRetries = FALSE
SPECIFICATION Spec
SYMMETRY ClientSymmetry
INVARIANTS
  TypeOK
  ResponseMatchesRequest
  PendingIsAnswerable
  NoDanglingPointer
  OneLife
  DeliveredInOrder
PROPERTY ImplementsRpc
