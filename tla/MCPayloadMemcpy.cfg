\* Every type, both languages; one end on each side.
CONSTANTS
  Types <- MCTypes
  NoType = NoType
  Values <- MCValues
  Defaults <- MCDefaults
  None = None
  Interfaces <- MCInterfaces
  Fixtures <- MCFixtures
  MaxCreated = 2
SPECIFICATION Spec
CHECK_DEADLOCK FALSE
INVARIANT MemcpiedIsIntact
