\* Every type, both languages on both sides, three ends created in any order.
CONSTANTS
  Types <- MCTypes
  NoType = NoType
  Values <- MCValues
  Defaults <- MCDefaults
  None = None
  Interfaces <- MCInterfaces
  Fixtures <- MCFixtures
  MaxCreated = 3
SPECIFICATION Spec
CHECK_DEADLOCK FALSE
INVARIANTS
  TypeOK
  EndsAgree
  CacheTellsTruth
  FreshIsExact
  ReusedReflects
