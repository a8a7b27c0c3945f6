\* The views by topic.
CONSTANTS
  Words <- MCWords
  Lower <- MCLower
  IdCapacity = 9
  NodeCapacity = 9
  RosNodes <- MCNodes
  RosTopics <- MCTopics
  OtherPorts <- MCOthers
  MaxPorts = 2
  MaxChanges = 4
SPECIFICATION Spec
INVARIANT EndpointQueriesAreASnapshot
CHECK_DEADLOCK FALSE
