\* The names of the nodes.
CONSTANTS
  Words <- MCWords
  Lower <- MCLower
  IdCapacity = 9
  NodeCapacity = 9
  RosNodes <- MCNodes
  RosTopics <- MCTopics
  OtherPorts <- MCOthers
  MaxPorts = 2
  MaxChanges = 4
SPECIFICATION Spec
INVARIANT NodesAreNamedAsCreated
CHECK_DEADLOCK FALSE
