\* The queries by node, the names they report, and the process that follows the graph.
CONSTANTS
  Words <- MCWords
  Lower <- MCLower
  IdCapacity = 9
  NodeCapacity = 9
  RosNodes <- MCNodes
  RosTopics <- MCTopics
  OtherPorts <- MCOthers
  MaxPorts = 2
  MaxChanges = 4
SPECIFICATION FairSpec
INVARIANTS
  TypeOK
  NodeQueriesAreASnapshot
  ViewLagsOneSample
  ReportedLeadsToAPort
  LanguagesMeet
PROPERTY GraphIsSeen
CHECK_DEADLOCK FALSE
