\* Two publishers whose three chunks two subscriptions share; copies may fail.
CONSTANTS
  p1 = p1
  p2 = p2
  s1 = s1
  s2 = s2
  ch1 = ch1
  ch2 = ch2
  ch3 = ch3
  Publishers <- TwoPublishers
  Subscriptions <- TwoSubscriptions
  Chunks <- ThreeChunks
  NoChunk = NoChunk
  MaxMessages = 3
  QueueDepth = 2
  MaxLoans = 1
  MaxHeld = 2
  Failures <- AllFailures
SPECIFICATION Spec
SYMMETRY TopicSymmetry
INVARIANTS
  TypeOK
  LoanIsExclusive
  LoanedStaysIntact
  ReceivedInOrder
  NoChunkLeaks
PROPERTY ImplementsTopic
