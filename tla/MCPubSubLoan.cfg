\* One of each; the application keeps what was lent to it.
CONSTANTS
  p1 = p1
  p2 = p2
  s1 = s1
  s2 = s2
  ch1 = ch1
  ch2 = ch2
  ch3 = ch3
  Publishers <- OnePublisher
  Subscriptions <- OneSubscription
  Chunks <- ThreeChunks
  NoChunk = NoChunk
  MaxMessages = 2
  QueueDepth = 1
  MaxLoans = 1
  MaxHeld = 1
  Failures <- NoFailures
SPECIFICATION Spec
SYMMETRY TopicSymmetry
INVARIANT TakenLoanIsHeld
