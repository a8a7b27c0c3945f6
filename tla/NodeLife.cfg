\* A node, its endpoints and a wait set created and destroyed again and again, three
\* changes of the graph.
CONSTANT MaxChanges = 3
SPECIFICATION FairSpec
INVARIANTS
  TypeOK
  CallbackTouchesLive
  CleanupReachesLive
  NothingLeaks
PROPERTIES
  ChangeIsAnnounced
  CleanupEnds
