\* Executors in three circumstances.
CONSTANTS
  s1 = s1
  s2 = s2
  g1 = g1
  g2 = g2
  Sources <- MCSources
  Guards <- MCGuards
  QueueDepth = 2
  MaxTriggers = 2
  Settings <- MCSettings
SPECIFICATION FairSpec
INVARIANTS
  TypeOK
  NoLostWakeup
  NothingLeftAttached
  ReportedHasData
  ReportsAreTriggered
PROPERTIES
  DataIsReported
  TriggerIsReported
