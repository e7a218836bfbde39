\* Two replicas, two partitions and every kind of fault.
CONSTANTS
  r1 = r1
  r2 = r2
  p1 = p1
  p2 = p2
  m1 = m1
  NoMessage = NoMessage
  Replicas <- MCReplicas
  Partitions <- MCPartitions
  Messages <- MCMessages
  Entry <- MCEntry
  MaxLog = 2
  MaxFaults = 3
SPECIFICATION FairSpec
INVARIANTS
  TypeOK
  CommittedWereTried
  NothingLeftBehind
PROPERTIES
  EverythingTried
\* Producers are finite: the log fills up and everything is committed.
CHECK_DEADLOCK FALSE
