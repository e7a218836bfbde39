\* Handlers may return an error: the loop moves on, and a later commit covers
\* the message that failed.
CONSTANTS
  r1 = r1
  r2 = r2
  p1 = p1
  p2 = p2
  m1 = m1
  NoMessage = NoMessage
  Replicas <- MCReplicas
  Partitions <- MCOnePartition
  Messages <- MCMessages
  Entry <- MCEntry
  MaxLog = 2
  MaxFaults = 1
SPECIFICATION Spec
INVARIANTS
  CommittedWereHandled
CHECK_DEADLOCK FALSE
