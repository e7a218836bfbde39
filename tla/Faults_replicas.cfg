\* One bet, two processes: every kind of fault while the keys hold.
CONSTANTS
  r1 = r1
  r2 = r2
  u1 = u1
  b1 = b1
  b2 = b2
  m1 = m1
  m2 = m2
  o1 = o1
  o2 = o2
  p1 = p1
  NoMessage = NoMessage
  Users <- OneUser
  Bets <- OneBet
  Markets <- OneMarket
  Outcomes <- TwoOutcomes
  Slip <- SameOutcome
  Opening <- FatWallets
  Replicas <- TwoReplicas
  BetPartitions <- OnePartition
  SettlePartitions <- OnePartition
  BetPartition <- OnThePartitionOfUser
  SettlePartition <- OnThePartitionOfMarket
  Env <- KeysHoldOddsMove
  MaxAnnouncements = 0
  MaxFaults = 3
  OddsValues <- SomeOdds
SPECIFICATION Spec
SYMMETRY ReplicaSymmetry
INVARIANTS
  AtMostOneDebit
  RefusedTakesNothing
PROPERTY ChecksHold
CHECK_DEADLOCK FALSE
