\* One bet, one process: failing calls, crashes, rebalances, and keys that expire.
CONSTANTS
  r1 = r1
  r2 = r2
  u1 = u1
  b1 = b1
  b2 = b2
  m1 = m1
  m2 = m2
  o1 = o1
  o2 = o2
  p1 = p1
  NoMessage = NoMessage
  Users <- OneUser
  Bets <- OneBet
  Markets <- OneMarket
  Outcomes <- TwoOutcomes
  Slip <- SameOutcome
  Opening <- FatWallets
  Replicas <- OneReplica
  BetPartitions <- OnePartition
  SettlePartitions <- OnePartition
  BetPartition <- OnThePartitionOfUser
  SettlePartition <- OnThePartitionOfMarket
  Env <- CallsCrashesExpiry
  MaxAnnouncements = 2
  MaxFaults = 2
  OddsValues <- SomeOdds
SPECIFICATION Spec
INVARIANTS
  TypeOK
  PersistedWasDebited
  PaidOnlyOnce
  SettledMarketAnnounced
  UnmarkedNeedFaults
  DebitsNeedFaults
PROPERTIES
  DecisionIsFinal
CHECK_DEADLOCK FALSE
