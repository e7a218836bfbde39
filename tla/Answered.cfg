\* No crash and no failing call, but duplicates and rebalances: the books balance and every bet is answered.
CONSTANTS
  r1 = r1
  r2 = r2
  u1 = u1
  b1 = b1
  b2 = b2
  m1 = m1
  m2 = m2
  o1 = o1
  o2 = o2
  p1 = p1
  NoMessage = NoMessage
  Users <- OneUser
  Bets <- TwoBets
  Markets <- TwoMarkets
  Outcomes <- TwoOutcomes
  Slip <- OtherMarket
  Opening <- Wallets
  Replicas <- OneReplica
  BetPartitions <- OnePartition
  SettlePartitions <- OnePartition
  BetPartition <- OnThePartitionOfUser
  SettlePartition <- OnThePartitionOfMarket
  Env <- Rebalances
  MaxAnnouncements = 1
  MaxFaults = 2
  OddsValues <- SomeOdds
SPECIFICATION FairSpec
INVARIANTS
  NoOverdraft
  WalletReconciles
  ReadBetIsAnswered
  DecidedAsAnnounced
PROPERTIES
  AcceptedBetIsAnswered
  PendingBetIsDecided
CHECK_DEADLOCK FALSE
