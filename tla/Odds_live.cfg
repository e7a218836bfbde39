\* Goals and whistles at the low end of the jitter, under crashes, rebalances, duplicates and TTLs.
CONSTANTS
  e1 = e1
  m1 = m1
  o1 = o1
  o2 = o2
  g1 = g1
  u1 = u1
  p1 = p1
  NoMessage = NoMessage
  Matches <- OneMatch
  Markets <- OneMarket
  Outcomes <- OneOutcome
  OutcomesOf <- OnlyFirst
  MarketOf <- InOneMarket
  MarketType <- OverUnder
  Name <- GoalsNames
  InitialOdds <- GoalsOdds
  Engines <- OneEngine
  Updaters <- OneUpdater
  GamePartitions <- OnePartition
  OddsPartitions <- OnePartition
  GamePartition <- OnThePartition
  OddsPartition <- OddsOnThePartition
  HistoryLength = 2
  Jitters <- LowestJitter
  FedTeams <- HomeTeam
  FedTypes <- Goals
  MaxEvents = 2
  Env <- Redeliveries
  MaxFaults = 1
SPECIFICATION FairSpec
INVARIANT QuietMarketsStayOpen
PROPERTIES CacheCatchesUp VolatileMarketIsSuspended
\* The feed is bounded: the pipeline comes to rest.
CHECK_DEADLOCK FALSE
