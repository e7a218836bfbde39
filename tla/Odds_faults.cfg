\* Two outcomes, goals and every kind of fault: no invented odds, stale odds need faults.
CONSTANTS
  e1 = e1
  m1 = m1
  o1 = o1
  o2 = o2
  g1 = g1
  u1 = u1
  p1 = p1
  NoMessage = NoMessage
  Matches <- OneMatch
  Markets <- OneMarket
  Outcomes <- TwoOutcomes
  OutcomesOf <- Both
  MarketOf <- InOneMarket
  MarketType <- OverUnder
  Name <- GoalsNames
  InitialOdds <- GoalsOdds
  Engines <- OneEngine
  Updaters <- OneUpdater
  GamePartitions <- OnePartition
  OddsPartitions <- OnePartition
  GamePartition <- OnThePartition
  OddsPartition <- OddsOnThePartition
  HistoryLength = 2
  Jitters <- NoJitter
  FedTeams <- HomeTeam
  FedTypes <- Goals
  MaxEvents = 2
  Env <- Everything
  MaxFaults = 1
SPECIFICATION Spec
INVARIANTS TypeOK OldOddsWereOffered StaleOddsNeedFaults MatchGoesForward ScoreIsPublished
PROPERTY BoardServed
\* The feed is bounded: the pipeline comes to rest.
CHECK_DEADLOCK FALSE
