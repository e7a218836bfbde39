\* The seeder's match winner market and a goal for the home team.
CONSTANTS
  e1 = e1
  m1 = m1
  o1 = o1
  o2 = o2
  g1 = g1
  u1 = u1
  p1 = p1
  NoMessage = NoMessage
  Matches <- OneMatch
  Markets <- OneMarket
  Outcomes <- TwoOutcomes
  OutcomesOf <- Both
  MarketOf <- InOneMarket
  MarketType <- MatchWinner
  Name <- TeamNames
  InitialOdds <- TeamOdds
  Engines <- OneEngine
  Updaters <- OneUpdater
  GamePartitions <- OnePartition
  OddsPartitions <- OnePartition
  GamePartition <- OnThePartition
  OddsPartition <- OddsOnThePartition
  HistoryLength = 2
  Jitters <- NoJitter
  FedTeams <- BothTeams
  FedTypes <- Goals
  MaxEvents = 1
  Env <- NoTrouble
  MaxFaults = 0
SPECIFICATION Spec
INVARIANT ScoringTeamShortens
\* The feed is bounded: the pipeline comes to rest.
CHECK_DEADLOCK FALSE
