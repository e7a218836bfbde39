\* Two game events in a row: the second is computed from odds the first has already changed.
CONSTANTS
  e1 = e1
  m1 = m1
  o1 = o1
  o2 = o2
  g1 = g1
  u1 = u1
  p1 = p1
  NoMessage = NoMessage
  Matches <- OneMatch
  Markets <- OneMarket
  Outcomes <- TwoOutcomes
  OutcomesOf <- Both
  MarketOf <- InOneMarket
  MarketType <- OverUnder
  Name <- GoalsNames
  InitialOdds <- GoalsOdds
  Engines <- OneEngine
  Updaters <- OneUpdater
  GamePartitions <- OnePartition
  OddsPartitions <- OnePartition
  GamePartition <- OnThePartition
  OddsPartition <- OddsOnThePartition
  HistoryLength = 2
  Jitters <- NoJitter
  FedTeams <- HomeTeam
  FedTypes <- GoalsAndCards
  MaxEvents = 2
  Env <- NoTrouble
  MaxFaults = 0
SPECIFICATION Spec
INVARIANT GoalShortensOver
\* The feed is bounded: the pipeline comes to rest.
CHECK_DEADLOCK FALSE
