\* Three bets, two processes and a fault of any kind, on a clock that outlives the key.
CONSTANTS
  u1 = u1
  b1 = b1
  b2 = b2
  b3 = b3
  m1 = m1
  m2 = m2
  e1 = e1
  e2 = e2
  o1 = o1
  o2 = o2
  o3 = o3
  d1 = d1
  d2 = d2
  p1 = p1
  NoMessage = NoMessage
  Users <- OneUser
  Bets <- ThreeBets
  Markets <- TwoMarkets
  Outcomes <- ThreeOutcomes
  Slip <- Slips
  Opening <- Wallets
  MatchOf <- Matches
  Detectors <- TwoDetectors
  BetPartitions <- OnePartition
  BetPartition <- OnThePartition
  Window = 1
  RateWindow = 1
  KeyLife = 2
  RateLimit = 1
  MinBets = 2
  Threshold = 10
  MaxTime = 3
  Env <- Everything
  MaxFaults = 1
SPECIFICATION Spec
SYMMETRY Symmetry
INVARIANTS
  TypeOK
  AlertsAreDeserved
  EscapesNeedFailures
  EveryBetIsScreened
CHECK_DEADLOCK FALSE
