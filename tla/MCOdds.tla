-------------------------------- MODULE MCOdds --------------------------------
(***************************************************************************)
(* Instances of the odds pipeline for TLC: one match, with the outcomes    *)
(* "Over 2.5 Goals" and "Under 2.5 Goals", or "Flamengo Win" and "Draw",   *)
(* at the seeder's odds.                                                   *)
(***************************************************************************)
EXTENDS OddsPipeline
CONSTANTS e1, m1, o1, o2, g1, u1, p1

OneMatch == {e1}
OneMarket == {m1}
TwoOutcomes == {o1, o2}
OneOutcome == {o1}
OneEngine == {g1}
OneUpdater == {u1}
OnePartition == {p1}

Both == [match \in Matches |-> <<o1, o2>>]
OnlyFirst == [match \in Matches |-> <<o1>>]
InOneMarket == [o \in Outcomes |-> m1]
OverUnder == [m \in Markets |-> "OVER_UNDER"]
MatchWinner == [m \in Markets |-> "MATCH_WINNER"]
GoalsNames == [o \in Outcomes |-> IF o = o1 THEN {"Over"} ELSE {}]
TeamNames == [o \in Outcomes |-> IF o = o1 THEN {"Win"} ELSE {"Draw"}]
GoalsOdds == [o \in Outcomes |-> IF o = o1 THEN 190 ELSE 195]
TeamOdds == [o \in Outcomes |-> IF o = o1 THEN 185 ELSE 340]

OnThePartition == [match \in Matches |-> p1]
OddsOnThePartition == [o \in Outcomes |-> p1]

NoJitter == {0}
LowestJitter == {-20}

Goals == {"GOAL"}
GoalsAndCards == {"GOAL", "YELLOW_CARD"}

HomeTeam == {"home"}
BothTeams == {"home", "away"}

NoTrouble == {}
Everything == {"call", "crash", "rebalance", "resend", "ttl"}
Redeliveries == {"crash", "rebalance", "resend", "settle", "status", "ttl"}
=============================================================================
