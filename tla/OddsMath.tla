------------------------------- MODULE OddsMath -------------------------------
(***************************************************************************)
(* The arithmetic of the odds: how OddsEngine.recalculate answers a game   *)
(* event and how the odds cache measures volatility.                       *)
(*                                                                         *)
(* Odds are hundredths (185 is 1.85), changes hundredths of a percent, the *)
(* random jitter thousandths.  A factor is counted in 1/2000, so that the  *)
(* half jitter of half-time is an integer too.  An outcome's name is the   *)
(* set of those of its words the engine looks for.                         *)
(***************************************************************************)
EXTENDS Integers, SequencesExt

CONSTANT HistoryLength   \* how many changes the cache keeps of an outcome: 10

ASSUME HistoryLengthAssumption == HistoryLength \in Nat \ {0}

GameEventTypes == {"GOAL", "YELLOW_CARD", "RED_CARD", "HALFTIME", "SECOND_HALF",
                   "FULL_TIME"}
MarketTypes == {"MATCH_WINNER", "OVER_UNDER"}
Teams == {"home", "away"}
Words == {"Home", "Away", "Win", "Draw", "Over"}

\* contains(name, ...): the outcome is named as the win of this team.
NamesHome(name) == {"Home", "Win"} \subseteq name /\ "Away" \notin name
NamesAway(name) == {"Away", "Win"} \subseteq name /\ "Home" \notin name
NamesWinOf(team, name) == IF team = "home" THEN NamesHome(name) ELSE NamesAway(name)

\* What a goal and a red card for a team do to the odds of the match winner,
\* and a goal to the odds of over and under, in percent.
GoalImpact(team, name) ==
  CASE NamesWinOf(team, name) -> 70
    [] ~NamesWinOf(team, name) /\ "Draw" \in name -> 130
    [] OTHER -> 135
RedCardImpact(team, name) == IF NamesWinOf(team, name) THEN 120 ELSE 90
OverUnderImpact(name) == IF "Over" \in name THEN 80 ELSE 125

\* The factor, jitter j included.
Percent(n) == 20 * n
Factor(ge, marketType, name, j) ==
  CASE ge.type = "GOAL" /\ marketType = "MATCH_WINNER" ->
         Percent(GoalImpact(ge.team, name)) + 2 * j
    [] ge.type = "GOAL" /\ marketType = "OVER_UNDER" ->
         Percent(OverUnderImpact(name)) + 2 * j
    [] ge.type = "RED_CARD" /\ marketType = "MATCH_WINNER" ->
         Percent(RedCardImpact(ge.team, name)) + 2 * j
    [] ge.type = "RED_CARD" /\ marketType = "OVER_UNDER" -> Percent(100) + 2 * j
    [] ge.type = "YELLOW_CARD" -> Percent(100) + 4 * j
    [] ge.type \in {"HALFTIME", "SECOND_HALF"} -> Percent(100) + 3 * j
    [] ge.type = "FULL_TIME" -> Percent(100)

\* Rounded to hundredths, and never below 1.01.
LowestOdds == 101
Rounded(odds, factor) == (odds * factor + 1000) \div 2000
Recalculated(odds, factor) ==
  IF Rounded(odds, factor) < LowestOdds THEN LowestOdds ELSE Rounded(odds, factor)

\* The size of change_percent, to two decimals; only its size is ever used.
Change(old, new) ==
  LET moved == IF new >= old THEN new - old ELSE old - new
  IN (10000 * moved + old \div 2) \div old

\* LPUSH and LTRIM: the newest changes first.
Pushed(changes, change) ==
  SubSeq(<<change>> \o changes, 1, Min({Len(changes) + 1, HistoryLength}))

\* Mutant of velocityThreshold: the percentage taken for hundredths.
velocityThresholdInHundredths == 20

\* The average change is above velocityThreshold, 20%.
velocityThreshold == 2000
Volatile(changes) ==
  FoldLeft(LAMBDA sum, change : sum + change, 0, changes)
    > velocityThreshold * Len(changes)
=============================================================================
