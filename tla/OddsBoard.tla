------------------------------ MODULE OddsBoard ------------------------------
(***************************************************************************)
(* What the odds services promise the bet-processor about the two things   *)
(* it reads of them in Redis, with no topics, handlers or failures: they   *)
(* suspend one market at a time, they write one outcome's odds at a time   *)
(* and only odds a bookmaker can offer; suspensions and odds may lapse at  *)
(* any time.                                                               *)
(***************************************************************************)
EXTENDS Integers

CONSTANTS Markets,      \* market ids
          Outcomes,     \* outcome ids
          OddsValues    \* the odds that may be written

VARIABLES suspended,    \* the markets with a market_suspended key
          cachedOdds    \* cachedOdds[o]: the odds of o (0: no key)

boardVars == <<suspended, cachedOdds>>

BoardInit ==
  /\ suspended = {}
  /\ cachedOdds \in [Outcomes -> OddsValues \cup {0}]

SuspendMarket(m) == suspended' = suspended \cup {m} /\ UNCHANGED cachedOdds
SuspensionLapses(m) == suspended' = suspended \ {m} /\ UNCHANGED cachedOdds

\* The outcome's odds change to some odds, or lapse; the others' stay.
OddsChange(o, odds) ==
  /\ cachedOdds' = [cachedOdds EXCEPT ![o] = cachedOdds'[o]]
  /\ cachedOdds'[o] \in odds
  /\ UNCHANGED suspended

BoardNext ==
  \/ \E m \in Markets : SuspendMarket(m) \/ SuspensionLapses(m)
  \/ \E o \in Outcomes : OddsChange(o, OddsValues) \/ OddsChange(o, {0})

BoardSpec == BoardInit /\ [][BoardNext]_boardVars
=============================================================================
