------------------------------- MODULE Betting -------------------------------
(***************************************************************************)
(* The data of internal/domain that the services agree on: who bets, on    *)
(* what, for how much.  A bet is named by its uuid, and what its slip says *)
(* never changes, so slips are a constant function of the bet.             *)
(*                                                                         *)
(* Money is counted in hundredths and odds are hundredths too (185 is the  *)
(* 1.85 of the API), so that stakes, payouts and the odds tolerance are    *)
(* exact integers.                                                         *)
(***************************************************************************)
EXTENDS Integers

CONSTANTS Users,      \* the accounts of the users collection
          Bets,       \* bet ids the API may hand out
          Markets,    \* market ids
          Outcomes,   \* outcome ids
          Slip,       \* Slip[b]: what the client asked for
          Opening     \* Opening[u]: the balance the seeder gave u

BetSlip == [user: Users, market: Markets, outcome: Outcomes,
            stake: Nat \ {0}, odds: Nat \ {0}]

ASSUME SlipAssumption == Slip \in [Bets -> BetSlip]
ASSUME OpeningAssumption == Opening \in [Users -> Nat]

\* The bet's stake and potential payout, as money.
Stake(b) == 100 * Slip[b].stake
Payout(b) == Slip[b].stake * Slip[b].odds

\* The odds moved by more than oddsTolerance (5%) since the slip was written, or
\* did not: exactly 5% may fall on either side, as the floats round.  Odds of 0
\* are odds the cache does not hold: they are not compared.
Distance(x, y) == IF x >= y THEN x - y ELSE y - x
Drifted(b, current) ==
  current > 0 /\ 20 * Distance(current, Slip[b].odds) >= Slip[b].odds
WithinTolerance(b, current) ==
  current > 0 => 20 * Distance(current, Slip[b].odds) <= Slip[b].odds

\* A bet document's status; "NONE" is a document that does not exist.
BetStatus == {"NONE", "PENDING", "WON", "LOST"}

\* The status a settlement gives a bet.
Result(b, winner) == IF Slip[b].outcome = winner THEN "WON" ELSE "LOST"

\* A row of the wallet's audit trail.
Transaction == [ref: Bets, type: {"BET_PLACED", "BET_WON"},
                amount: Int, after: Int]
=============================================================================
