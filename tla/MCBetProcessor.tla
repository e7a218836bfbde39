--------------------------- MODULE MCBetProcessor ---------------------------
(***************************************************************************)
(* Instances of the money path for TLC.  The stakes are such that the      *)
(* opening wallet covers one of two bets but not both; a fat wallet covers *)
(* both, or one bet debited twice.                                         *)
(***************************************************************************)
EXTENDS Books, TLC
CONSTANTS r1, r2, u1, b1, b2, m1, m2, o1, o2, p1

OneReplica == {r1}
TwoReplicas == {r1, r2}
OneUser == {u1}
OneBet == {b1}
TwoBets == {b1, b2}
OneMarket == {m1}
TwoMarkets == {m1, m2}
TwoOutcomes == {o1, o2}
OnePartition == {p1}

OnThePartitionOfUser == [u \in Users |-> p1]
OnThePartitionOfMarket == [m \in Markets |-> p1]
Wallets == [u \in Users |-> 1000]
FatWallets == [u \in Users |-> 2000]

SlipOn(market, outcome) ==
  [user |-> u1, market |-> market, outcome |-> outcome, stake |-> 6, odds |-> 200]
\* Both bets on the same outcome of m1, or on one market each.
SameOutcome == [b \in Bets |-> SlipOn(m1, o1)]
OtherMarket == [b \in Bets |-> SlipOn(IF b = b1 THEN m1 ELSE m2, o1)]

\* Exactly 5% away from the odds of the slips, and 6% away.
SomeOdds == {210, 212}

CallsAndCrashes == {"call", "crash", "resend"}
CallsCrashesExpiry == {"call", "crash", "rebalance", "ttl"}
KeysHoldOddsMove == EnvKinds \ {"ttl"}
Rebalances == {"resend", "rebalance"}

ReplicaSymmetry == Permutations(Replicas)
BetSymmetry == Permutations(TwoBets)
=============================================================================
