------------------------------- MODULE MCFraud -------------------------------
(***************************************************************************)
(* An instance of the fraud detector for TLC: three bets of one user, the  *)
(* first two on different outcomes of one match, the third a large one on  *)
(* another match.  The limits are small enough for three bets to reach.    *)
(***************************************************************************)
EXTENDS FraudDetector, TLC
CONSTANTS u1, b1, b2, b3, m1, m2, e1, e2, o1, o2, o3, d1, d2, p1

OneUser == {u1}
ThreeBets == {b1, b2, b3}
TwoMarkets == {m1, m2}
ThreeOutcomes == {o1, o2, o3}
TwoDetectors == {d1, d2}
OnePartition == {p1}

Slips == [b \in Bets |->
  [user |-> u1, odds |-> 200,
   market |-> IF b = b3 THEN m2 ELSE m1,
   outcome |-> CASE b = b1 -> o1 [] b = b2 -> o2 [] b = b3 -> o3,
   stake |-> IF b = b3 THEN 30 ELSE 1]]
Wallets == [u \in Users |-> 100]
Matches == [m \in Markets |-> IF m = m1 THEN e1 ELSE e2]
OnThePartition == [u \in Users |-> p1]

Everything == {"call", "crash", "rebalance", "resend"}

\* The processes are alike, and so are the first two bets with their outcomes.
Swapped == [x \in {b1, b2, o1, o2} |->
  CASE x = b1 -> b2 [] x = b2 -> b1 [] x = o1 -> o2 [] x = o2 -> o1]
Symmetry == Permutations(Detectors) \cup {Swapped}
=============================================================================
