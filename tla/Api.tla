--------------------------------- MODULE Api ---------------------------------
(***************************************************************************)
(* The two writing handlers of cmd/api that reach the wallet: PlaceBet     *)
(* publishes the slip on bets.placed, SettleMarket publishes the winner on *)
(* bets.settled and then marks the market in Mongo.                        *)
(***************************************************************************)
EXTENDS BetStore

CONSTANT MaxAnnouncements   \* bound on the length of a partition of bets.settled

ASSUME ApiAssumption == MaxAnnouncements \in Nat

VARIABLES reply,         \* reply[b]: what the client that placed b was told
          marketStatus,  \* marketStatus[m]: the market's status in Mongo
          settling       \* settling[m]: requests that have announced m's winner and are
                        \* still to write its status

api == <<reply, marketStatus, settling>>

\* All that a step of the API leaves alone: what the bet-processor owns.
ApiFrame == UNCHANGED <<betCommitted, betPos, betOwner, betAt, betPc,
                        settleCommitted, settlePos, settleOwner, settleAt,
                        settlePc, redis, wallet, money, status, betLocals,
                        settleLocals>>

ApiInit ==
  /\ reply = [b \in Bets |-> "none"]
  /\ marketStatus = [m \in Markets |-> "OPEN"]
  /\ settling = [m \in Markets |-> 0]

\* The producer keys bets by their user and announcements by their market
\* (README.md:48 says by event).
PublishBetPlaced(n, b) ==
  BetsReader!Produce(BetPartition[Slip[b].user], Copies(n, b))
PublishBetSettled(n, m, w) ==
  SettleReader!Produce(SettlePartition[m], Copies(n, [market |-> m, winner |-> w]))

\* POST /bets: the slip is given a uuid and published under the user's key.
\* Neither the balance nor the market's status is looked at.
PlaceBet(b) ==
  /\ reply[b] = "none"
  /\ \E n \in 0..2, answered \in BOOLEAN :
       /\ Written(n, answered)
       /\ PublishBetPlaced(n, b)
       /\ reply' = [reply EXCEPT ![b] = IF answered THEN "accepted" ELSE "error"]
  /\ UNCHANGED <<settleLog, marketStatus, settling>>
  /\ ApiFrame

\* Mutants of MarkIfPublished: the publication's error is dropped; its test is inverted.
MarkAnyway(m, answered) == settling' = [settling EXCEPT ![m] = @ + 1]
MarkIfNotPublished(m, answered) ==
  settling' = IF answered THEN settling ELSE [settling EXCEPT ![m] = @ + 1]

\* Whether the request goes on to the market's status.
MarkIfPublished(m, answered) ==
  settling' = IF answered THEN [settling EXCEPT ![m] = @ + 1] ELSE settling

\* POST /admin/settle: the announcement is published under the market's key;
\* an error ends the request.
SettleMarket(m, w) ==
  /\ \E n \in 0..2, answered \in BOOLEAN :
       /\ Written(n, answered)
       /\ Len(settleLog[SettlePartition[m]]) + n <= MaxAnnouncements
       /\ PublishBetSettled(n, m, w)
       /\ MarkIfPublished(m, answered)
  /\ UNCHANGED <<betLog, reply, marketStatus>>
  /\ ApiFrame

UpdateMarketStatus(m) == marketStatus' = [marketStatus EXCEPT ![m] = "SETTLED"]

\* The market is marked in Mongo; an error is dropped.
MarkSettled(m) ==
  /\ settling[m] > 0
  /\ settling' = [settling EXCEPT ![m] = @ - 1]
  /\ \/ UpdateMarketStatus(m) /\ CallOK
     \/ (UNCHANGED marketStatus \/ UpdateMarketStatus(m)) /\ CallFails
  /\ UNCHANGED <<betLog, settleLog, reply>>
  /\ ApiFrame

ApiTypeOK ==
  /\ reply \in [Bets -> {"none", "accepted", "error"}]
  /\ marketStatus \in [Markets -> {"OPEN", "SETTLED"}]
  /\ settling \in [Markets -> Nat]
=============================================================================
