------------------------------- MODULE BetStore -------------------------------
(***************************************************************************)
(* Everything the bet-processor's two handlers read and write: the topics  *)
(* bets.placed and bets.settled with their readers, the Redis keys, the    *)
(* Mongo collections, the wallet.transactions topic, the handlers' locals, *)
(* and the calls they make on them.                                        *)
(***************************************************************************)
EXTENDS Betting, Faults

CONSTANTS Replicas,         \* bet-processor processes
          BetPartitions,    \* partitions of bets.placed
          SettlePartitions, \* partitions of bets.settled
          BetPartition,     \* where kafkago.Hash puts the key user_id
          SettlePartition,  \* where it puts the key market_id
          NoMessage         \* no message in hand

Settlement == [market: Markets, winner: Outcomes]

ASSUME StoreAssumption ==
  /\ BetPartition \in [Users -> BetPartitions]
  /\ SettlePartition \in [Markets -> SettlePartitions]
ASSUME NoMessageAssumption ==
  NoMessage \notin (BetPartitions \cup SettlePartitions) \X Nat

VARIABLES
  \* bets.placed and its reader
  betLog, betCommitted, betPos, betOwner, betAt, betPc,
  \* bets.settled and its reader
  settleLog, settleCommitted, settlePos, settleOwner, settleAt, settlePc,
  \* Redis: idempotency keys, market_suspended keys, odds (0: no key)
  keys, suspended, cachedOdds,
  \* Mongo: users.balance, bets.status, transactions (by user)
  balance, status, txs,
  \* wallet.transactions (by key)
  walletLog,
  \* locals: user.Balance in HandleBetPlaced; bets, those of them left to settle,
  \* the one being paid and user.Balance in HandleBetSettled
  betAfter, found, todo, paying, paidAfter,
  \* history: bets_rejected_total's labels per bet, and how often a stake was
  \* debited and a payout credited
  rejected, debits, credits

BetsReader == INSTANCE Consumer WITH
  Partitions <- BetPartitions, Entry <- "check",
  log <- betLog, committed <- betCommitted, pos <- betPos,
  owner <- betOwner, at <- betAt, pc <- betPc

SettleReader == INSTANCE Consumer WITH
  Partitions <- SettlePartitions, Entry <- "find",
  log <- settleLog, committed <- settleCommitted, pos <- settlePos,
  owner <- settleOwner, at <- settleAt, pc <- settlePc

betReader == <<betLog, betCommitted, betPos, betOwner, betAt, betPc>>
settleReader == <<settleLog, settleCommitted, settlePos, settleOwner, settleAt,
                  settlePc>>
redis == <<keys, suspended, cachedOdds>>
wallet == <<txs, walletLog>>
money == <<balance, debits, credits>>
betLocals == <<betAfter, rejected>>
settleLocals == <<found, todo, paying, paidAfter>>

\* The seeder has filled the users and emptied the bets; the odds it wrote have
\* lapsed.
StoreInit ==
  /\ BetsReader!ConsumerInit
  /\ SettleReader!ConsumerInit
  /\ keys = {} /\ suspended = {}
  /\ cachedOdds = [o \in Outcomes |-> 0]
  /\ balance = Opening
  /\ status = [b \in Bets |-> "NONE"]
  /\ txs = [u \in Users |-> <<>>]
  /\ walletLog = [u \in Users |-> <<>>]
  /\ betAfter = [r \in Replicas |-> 0]
  /\ found = [r \in Replicas |-> {}]
  /\ todo = [r \in Replicas |-> {}]
  /\ paying = [r \in Replicas |-> {}]
  /\ paidAfter = [r \in Replicas |-> 0]
  /\ rejected = [b \in Bets |-> {}]
  /\ debits = [b \in Bets |-> 0]
  /\ credits = [b \in Bets |-> 0]
  /\ faults = 0

\* Mutant of Covers: the filter without its $gte.
CoversAnything(u, amount) == TRUE

\* users.FindOneAndUpdate: a debit matches only a balance that covers it.
Covers(u, amount) == amount < 0 => balance[u] >= -amount

\* What Redis says of a market and of an outcome (0: it holds no odds).
IsSuspended(m) == m \in suspended
GetOdds(o) == cachedOdds[o]

\* $inc on the balance; credits and debits count the bet it was for.
Debit(b) ==
  /\ balance' = [balance EXCEPT ![Slip[b].user] = @ - Stake(b)]
  /\ debits' = [debits EXCEPT ![b] = @ + 1]
  /\ UNCHANGED credits
Credit(b) ==
  /\ balance' = [balance EXCEPT ![Slip[b].user] = @ + Payout(b)]
  /\ credits' = [credits EXCEPT ![b] = @ + 1]
  /\ UNCHANGED debits

\* transactions.InsertOne and the publication on wallet.transactions: both
\* failures are ignored by the callers.
Record(trail, n, b, type, amount, after) ==
  LET tx == [ref |-> b, type |-> type, amount |-> amount, after |-> after]
  IN [trail EXCEPT ![Slip[b].user] = @ \o Copies(n, tx)]
SaveTx(b, type, amount, after) ==
  \E n \in 0..1 : /\ txs' = Record(txs, n, b, type, amount, after)
                  /\ (n = 1 /\ CallOK) \/ CallFails
PublishTx(b, type, amount, after) ==
  \E n \in 0..2, answered \in BOOLEAN :
    /\ Written(n, answered)
    /\ walletLog' = Record(walletLog, n, b, type, amount, after)

\* The labels of the two handlers; in the first three HandleBetPlaced has
\* claimed the key and not yet taken the stake.
ValidatingLabels == {"suspension", "odds", "debit"}
BetLabels == {"check", "save", "saveTx", "publishTx"} \cup ValidatingLabels
PayingLabels == {"credit", "saveTx", "publishTx"}
SettleLabels == {"find", "next"} \cup PayingLabels

RedisTypeOK ==
  /\ keys \subseteq Bets
  /\ suspended \subseteq Markets
  /\ cachedOdds \in [Outcomes -> Nat]
MoneyTypeOK ==
  /\ balance \in [Users -> Int]
  /\ debits \in [Bets -> Nat]
  /\ credits \in [Bets -> Nat]
BooksTypeOK ==
  /\ status \in [Bets -> BetStatus]
  /\ rejected \in [Bets -> SUBSET {"duplicate", "market_suspended",
                                   "odds_changed", "insufficient_balance"}]
TrailTypeOK ==
  /\ txs \in [Users -> Seq(Transaction)]
  /\ walletLog \in [Users -> Seq(Transaction)]
LocalsTypeOK ==
  /\ betAfter \in [Replicas -> Int]
  /\ found \in [Replicas -> SUBSET Bets]
  /\ todo \in [Replicas -> SUBSET Bets]
  /\ paying \in [Replicas -> SUBSET Bets]
  /\ paidAfter \in [Replicas -> Int]
  /\ \A r \in Replicas : settlePc[r] \in PayingLabels => paying[r] # {}

StoreTypeOK ==
  /\ BetsReader!ConsumerTypeOK(Bets, BetLabels)
  /\ SettleReader!ConsumerTypeOK(Settlement, SettleLabels)
  /\ RedisTypeOK /\ MoneyTypeOK /\ BooksTypeOK /\ TrailTypeOK /\ LocalsTypeOK
  /\ faults \in Nat
=============================================================================
