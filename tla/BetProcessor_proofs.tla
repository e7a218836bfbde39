------------------------- MODULE BetProcessor_proofs -------------------------
(***************************************************************************)
(* The money path for every number of replicas, users, bets, markets and   *)
(* faults: its types, its balances, its books and its idempotency keys.    *)
(***************************************************************************)
EXTENDS BetProcessor, TLAPS, SequenceTheorems

-----------------------------------------------------------------------------
\* What Consumer_proofs proves of a reader, for each of the two.

BetsLemmas == INSTANCE Consumer_proofs WITH
  Partitions <- BetPartitions, Entry <- "check",
  log <- betLog, committed <- betCommitted, pos <- betPos,
  owner <- betOwner, at <- betAt, pc <- betPc

SettleLemmas == INSTANCE Consumer_proofs WITH
  Partitions <- SettlePartitions, Entry <- "find",
  log <- settleLog, committed <- settleCommitted, pos <- settlePos,
  owner <- settleOwner, at <- settleAt, pc <- settlePc

LEMMA BetsReaderTypes ==
  ASSUME BetsReader!ConsumerTypeOK(Bets, BetLabels), BetsReader!ReaderStep(Bets, BetLabels)
  PROVE  BetsReader!ConsumerTypeOK(Bets, BetLabels)'
<1>1. "check" \in BetLabels
  BY DEF BetLabels
<1>2. BetsLemmas!ConsumerTypeOK(Bets, BetLabels)
  BY DEF BetsLemmas!ConsumerTypeOK, BetsReader!ConsumerTypeOK
<1>3. BetsLemmas!ReaderStep(Bets, BetLabels)
  BY DEF BetsReader!ReaderStep, BetsLemmas!ReaderStep,
         BetsReader!Produce, BetsLemmas!Produce, BetsReader!Fetch, BetsLemmas!Fetch,
         BetsReader!ReturnError, BetsLemmas!ReturnError,
         BetsReader!Crash, BetsLemmas!Crash, BetsReader!Resume, BetsLemmas!Resume,
         BetsReader!Goto, BetsLemmas!Goto, BetsReader!Commit, BetsLemmas!Commit,
         BetsReader!Offset, BetsLemmas!Offset,
         BetsReader!Rebalance, BetsLemmas!Rebalance,
         BetsReader!consumerVars, BetsLemmas!consumerVars
<1>4. BetsLemmas!ConsumerTypeOK(Bets, BetLabels)'
  BY <1>1, <1>2, <1>3, BetsLemmas!ReaderTypes
<1> QED
  BY <1>4 DEF BetsLemmas!ConsumerTypeOK, BetsReader!ConsumerTypeOK

LEMMA SettleReaderTypes ==
  ASSUME SettleReader!ConsumerTypeOK(Settlement, SettleLabels), SettleReader!ReaderStep(Settlement, SettleLabels)
  PROVE  SettleReader!ConsumerTypeOK(Settlement, SettleLabels)'
<1>1. "find" \in SettleLabels
  BY DEF SettleLabels
<1>2. SettleLemmas!ConsumerTypeOK(Settlement, SettleLabels)
  BY DEF SettleLemmas!ConsumerTypeOK, SettleReader!ConsumerTypeOK
<1>3. SettleLemmas!ReaderStep(Settlement, SettleLabels)
  BY DEF SettleReader!ReaderStep, SettleLemmas!ReaderStep,
         SettleReader!Produce, SettleLemmas!Produce, SettleReader!Fetch, SettleLemmas!Fetch,
         SettleReader!ReturnError, SettleLemmas!ReturnError,
         SettleReader!Crash, SettleLemmas!Crash, SettleReader!Resume, SettleLemmas!Resume,
         SettleReader!Goto, SettleLemmas!Goto, SettleReader!Commit, SettleLemmas!Commit,
         SettleReader!Offset, SettleLemmas!Offset,
         SettleReader!Rebalance, SettleLemmas!Rebalance,
         SettleReader!consumerVars, SettleLemmas!consumerVars
<1>4. SettleLemmas!ConsumerTypeOK(Settlement, SettleLabels)'
  BY <1>1, <1>2, <1>3, SettleLemmas!ReaderTypes
<1> QED
  BY <1>4 DEF SettleLemmas!ConsumerTypeOK, SettleReader!ConsumerTypeOK

LEMMA BetProduceKeeps ==
  ASSUME BetsReader!ConsumerTypeOK(Bets, BetLabels),
         NEW p \in BetPartitions, NEW ms \in Seq(Bets), BetsReader!Produce(p, ms),
         UNCHANGED <<betAt, betPc>>,
         NEW r \in Replicas, betPc[r] # "fetch"
  PROVE  Bet(r)' = Bet(r)
<1>1. BetsLemmas!ConsumerTypeOK(Bets, BetLabels)
  BY DEF BetsLemmas!ConsumerTypeOK, BetsReader!ConsumerTypeOK
<1>2. BetsLemmas!Produce(p, ms)
  BY DEF BetsLemmas!Produce, BetsReader!Produce
<1>3. BetsLemmas!Current(r)' = BetsLemmas!Current(r)
  BY <1>1, <1>2, BetsLemmas!ProduceKeepsCurrent
<1> QED
  BY <1>3 DEF BetsLemmas!Current, BetsReader!Current, Bet

LEMMA SettleProduceKeeps ==
  ASSUME SettleReader!ConsumerTypeOK(Settlement, SettleLabels),
         NEW p \in SettlePartitions, NEW ms \in Seq(Settlement), SettleReader!Produce(p, ms),
         UNCHANGED <<settleAt, settlePc>>,
         NEW r \in Replicas, settlePc[r] # "fetch"
  PROVE  Announced(r)' = Announced(r)
<1>1. SettleLemmas!ConsumerTypeOK(Settlement, SettleLabels)
  BY DEF SettleLemmas!ConsumerTypeOK, SettleReader!ConsumerTypeOK
<1>2. SettleLemmas!Produce(p, ms)
  BY DEF SettleLemmas!Produce, SettleReader!Produce
<1>3. SettleLemmas!Current(r)' = SettleLemmas!Current(r)
  BY <1>1, <1>2, SettleLemmas!ProduceKeepsCurrent
<1> QED
  BY <1>3 DEF SettleLemmas!Current, SettleReader!Current, Announced

-----------------------------------------------------------------------------
\* The data: slips, and the messages and the bet a handler has in hand.

LEMMA SlipTypes ==
  ASSUME NEW b \in Bets
  PROVE  /\ Slip[b].user \in Users /\ Slip[b].market \in Markets
         /\ Slip[b].outcome \in Outcomes
         /\ Stake(b) \in Int /\ Stake(b) > 0
         /\ Payout(b) \in Int /\ Payout(b) >= 0
         /\ \A w : Result(b, w) \in {"WON", "LOST"}
<1>1. Slip[b] \in BetSlip
  BY SlipAssumption
<1>2. Slip[b].stake \in Nat \ {0} /\ Slip[b].odds \in Nat \ {0}
  BY <1>1 DEF BetSlip
<1>3. Stake(b) \in Int /\ Stake(b) > 0
  BY <1>2 DEF Stake
<1>4. Payout(b) \in Int /\ Payout(b) >= 0
  BY <1>2 DEF Payout
<1> QED
  BY <1>1, <1>3, <1>4 DEF BetSlip, Result

LEMMA InHand ==
  ASSUME StoreTypeOK, NEW r \in Replicas
  PROVE  /\ betPc[r] # "fetch" => Bet(r) \in Bets
         /\ settlePc[r] # "fetch" => Announced(r) \in Settlement
         /\ settlePc[r] \in PayingLabels => Paid(r) \in paying[r] /\ Paid(r) \in Bets
<1>1. ASSUME betPc[r] # "fetch" PROVE Bet(r) \in Bets
  BY <1>1, ElementOfSeq DEF StoreTypeOK, BetsReader!ConsumerTypeOK, Bet, BetsReader!Current
<1>2. ASSUME settlePc[r] # "fetch" PROVE Announced(r) \in Settlement
  BY <1>2, ElementOfSeq DEF StoreTypeOK, SettleReader!ConsumerTypeOK, Announced,
                            SettleReader!Current
<1>3. ASSUME settlePc[r] \in PayingLabels PROVE Paid(r) \in paying[r]
  BY <1>3 DEF StoreTypeOK, LocalsTypeOK, Paid
<1>4. paying[r] \subseteq Bets
  BY DEF StoreTypeOK, LocalsTypeOK
<1> QED
  BY <1>1, <1>2, <1>3, <1>4

LEMMA CopiesType ==
  ASSUME NEW S, NEW m \in S, NEW n \in Nat
  PROVE  Copies(n, m) \in Seq(S)
BY DEF Copies

-----------------------------------------------------------------------------
\* Every step of the system is a step of each reader.

LEMMA BetsStep == [Next]_vars => BetsReader!ReaderStep(Bets, BetLabels)
<1> SUFFICES ASSUME [Next]_vars PROVE BetsReader!ReaderStep(Bets, BetLabels)
  OBVIOUS
<1> DEFINE G == BetsReader!ReaderStep(Bets, BetLabels)
<1>1. ASSUME NEW r \in Replicas, HandleBetPlaced(r) PROVE G
  <2>1. betPc[r] # "fetch"
    BY <1>1 DEF HandleBetPlaced, Check, Suspension, Odds, DebitStake, SaveBet,
                SaveDebitTx, PublishDebitTx
  <2>2. \/ \E label \in BetLabels \cup {"commit"} : BetsReader!Goto(r, label)
        \/ BetsReader!ReturnError(r)
    BY <1>1 DEF HandleBetPlaced, Check, Suspension, Odds, DebitStake, SaveBet,
                SaveDebitTx, PublishDebitTx, DebitRefused, SuspensionUnknown,
                BetsReader!ReturnNil, BetLabels, ValidatingLabels
  <2> QED
    BY <2>1, <2>2 DEF BetsReader!ReaderStep
<1>2. ASSUME NEW r \in Replicas, RunBets(r) PROVE G
  BY <1>1, <1>2 DEF RunBets, BetLoop, BetsReader!ReaderStep
<1>3. ASSUME NEW r \in Replicas, RunSettlement(r) PROVE UNCHANGED betReader
  BY <1>3 DEF RunSettlement, SettleLoop, HandleBetSettled, FindBets, UpdateBet,
              Settled, CreditPayout, SaveCreditTx, PublishCreditTx, SettleFrame
<1>4. ASSUME NEW r \in Replicas, Crash(r) PROVE G
  BY <1>4 DEF Crash, BetsReader!ReaderStep
<1>5. ASSUME NEW b \in Bets, PlaceBet(b) PROVE G
  <2>1. PICK n \in 0..2 : BetsReader!Produce(BetPartition[Slip[b].user], Copies(n, b))
    BY <1>5 DEF PlaceBet, PublishBetPlaced
  <2>2. Copies(n, b) \in Seq(Bets)
    BY CopiesType
  <2>3. BetPartition[Slip[b].user] \in BetPartitions
    BY SlipTypes, StoreAssumption
  <2>4. UNCHANGED <<betCommitted, betPos, betOwner, betAt, betPc>>
    BY <1>5 DEF PlaceBet, ApiFrame
  <2> QED
    BY <2>1, <2>2, <2>3, <2>4 DEF BetsReader!ReaderStep
<1>6. ASSUME NEW m \in Markets, (\E w \in Outcomes : SettleMarket(m, w)) \/ MarkSettled(m)
      PROVE  UNCHANGED betReader
  BY <1>6 DEF SettleMarket, MarkSettled, ApiFrame, betReader
<1>7. ASSUME \/ \E b \in Bets : KeyExpires(b)
             \/ \E m \in Markets : SuspendMarket(m) \/ SuspensionLapses(m)
             \/ \E o \in Outcomes : (\E v \in OddsValues : OddsWritten(o, v)) \/ OddsExpire(o)
             \/ UNCHANGED vars
      PROVE  UNCHANGED betReader
  BY <1>7 DEF KeyExpires, SuspendMarket, SuspensionLapses, OddsWritten, OddsExpire,
              RedisFrame, vars
<1>8. ASSUME Rebalance PROVE G
  BY <1>8 DEF Rebalance, BetsReader!ReaderStep
<1>9. ASSUME UNCHANGED betReader PROVE G
  BY <1>9 DEF betReader, BetsReader!ReaderStep, BetsReader!consumerVars
<1> QED
  BY <1>2, <1>3, <1>4, <1>5, <1>6, <1>7, <1>8, <1>9 DEF Next

LEMMA SettleStep == [Next]_vars => SettleReader!ReaderStep(Settlement, SettleLabels)
<1> SUFFICES ASSUME [Next]_vars PROVE SettleReader!ReaderStep(Settlement, SettleLabels)
  OBVIOUS
<1> DEFINE G == SettleReader!ReaderStep(Settlement, SettleLabels)
<1>0. ASSUME UNCHANGED settleReader PROVE G
  BY <1>0 DEF settleReader, SettleReader!ReaderStep, SettleReader!consumerVars
<1>1. ASSUME NEW r \in Replicas, HandleBetSettled(r) PROVE G
  <2>1. settlePc[r] # "fetch"
    BY <1>1 DEF HandleBetSettled, FindBets, UpdateBet, Settled, CreditPayout,
                SaveCreditTx, PublishCreditTx
  <2>2. \/ \E label \in SettleLabels \cup {"commit"} : SettleReader!Goto(r, label)
        \/ SettleReader!ReturnError(r)
        \/ UNCHANGED settleReader
    BY <1>1 DEF HandleBetSettled, FindBets, UpdateBet, Settled, CreditPayout,
                SaveCreditTx, PublishCreditTx, CreditIsDropped, NextBet, SettleReader!ReturnNil,
                SettleLabels, PayingLabels
  <2> QED
    BY <1>0, <2>1, <2>2 DEF SettleReader!ReaderStep
<1>2. ASSUME NEW r \in Replicas, RunSettlement(r) PROVE G
  BY <1>1, <1>2 DEF RunSettlement, SettleLoop, SettleReader!ReaderStep
<1>3. ASSUME NEW r \in Replicas, RunBets(r) PROVE UNCHANGED settleReader
  BY <1>3 DEF RunBets, BetLoop, HandleBetPlaced, Check, Suspension, Odds, DebitStake,
              SaveBet, SaveDebitTx, PublishDebitTx, ValidationFrame
<1>4. ASSUME NEW r \in Replicas, Crash(r) PROVE G
  BY <1>4 DEF Crash, SettleReader!ReaderStep
<1>5. ASSUME NEW m \in Markets, NEW w \in Outcomes, SettleMarket(m, w) PROVE G
  <2> DEFINE a == [market |-> m, winner |-> w]
  <2>1. PICK n \in 0..2 : SettleReader!Produce(SettlePartition[m], Copies(n, a))
    BY <1>5 DEF SettleMarket, PublishBetSettled
  <2>2. a \in Settlement
    BY DEF Settlement
  <2>3. Copies(n, a) \in Seq(Settlement)
    BY <2>2, CopiesType
  <2>4. SettlePartition[m] \in SettlePartitions
    BY StoreAssumption
  <2>5. UNCHANGED <<settleCommitted, settlePos, settleOwner, settleAt, settlePc>>
    BY <1>5 DEF SettleMarket, ApiFrame
  <2> QED
    BY <2>1, <2>3, <2>4, <2>5 DEF SettleReader!ReaderStep
<1>6. ASSUME (\E b \in Bets : PlaceBet(b)) \/ (\E m \in Markets : MarkSettled(m))
      PROVE  UNCHANGED settleReader
  BY <1>6 DEF PlaceBet, MarkSettled, ApiFrame, settleReader
<1>7. ASSUME \/ \E b \in Bets : KeyExpires(b)
             \/ \E m \in Markets : SuspendMarket(m) \/ SuspensionLapses(m)
             \/ \E o \in Outcomes : (\E v \in OddsValues : OddsWritten(o, v)) \/ OddsExpire(o)
             \/ UNCHANGED vars
      PROVE  UNCHANGED settleReader
  BY <1>7 DEF KeyExpires, SuspendMarket, SuspensionLapses, OddsWritten, OddsExpire,
              RedisFrame, vars
<1>8. ASSUME Rebalance PROVE G
  BY <1>8 DEF Rebalance, SettleReader!ReaderStep
<1> QED
  BY <1>0, <1>2, <1>3, <1>4, <1>5, <1>6, <1>7, <1>8 DEF Next

-----------------------------------------------------------------------------
\* Who writes what: a step either leaves a part of the data alone or is one of
\* the few that write it.

LEMMA RedisWriters ==
  [Next]_vars => \/ UNCHANGED redis
                 \/ \E r \in Replicas : Check(r)
                 \/ \E b \in Bets : KeyExpires(b)
                 \/ \E m \in Markets : SuspendMarket(m) \/ SuspensionLapses(m)
                 \/ \E o \in Outcomes : \/ \E v \in OddsValues : OddsWritten(o, v)
                                       \/ OddsExpire(o)
BY DEF Next, RunBets, BetLoop, HandleBetPlaced, Suspension, Odds, DebitStake,
       SaveBet, SaveDebitTx, PublishDebitTx, ValidationFrame, redis,
       RunSettlement, SettleLoop, HandleBetSettled, FindBets, UpdateBet, Settled,
       CreditPayout, SaveCreditTx, PublishCreditTx, SettleFrame, Crash, Rebalance,
       PlaceBet, SettleMarket, MarkSettled, ApiFrame, vars

LEMMA MoneyWriters ==
  [Next]_vars => UNCHANGED money \/ \E r \in Replicas : DebitStake(r) \/ CreditPayout(r)
BY DEF Next, RunBets, BetLoop, HandleBetPlaced, Check, Suspension, Odds,
       SaveBet, SaveDebitTx, PublishDebitTx, money,
       RunSettlement, SettleLoop, HandleBetSettled, FindBets, UpdateBet, Settled,
       SaveCreditTx, PublishCreditTx, Crash, Rebalance, RedisFrame,
       KeyExpires, SuspendMarket, SuspensionLapses, OddsWritten, OddsExpire,
       PlaceBet, SettleMarket, MarkSettled, ApiFrame, vars

LEMMA StatusWriters ==
  [Next]_vars => \/ UNCHANGED status
                 \/ \E r \in Replicas : SaveBet(r) \/ \E b \in Bets : UpdateBet(r, b)
BY DEF Next, RunBets, BetLoop, HandleBetPlaced, Check, Suspension, Odds, DebitStake,
       SaveDebitTx, PublishDebitTx, ValidationFrame,
       RunSettlement, SettleLoop, HandleBetSettled, FindBets, Settled,
       CreditPayout, SaveCreditTx, PublishCreditTx, Crash, Rebalance, RedisFrame,
       KeyExpires, SuspendMarket, SuspensionLapses, OddsWritten, OddsExpire,
       PlaceBet, SettleMarket, MarkSettled, ApiFrame, vars

LEMMA BetLocalsWriters ==
  [Next]_vars => \/ UNCHANGED betLocals
                 \/ \E r \in Replicas : HandleBetPlaced(r) \/ Crash(r)
BY DEF Next, RunBets, BetLoop, betLocals,
       RunSettlement, SettleLoop, HandleBetSettled, FindBets, UpdateBet, Settled,
       CreditPayout, SaveCreditTx, PublishCreditTx, SettleFrame, Rebalance,
       RedisFrame, KeyExpires, SuspendMarket, SuspensionLapses, OddsWritten,
       OddsExpire, PlaceBet, SettleMarket, MarkSettled, ApiFrame, vars

LEMMA SettleWriters ==
  [Next]_vars => \/ UNCHANGED <<settleLocals, settlePc>>
                 \/ \E r \in Replicas : RunSettlement(r) \/ Crash(r)
BY DEF Next, RunBets, BetLoop, HandleBetPlaced, Check, Suspension, Odds, DebitStake,
       SaveBet, SaveDebitTx, PublishDebitTx, ValidationFrame, settleLocals, settleReader,
       Rebalance, SettleReader!Rebalance, RedisFrame, KeyExpires, SuspendMarket,
       SuspensionLapses, OddsWritten, OddsExpire, PlaceBet, SettleMarket,
       MarkSettled, ApiFrame, vars

LEMMA TrailWriters ==
  [Next]_vars => \/ UNCHANGED wallet
                 \/ \E r \in Replicas : \/ SaveDebitTx(r) \/ PublishDebitTx(r)
                                      \/ SaveCreditTx(r) \/ PublishCreditTx(r)
BY DEF Next, RunBets, BetLoop, HandleBetPlaced, Check, Suspension, Odds, DebitStake,
       SaveBet, ValidationFrame, wallet,
       RunSettlement, SettleLoop, HandleBetSettled, FindBets, UpdateBet, Settled,
       CreditPayout, Crash, Rebalance, RedisFrame,
       KeyExpires, SuspendMarket, SuspensionLapses, OddsWritten, OddsExpire,
       PlaceBet, SettleMarket, MarkSettled, ApiFrame, vars

LEMMA FaultCount == [Next]_vars => faults' = faults \/ Fault
<1> USE DEF CallOK, CallFails
<1>1. ASSUME NEW r \in Replicas, RunBets(r) PROVE faults' = faults \/ Fault
  BY <1>1 DEF RunBets, BetLoop, HandleBetPlaced, Check, Suspension, Odds, DebitStake,
       SaveBet, SaveDebitTx, PublishDebitTx, SaveTx, PublishTx, Written
<1>2. ASSUME NEW r \in Replicas, RunSettlement(r) PROVE faults' = faults \/ Fault
  BY <1>2 DEF RunSettlement, SettleLoop, HandleBetSettled, FindBets, UpdateBet,
       Settled, CreditPayout, SaveCreditTx, PublishCreditTx, SaveTx, PublishTx, Written
<1> QED
  BY <1>1, <1>2 DEF Next, Crash, Rebalance, RedisFrame,
       KeyExpires, SuspendMarket, SuspensionLapses, OddsWritten, OddsExpire,
       PlaceBet, SettleMarket, MarkSettled, Written, vars

-----------------------------------------------------------------------------
\* The types.

LEMMA RedisTypes == TypeOK /\ [Next]_vars => RedisTypeOK'
<1> SUFFICES ASSUME TypeOK, [Next]_vars PROVE RedisTypeOK'
  OBVIOUS
<1> USE DEF TypeOK, StoreTypeOK, RedisTypeOK
<1>1. ASSUME NEW r \in Replicas, Check(r) PROVE RedisTypeOK'
  BY <1>1, InHand DEF Check, Claim
<1>2. ASSUME NEW b \in Bets, KeyExpires(b) PROVE RedisTypeOK'
  BY <1>2 DEF KeyExpires
<1>3. ASSUME NEW m \in Markets, SuspendMarket(m) \/ SuspensionLapses(m)
      PROVE  RedisTypeOK'
  BY <1>3 DEF SuspendMarket, SuspensionLapses
<1>4. ASSUME NEW o \in Outcomes, (\E v \in OddsValues : OddsWritten(o, v)) \/ OddsExpire(o)
      PROVE  RedisTypeOK'
  BY <1>4, OddsAssumption DEF OddsWritten, OddsExpire
<1>5. ASSUME UNCHANGED redis PROVE RedisTypeOK'
  BY <1>5 DEF redis
<1> QED
  BY <1>1, <1>2, <1>3, <1>4, <1>5, RedisWriters

LEMMA MoneyTypes == TypeOK /\ [Next]_vars => MoneyTypeOK'
<1> SUFFICES ASSUME TypeOK, [Next]_vars PROVE MoneyTypeOK'
  OBVIOUS
<1> USE DEF TypeOK, StoreTypeOK, MoneyTypeOK
<1>1. ASSUME NEW r \in Replicas, DebitStake(r) PROVE MoneyTypeOK'
  <2>1. Bet(r) \in Bets
    BY <1>1, InHand DEF DebitStake
  <2>2. Debit(Bet(r)) \/ UNCHANGED money
    BY <1>1 DEF DebitStake
  <2> QED
    BY <2>1, <2>2, SlipTypes DEF Debit, money
<1>2. ASSUME NEW r \in Replicas, CreditPayout(r) PROVE MoneyTypeOK'
  <2>1. Paid(r) \in Bets
    BY <1>2, InHand DEF CreditPayout, PayingLabels
  <2>2. Credit(Paid(r)) \/ UNCHANGED money
    BY <1>2 DEF CreditPayout
  <2> QED
    BY <2>1, <2>2, SlipTypes DEF Credit, money
<1>3. ASSUME UNCHANGED money PROVE MoneyTypeOK'
  BY <1>3 DEF money
<1> QED
  BY <1>1, <1>2, <1>3, MoneyWriters

LEMMA BooksTypes == TypeOK /\ [Next]_vars => BooksTypeOK'
<1> SUFFICES ASSUME TypeOK, [Next]_vars PROVE BooksTypeOK'
  OBVIOUS
<1> USE DEF TypeOK, StoreTypeOK, BooksTypeOK
<1>1. status' \in [Bets -> BetStatus]
  <2>1. ASSUME NEW r \in Replicas, SaveBet(r) PROVE status' \in [Bets -> BetStatus]
    BY <2>1 DEF SaveBet, BetStatus
  <2>2. ASSUME NEW r \in Replicas, NEW b \in Bets, UpdateBet(r, b)
        PROVE  status' \in [Bets -> BetStatus]
    BY <2>2, SlipTypes DEF UpdateBet, BetStatus
  <2> QED
    BY <2>1, <2>2, StatusWriters
<1>2. rejected' \in [Bets -> SUBSET {"duplicate", "market_suspended",
                                     "odds_changed", "insufficient_balance"}]
  <2>1. ASSUME NEW r \in Replicas, HandleBetPlaced(r)
        PROVE  \/ UNCHANGED rejected
               \/ \E reason \in {"duplicate", "market_suspended", "odds_changed",
                                "insufficient_balance"} : Reject(Bet(r), reason)
    BY <2>1 DEF HandleBetPlaced, Check, Suspension, Odds, DebitStake, DebitRefused,
                SaveBet, SaveDebitTx, PublishDebitTx, betLocals
  <2>2. \/ UNCHANGED rejected
        \/ \E b : \E reason \in {"duplicate", "market_suspended", "odds_changed",
                                  "insufficient_balance"} : Reject(b, reason)
    BY <2>1, BetLocalsWriters DEF Crash, betLocals
  <2> QED
    BY <2>2 DEF Reject
<1> QED
  BY <1>1, <1>2

LEMMA TrailTypes == TypeOK /\ [Next]_vars => TrailTypeOK'
<1> SUFFICES ASSUME TypeOK, [Next]_vars PROVE TrailTypeOK'
  OBVIOUS
<1> USE DEF TypeOK, StoreTypeOK, TrailTypeOK
<1>1. ASSUME NEW trail \in [Users -> Seq(Transaction)], NEW b \in Bets,
             NEW type \in {"BET_PLACED", "BET_WON"}, NEW amount \in Int, NEW after \in Int,
             NEW n \in 0..2
      PROVE  Record(trail, n, b, type, amount, after) \in [Users -> Seq(Transaction)]
  <2>1. [ref |-> b, type |-> type, amount |-> amount, after |-> after] \in Transaction
    BY DEF Transaction
  <2> DEFINE tx == [ref |-> b, type |-> type, amount |-> amount, after |-> after]
  <2>2. Copies(n, tx) \in Seq(Transaction)
    BY <2>1, CopiesType
  <2>3. trail[Slip[b].user] \o Copies(n, tx) \in Seq(Transaction)
    BY <2>2, SlipTypes, ConcatProperties
  <2> QED
    BY <2>3 DEF Record
<1>2. ASSUME NEW r \in Replicas, SaveDebitTx(r) \/ PublishDebitTx(r) PROVE TrailTypeOK'
  <2>1. Bet(r) \in Bets
    BY <1>2, InHand DEF SaveDebitTx, PublishDebitTx
  <2>2. betAfter[r] \in Int /\ -Stake(Bet(r)) \in Int
    BY <2>1, SlipTypes DEF LocalsTypeOK
  <2> DEFINE Recorded(trail, n) == Record(trail, n, Bet(r), "BET_PLACED", -Stake(Bet(r)), betAfter[r])
  <2>3. \A n \in 0..2 : /\ Recorded(txs, n) \in [Users -> Seq(Transaction)]
                       /\ Recorded(walletLog, n) \in [Users -> Seq(Transaction)]
    BY <1>1, <2>1, <2>2
  <2>4. /\ txs' = txs \/ \E n \in 0..2 : txs' = Recorded(txs, n)
        /\ walletLog' = walletLog \/ \E n \in 0..2 : walletLog' = Recorded(walletLog, n)
    BY <1>2 DEF SaveDebitTx, PublishDebitTx, SaveTx, PublishTx, Written
  <2> QED
    BY <2>3, <2>4
<1>3. ASSUME NEW r \in Replicas, SaveCreditTx(r) \/ PublishCreditTx(r) PROVE TrailTypeOK'
  <2>1. Paid(r) \in Bets
    BY <1>3, InHand DEF SaveCreditTx, PublishCreditTx, PayingLabels
  <2>2. paidAfter[r] \in Int /\ Payout(Paid(r)) \in Int
    BY <2>1, SlipTypes DEF LocalsTypeOK
  <2> DEFINE Recorded(trail, n) == Record(trail, n, Paid(r), "BET_WON", Payout(Paid(r)), paidAfter[r])
  <2>3. \A n \in 0..2 : /\ Recorded(txs, n) \in [Users -> Seq(Transaction)]
                       /\ Recorded(walletLog, n) \in [Users -> Seq(Transaction)]
    BY <1>1, <2>1, <2>2
  <2>4. /\ txs' = txs \/ \E n \in 0..2 : txs' = Recorded(txs, n)
        /\ walletLog' = walletLog \/ \E n \in 0..2 : walletLog' = Recorded(walletLog, n)
    BY <1>3 DEF SaveCreditTx, PublishCreditTx, SaveTx, PublishTx, Written
  <2> QED
    BY <2>3, <2>4
<1>4. ASSUME UNCHANGED wallet PROVE TrailTypeOK'
  BY <1>4 DEF wallet
<1> QED
  BY <1>2, <1>3, <1>4, TrailWriters

LEMMA LocalsTypes == TypeOK /\ [Next]_vars => LocalsTypeOK'
<1> SUFFICES ASSUME TypeOK, [Next]_vars PROVE LocalsTypeOK'
  OBVIOUS
<1> USE DEF TypeOK, StoreTypeOK
<1>1. betAfter' \in [Replicas -> Int]
  <2>1. ASSUME NEW r \in Replicas, DebitStake(r) PROVE betAfter' \in [Replicas -> Int]
    <3>1. Bet(r) \in Bets
      BY <2>1, InHand DEF DebitStake
    <3>2. balance[Slip[Bet(r)].user] - Stake(Bet(r)) \in Int
      BY <3>1, SlipTypes DEF MoneyTypeOK
    <3> QED
      BY <2>1, <3>2 DEF DebitStake, DebitRefused, LocalsTypeOK
  <2>2. ASSUME NEW r \in Replicas,
               \/ Check(r) \/ Suspension(r) \/ Odds(r) \/ SaveBet(r)
               \/ SaveDebitTx(r) \/ PublishDebitTx(r) \/ Crash(r)
        PROVE  betAfter' \in [Replicas -> Int]
    BY <2>2 DEF Check, Suspension, Odds, SaveBet, SaveDebitTx, PublishDebitTx, Crash,
                betLocals, LocalsTypeOK
  <2> QED
    BY <2>1, <2>2, BetLocalsWriters DEF HandleBetPlaced, betLocals, LocalsTypeOK
<1>2. /\ found' \in [Replicas -> SUBSET Bets]
      /\ todo' \in [Replicas -> SUBSET Bets]
      /\ paying' \in [Replicas -> SUBSET Bets]
      /\ paidAfter' \in [Replicas -> Int]
      /\ \A q \in Replicas : settlePc'[q] \in PayingLabels => paying'[q] # {}
  <2> DEFINE G == /\ found' \in [Replicas -> SUBSET Bets]
                  /\ todo' \in [Replicas -> SUBSET Bets]
                  /\ paying' \in [Replicas -> SUBSET Bets]
                  /\ paidAfter' \in [Replicas -> Int]
                  /\ \A q \in Replicas : settlePc'[q] \in PayingLabels => paying'[q] # {}
  <2>0. settlePc \in [Replicas -> SettleLabels \cup {"fetch", "commit"}]
    BY DEF SettleReader!ConsumerTypeOK
  <2> USE DEF LocalsTypeOK
  <2>1. ASSUME NEW r \in Replicas, FindBets(r) PROVE G
    BY <2>0, <2>1 DEF FindBets, FindByMarket, SettleReader!Goto, SettleReader!ReturnError,
                      PayingLabels
  <2>2. ASSUME NEW r \in Replicas, NEW b \in Bets, UpdateBet(r, b) PROVE G
    BY <2>0, <2>2 DEF UpdateBet, SettleReader!Goto, settleReader, PayingLabels
  <2>3. ASSUME NEW r \in Replicas, Settled(r) PROVE G
    BY <2>0, <2>3 DEF Settled, settleLocals, SettleReader!ReturnNil, SettleReader!Goto,
                      PayingLabels
  <2>4. ASSUME NEW r \in Replicas, CreditPayout(r) PROVE G
    <3>1. Paid(r) \in Bets
      BY <2>4, InHand DEF CreditPayout, PayingLabels
    <3>2. balance[Slip[Paid(r)].user] + Payout(Paid(r)) \in Int
      BY <3>1, SlipTypes DEF MoneyTypeOK
    <3>3. /\ \/ UNCHANGED paidAfter
             \/ paidAfter' = [paidAfter EXCEPT ![r] =
                                balance[Slip[Paid(r)].user] + Payout(Paid(r))]
          /\ UNCHANGED <<found, todo>>
          /\ \/ /\ UNCHANGED paying
                /\ settlePc' = [settlePc EXCEPT ![r] = "saveTx"]
             \/ /\ paying' = [paying EXCEPT ![r] = {}]
                /\ settlePc' = [settlePc EXCEPT ![r] = "next"]
          /\ settlePc[r] = "credit"
      BY <2>4 DEF CreditPayout, CreditIsDropped, SettleReader!Goto
    <3> QED
      BY <2>0, <3>2, <3>3 DEF PayingLabels
  <2>5. ASSUME NEW r \in Replicas, SaveCreditTx(r) \/ PublishCreditTx(r) PROVE G
    BY <2>0, <2>5 DEF SaveCreditTx, PublishCreditTx, NextBet, settleLocals,
                      SettleReader!Goto, PayingLabels
  <2>6. ASSUME NEW r \in Replicas, \/ SettleReader!Fetch(r)
                                   \/ SettleReader!Commit(r, TRUE)
                                   \/ SettleReader!Commit(r, FALSE),
               UNCHANGED settleLocals
        PROVE  G
    BY <2>0, <2>6 DEF SettleReader!Fetch, SettleReader!Commit, settleLocals, PayingLabels
  <2>7. ASSUME NEW r \in Replicas, Crash(r) PROVE G
    BY <2>0, <2>7 DEF Crash, SettleReader!Crash, PayingLabels
  <2>8. ASSUME UNCHANGED <<settleLocals, settlePc>> PROVE G
    BY <2>8 DEF settleLocals
  <2> QED
    BY <2>1, <2>2, <2>3, <2>4, <2>5, <2>6, <2>7, <2>8, SettleWriters
    DEF RunSettlement, SettleLoop, HandleBetSettled
<1> QED
  BY <1>1, <1>2 DEF LocalsTypeOK

LEMMA ApiTypes == TypeOK /\ [Next]_vars => ApiTypeOK'
<1> SUFFICES ASSUME TypeOK, [Next]_vars PROVE ApiTypeOK'
  OBVIOUS
<1> USE DEF TypeOK, ApiTypeOK
<1>1. ASSUME NEW b \in Bets, PlaceBet(b) PROVE ApiTypeOK'
  BY <1>1 DEF PlaceBet
<1>2. ASSUME NEW m \in Markets, NEW w \in Outcomes, SettleMarket(m, w) PROVE ApiTypeOK'
  BY <1>2 DEF SettleMarket, MarkIfPublished
<1>3. ASSUME NEW m \in Markets, MarkSettled(m) PROVE ApiTypeOK'
  BY <1>3 DEF MarkSettled, UpdateMarketStatus
<1>4. ASSUME UNCHANGED api PROVE ApiTypeOK'
  BY <1>4 DEF api
<1> QED
  BY <1>1, <1>2, <1>3, <1>4
  DEF Next, RunBets, RunSettlement, Crash, Rebalance, RedisFrame, KeyExpires,
      SuspendMarket, SuspensionLapses, OddsWritten, OddsExpire, vars

LEMMA TypeStep == TypeOK /\ [Next]_vars => TypeOK'
<1> SUFFICES ASSUME TypeOK, [Next]_vars PROVE TypeOK'
  OBVIOUS
<1>1. BetsReader!ConsumerTypeOK(Bets, BetLabels)'
  BY BetsReaderTypes, BetsStep DEF TypeOK, StoreTypeOK
<1>2. SettleReader!ConsumerTypeOK(Settlement, SettleLabels)'
  BY SettleReaderTypes, SettleStep DEF TypeOK, StoreTypeOK
<1>3. faults' \in Nat
  BY FaultCount DEF Fault, TypeOK, StoreTypeOK
<1> QED
  BY <1>1, <1>2, <1>3, RedisTypes, MoneyTypes, BooksTypes, TrailTypes, LocalsTypes,
     ApiTypes
  DEF TypeOK, StoreTypeOK

LEMMA TypeInit == Init => TypeOK
<1> SUFFICES ASSUME Init PROVE TypeOK
  OBVIOUS
<1> USE DEF Init, StoreInit
<1>1. BetsReader!ConsumerTypeOK(Bets, BetLabels)
  BY DEF BetsReader!ConsumerInit, BetsReader!ConsumerTypeOK
<1>2. SettleReader!ConsumerTypeOK(Settlement, SettleLabels)
  BY DEF SettleReader!ConsumerInit, SettleReader!ConsumerTypeOK
<1>3. MoneyTypeOK
  BY OpeningAssumption DEF MoneyTypeOK
<1>4. RedisTypeOK /\ BooksTypeOK /\ TrailTypeOK
  BY DEF RedisTypeOK, BooksTypeOK, TrailTypeOK, BetStatus
<1>5. LocalsTypeOK
  BY DEF LocalsTypeOK, SettleReader!ConsumerInit, PayingLabels
<1>6. ApiTypeOK
  BY DEF ApiInit, ApiTypeOK
<1> QED
  BY <1>1, <1>2, <1>3, <1>4, <1>5, <1>6 DEF TypeOK, StoreTypeOK

\* Every variable of the money path keeps its type: in particular no offset runs
\* past the end of its partition, and a handler about to pay has a bet to pay.
THEOREM Types == Spec => []TypeOK
BY TypeInit, TypeStep, PTL DEF Spec

-----------------------------------------------------------------------------
\* Balances.

LEMMA OverdraftStep == TypeOK /\ NoOverdraft /\ [Next]_vars => NoOverdraft'
<1> SUFFICES ASSUME TypeOK, NoOverdraft, [Next]_vars PROVE NoOverdraft'
  OBVIOUS
<1>0. balance \in [Users -> Int]
  BY DEF TypeOK, StoreTypeOK, MoneyTypeOK
<1>1. ASSUME NEW r \in Replicas, DebitStake(r) PROVE NoOverdraft'
  <2>1. Bet(r) \in Bets
    BY <1>1, InHand DEF DebitStake, TypeOK
  <2>2. \/ Covers(Slip[Bet(r)].user, -Stake(Bet(r))) /\ Debit(Bet(r))
        \/ UNCHANGED balance
    BY <1>1 DEF DebitStake, money
  <2>3. Stake(Bet(r)) \in Int /\ Stake(Bet(r)) > 0 /\ Slip[Bet(r)].user \in Users
    BY <2>1, SlipTypes
  <2> QED
    BY <1>0, <2>2, <2>3 DEF Covers, Debit, NoOverdraft
<1>2. ASSUME NEW r \in Replicas, CreditPayout(r) PROVE NoOverdraft'
  <2>1. Paid(r) \in Bets
    BY <1>2, InHand DEF CreditPayout, PayingLabels, TypeOK
  <2>2. Credit(Paid(r)) \/ UNCHANGED balance
    BY <1>2 DEF CreditPayout, money
  <2>3. Payout(Paid(r)) \in Int /\ Payout(Paid(r)) >= 0
    BY <2>1, SlipTypes
  <2> QED
    BY <1>0, <2>2, <2>3 DEF Credit, NoOverdraft
<1>3. ASSUME UNCHANGED money PROVE NoOverdraft'
  BY <1>3 DEF money, NoOverdraft
<1> QED
  BY <1>1, <1>2, <1>3, MoneyWriters

\* README.md:198: the $gte guard of the debit keeps every balance at zero or
\* above, however many processes book stakes and payouts at once.
THEOREM Solvency == Spec => []NoOverdraft
<1>1. Init => TypeOK /\ NoOverdraft
  BY TypeInit, OpeningAssumption DEF Init, StoreInit, NoOverdraft
<1>2. TypeOK /\ NoOverdraft /\ [Next]_vars => TypeOK' /\ NoOverdraft'
  BY TypeStep, OverdraftStep
<1> QED
  BY <1>1, <1>2, PTL DEF Spec

-----------------------------------------------------------------------------
\* How a step moves the handlers of bets.placed.

LEMMA BetPcWriters ==
  ASSUME TypeOK, [Next]_vars, NEW r \in Replicas
  PROVE  \/ UNCHANGED <<betPc[r], betAt[r]>>
         \/ RunBets(r) \/ Crash(r)
<1>0. /\ betPc \in [Replicas -> BetLabels \cup {"fetch", "commit"}]
      /\ betAt \in [Replicas -> (BetPartitions \X Nat) \cup {NoMessage}]
  BY DEF TypeOK, StoreTypeOK, BetsReader!ConsumerTypeOK
<1>1. ASSUME NEW q \in Replicas, q # r, RunBets(q)
      PROVE  UNCHANGED <<betPc[r], betAt[r]>>
  BY <1>0, <1>1 DEF RunBets, BetLoop, HandleBetPlaced, Check, Suspension, Odds,
       SuspensionUnknown, DebitStake, DebitRefused, SaveBet, SaveDebitTx, PublishDebitTx,
       BetsReader!Goto, BetsReader!ReturnNil, BetsReader!ReturnError,
       BetsReader!Fetch, BetsReader!Commit
<1>2. ASSUME NEW q \in Replicas, q # r, Crash(q)
      PROVE  UNCHANGED <<betPc[r], betAt[r]>>
  BY <1>0, <1>2 DEF Crash, BetsReader!Crash
<1>3. ASSUME \/ \E q \in Replicas : RunSettlement(q)
             \/ \E b \in Bets : PlaceBet(b) \/ KeyExpires(b)
             \/ \E m \in Markets : \/ \E w \in Outcomes : SettleMarket(m, w)
                                   \/ MarkSettled(m)
                                   \/ SuspendMarket(m) \/ SuspensionLapses(m)
             \/ \E o \in Outcomes : (\E v \in OddsValues : OddsWritten(o, v)) \/ OddsExpire(o)
             \/ Rebalance \/ UNCHANGED vars
      PROVE  UNCHANGED <<betPc[r], betAt[r]>>
  BY <1>3 DEF RunSettlement, SettleLoop, HandleBetSettled, FindBets, UpdateBet,
       Settled, CreditPayout, SaveCreditTx, PublishCreditTx, SettleFrame, PlaceBet,
       SettleMarket, MarkSettled, ApiFrame, KeyExpires, SuspendMarket,
       SuspensionLapses, OddsWritten, OddsExpire, RedisFrame, Rebalance,
       BetsReader!Rebalance, vars, betReader
<1> QED
  BY <1>1, <1>2, <1>3 DEF Next

LEMMA BetLogWriters == [Next]_vars => UNCHANGED betLog \/ \E b \in Bets : PlaceBet(b)
<1>1. ASSUME NEW r \in Replicas, RunBets(r) PROVE UNCHANGED betLog
  BY <1>1 DEF RunBets, BetLoop, HandleBetPlaced, Check, Suspension, Odds,
       SuspensionUnknown, DebitStake, DebitRefused, SaveBet, SaveDebitTx, PublishDebitTx,
       BetsReader!Goto, BetsReader!ReturnNil, BetsReader!ReturnError,
       BetsReader!Fetch, BetsReader!Commit
<1>2. ASSUME NEW r \in Replicas, RunSettlement(r) PROVE UNCHANGED betLog
  BY <1>2 DEF RunSettlement, SettleLoop, HandleBetSettled, FindBets, UpdateBet,
       Settled, CreditPayout, SaveCreditTx, PublishCreditTx, SettleFrame, betReader
<1> QED
  BY <1>1, <1>2 DEF Next, Crash, BetsReader!Crash, SettleMarket, MarkSettled,
       KeyExpires, SuspendMarket, SuspensionLapses, OddsWritten, OddsExpire,
       RedisFrame, Rebalance, BetsReader!Rebalance, vars, betReader

\* A handler keeps its bet until it is done with it.
LEMMA BetStays ==
  ASSUME TypeOK, [Next]_vars, NEW r \in Replicas,
         betPc[r] # "fetch", betPc'[r] # "fetch"
  PROVE  Bet(r)' = Bet(r)
<1>0. /\ betPc \in [Replicas -> BetLabels \cup {"fetch", "commit"}]
      /\ betAt \in [Replicas -> (BetPartitions \X Nat) \cup {NoMessage}]
  BY DEF TypeOK, StoreTypeOK, BetsReader!ConsumerTypeOK
<1>1. UNCHANGED betAt[r]
  <2>1. ~Crash(r)
    BY <1>0 DEF Crash, BetsReader!Crash
  <2>2. CASE RunBets(r)
    BY <1>0, <2>2 DEF RunBets, BetLoop, HandleBetPlaced, Check, Suspension, Odds,
       SuspensionUnknown, DebitStake, DebitRefused, SaveBet, SaveDebitTx, PublishDebitTx,
       BetsReader!Goto, BetsReader!ReturnNil, BetsReader!ReturnError,
       BetsReader!Fetch, BetsReader!Commit
  <2> QED
    BY <2>1, <2>2, BetPcWriters
<1>2. CASE UNCHANGED betLog
  BY <1>1, <1>2 DEF Bet, BetsReader!Current
<1>3. ASSUME NEW b \in Bets, PlaceBet(b) PROVE Bet(r)' = Bet(r)
  <2>1. PICK n \in 0..2 : BetsReader!Produce(BetPartition[Slip[b].user], Copies(n, b))
    BY <1>3 DEF PlaceBet, PublishBetPlaced
  <2>2. Copies(n, b) \in Seq(Bets)
    BY CopiesType
  <2>3. BetPartition[Slip[b].user] \in BetPartitions
    BY SlipTypes, StoreAssumption
  <2>4. UNCHANGED <<betAt, betPc>>
    BY <1>3 DEF PlaceBet, ApiFrame
  <2> QED
    BY <2>1, <2>2, <2>3, <2>4, BetProduceKeeps DEF TypeOK, StoreTypeOK
<1> QED
  BY <1>2, <1>3, BetLogWriters

\* Which steps bring a handler to a label: only those of its own loop.
LEMMA ReachesSave ==
  ASSUME TypeOK, [Next]_vars, NEW r \in Replicas, betPc'[r] = "save"
  PROVE  betPc[r] = "save" \/ (DebitStake(r) /\ Debit(Bet(r)))
<1>0. betPc \in [Replicas -> BetLabels \cup {"fetch", "commit"}]
  BY DEF TypeOK, StoreTypeOK, BetsReader!ConsumerTypeOK
<1>1. CASE RunBets(r)
  BY <1>0, <1>1 DEF RunBets, BetLoop, HandleBetPlaced, Check, Suspension, Odds,
       SuspensionUnknown, DebitStake, DebitRefused, SaveBet, SaveDebitTx, PublishDebitTx,
       BetsReader!Goto, BetsReader!ReturnNil, BetsReader!ReturnError,
       BetsReader!Fetch, BetsReader!Commit
<1>2. CASE Crash(r)
  BY <1>0, <1>2 DEF Crash, BetsReader!Crash
<1> QED
  BY <1>1, <1>2, BetPcWriters

LEMMA ReachesValidating ==
  ASSUME TypeOK, [Next]_vars, NEW r \in Replicas, betPc'[r] \in ValidatingLabels
  PROVE  \/ betPc[r] \in ValidatingLabels
         \/ Check(r) /\ Bet(r) \notin keys /\ Claim(Bet(r))
<1>0. betPc \in [Replicas -> BetLabels \cup {"fetch", "commit"}]
  BY DEF TypeOK, StoreTypeOK, BetsReader!ConsumerTypeOK
<1> USE DEF ValidatingLabels
<1>1. CASE RunBets(r)
  BY <1>0, <1>1 DEF RunBets, BetLoop, HandleBetPlaced, Check, Suspension, Odds,
       SuspensionUnknown, DebitStake, DebitRefused, SaveBet, SaveDebitTx, PublishDebitTx,
       BetsReader!Goto, BetsReader!ReturnNil, BetsReader!ReturnError,
       BetsReader!Fetch, BetsReader!Commit
<1>2. CASE Crash(r)
  BY <1>0, <1>2 DEF Crash, BetsReader!Crash
<1> QED
  BY <1>1, <1>2, BetPcWriters

-----------------------------------------------------------------------------
\* What is on the books was debited.

\* The strengthening: a bet about to be saved was debited, and what a handler
\* has to settle or to pay is on the books.
DebitedInv ==
  /\ PersistedWasDebited
  /\ \A r \in Replicas : betPc[r] = "save" => debits[Bet(r)] > 0
  /\ \A r \in Replicas : \A b \in todo[r] : status[b] # "NONE"

LEMMA DebitsGrow ==
  TypeOK /\ [Next]_vars => \A b \in Bets : debits'[b] >= debits[b]
<1> SUFFICES ASSUME TypeOK, [Next]_vars PROVE \A b \in Bets : debits'[b] >= debits[b]
  OBVIOUS
<1>0. debits \in [Bets -> Nat]
  BY DEF TypeOK, StoreTypeOK, MoneyTypeOK
<1>1. UNCHANGED debits \/ \E b : debits' = [debits EXCEPT ![b] = @ + 1]
  BY MoneyWriters DEF money, DebitStake, CreditPayout, Debit, Credit
<1> QED
  BY <1>0, <1>1

LEMMA StatusSteps ==
  ASSUME TypeOK, [Next]_vars, NEW b \in Bets, status'[b] # status[b]
  PROVE  \/ \E r \in Replicas : /\ SaveBet(r) /\ b = Bet(r)
                               /\ status[b] = "NONE" /\ status'[b] = "PENDING"
         \/ \E r \in Replicas : /\ UpdateBet(r, b)
                               /\ status'[b] = Result(b, Announced(r).winner)
<1>0. status \in [Bets -> BetStatus]
  BY DEF TypeOK, StoreTypeOK, BooksTypeOK
<1>1. ASSUME NEW r \in Replicas, SaveBet(r)
      PROVE  /\ b = Bet(r) /\ status[b] = "NONE" /\ status'[b] = "PENDING"
  BY <1>0, <1>1 DEF SaveBet
<1>2. ASSUME NEW r \in Replicas, NEW c \in Bets, UpdateBet(r, c)
      PROVE  b = c /\ status'[b] = Result(b, Announced(r).winner)
  BY <1>0, <1>2 DEF UpdateBet
<1> QED
  BY <1>1, <1>2, StatusWriters

LEMMA TodoSteps ==
  ASSUME TypeOK, [Next]_vars, NEW r \in Replicas
  PROVE  \/ todo'[r] \subseteq todo[r]
         \/ FindBets(r) /\ todo'[r] = FindByMarket(Announced(r).market)
<1>0. todo \in [Replicas -> SUBSET Bets]
  BY DEF TypeOK, StoreTypeOK, LocalsTypeOK
<1>1. ASSUME NEW q \in Replicas, HandleBetSettled(q)
      PROVE  \/ todo'[r] \subseteq todo[r]
             \/ FindBets(r) /\ todo'[r] = FindByMarket(Announced(r).market)
  BY <1>0, <1>1 DEF HandleBetSettled, FindBets, UpdateBet, Settled, CreditPayout,
       SaveCreditTx, PublishCreditTx, settleLocals
<1>2. ASSUME NEW q \in Replicas, RunSettlement(q)
      PROVE  \/ todo'[r] \subseteq todo[r]
             \/ FindBets(r) /\ todo'[r] = FindByMarket(Announced(r).market)
  BY <1>1, <1>2 DEF RunSettlement, SettleLoop, settleLocals
<1>3. ASSUME NEW q \in Replicas, Crash(q) PROVE todo'[r] \subseteq todo[r]
  BY <1>0, <1>3 DEF Crash
<1> QED
  BY <1>2, <1>3, SettleWriters DEF settleLocals

LEMMA DebitedStep == TypeOK /\ DebitedInv /\ [Next]_vars => DebitedInv'
<1> SUFFICES ASSUME TypeOK, DebitedInv, [Next]_vars PROVE DebitedInv'
  OBVIOUS
<1> USE DEF DebitedInv
<1>T. /\ debits \in [Bets -> Nat] /\ debits' \in [Bets -> Nat]
      /\ status \in [Bets -> BetStatus]
      /\ todo \in [Replicas -> SUBSET Bets]
  BY TypeStep DEF TypeOK, StoreTypeOK, MoneyTypeOK, BooksTypeOK, LocalsTypeOK
<1>1. ASSUME NEW b \in Bets, status'[b] # "NONE" PROVE debits'[b] > 0
  <2>1. CASE status[b] # "NONE"
    BY <2>1, <1>T, DebitsGrow DEF PersistedWasDebited
  <2>2. ASSUME NEW r \in Replicas, SaveBet(r), b = Bet(r) PROVE debits'[b] > 0
    BY <2>2, <1>T, DebitsGrow DEF SaveBet
  <2>3. ASSUME NEW r \in Replicas, UpdateBet(r, b) PROVE status[b] # "NONE"
    BY <2>3 DEF UpdateBet
  <2> QED
    BY <1>1, <2>1, <2>2, <2>3, StatusSteps
<1>2. ASSUME NEW r \in Replicas, betPc'[r] = "save" PROVE debits'[Bet(r)'] > 0
  <2>1. betPc[r] # "fetch"
    BY <1>2, ReachesSave DEF DebitStake
  <2>2. Bet(r)' = Bet(r) /\ Bet(r) \in Bets
    BY <1>2, <2>1, BetStays, InHand DEF TypeOK
  <2>3. CASE betPc[r] = "save"
    BY <2>2, <2>3, <1>T, DebitsGrow
  <2>4. CASE Debit(Bet(r))
    BY <2>2, <2>4, <1>T DEF Debit
  <2> QED
    BY <1>2, <2>3, <2>4, ReachesSave
<1>3. ASSUME NEW b \in Bets, status[b] # "NONE" PROVE status'[b] # "NONE"
  BY <1>3, StatusSteps, SlipTypes
<1>4. ASSUME NEW r \in Replicas, NEW b \in todo'[r] PROVE status'[b] # "NONE"
  <2>1. CASE b \in todo[r]
    BY <2>1, <1>3, <1>T
  <2>2. CASE b \in FindByMarket(Announced(r).market)
    BY <2>2, <1>3 DEF FindByMarket
  <2> QED
    BY <2>1, <2>2, TodoSteps
<1> QED
  BY <1>1, <1>2, <1>4 DEF PersistedWasDebited

LEMMA DebitedInit == Init => DebitedInv
<1> SUFFICES ASSUME Init PROVE DebitedInv
  OBVIOUS
<1> QED
  BY DEF Init, StoreInit, BetsReader!ConsumerInit, DebitedInv, PersistedWasDebited

\* A bet that is on the books, whatever failed or was delivered again on its
\* way there, had its stake taken first.
THEOREM BooksAreFunded == Spec => []PersistedWasDebited
<1>1. Init => TypeOK /\ DebitedInv
  BY TypeInit, DebitedInit
<1>2. TypeOK /\ DebitedInv /\ [Next]_vars => TypeOK' /\ DebitedInv'
  BY TypeStep, DebitedStep
<1>3. DebitedInv => PersistedWasDebited
  BY DEF DebitedInv
<1> QED
  BY <1>1, <1>2, <1>3, PTL DEF Spec

-----------------------------------------------------------------------------
\* While idempotency keys last, a bet is handled past its check once.

KeysLast == "ttl" \notin Env

RefusedOnSight(b) == rejected[b] \cap {"market_suspended", "odds_changed"} # {}

\* The strengthening: whatever was done for a bet, its key is taken; a bet being
\* validated was not debited or refused before, and no two handlers validate
\* the same bet.
ClaimInv ==
  /\ AtMostOneDebit
  /\ \A b \in Bets : debits[b] > 0 => b \in keys
  /\ \A b \in Bets : RefusedOnSight(b) => b \in keys /\ debits[b] = 0
  /\ \A r \in Replicas : betPc[r] \in ValidatingLabels =>
       /\ Bet(r) \in keys
       /\ debits[Bet(r)] = 0
       /\ ~RefusedOnSight(Bet(r))
  /\ \A r, q \in Replicas : /\ r # q
                            /\ betPc[r] \in ValidatingLabels
                            /\ betPc[q] \in ValidatingLabels
                           => Bet(r) # Bet(q)

LEMMA KeysGrow == KeysLast /\ TypeOK /\ [Next]_vars => keys \subseteq keys'
<1> SUFFICES ASSUME KeysLast, TypeOK, [Next]_vars PROVE keys \subseteq keys'
  OBVIOUS
<1>1. ASSUME NEW r \in Replicas, Check(r) PROVE keys \subseteq keys'
  BY <1>1 DEF Check, Claim
<1> QED
  BY <1>1, RedisWriters DEF KeysLast, KeyExpires, SuspendMarket, SuspensionLapses,
                            OddsWritten, OddsExpire, redis

\* A handler that is validating after a step was validating the same bet before
\* it, or has just claimed its key.
LEMMA ValidatingBet ==
  ASSUME TypeOK, [Next]_vars, NEW r \in Replicas, betPc'[r] \in ValidatingLabels
  PROVE  /\ Bet(r)' = Bet(r) /\ Bet(r) \in Bets
         /\ \/ betPc[r] \in ValidatingLabels
            \/ Check(r) /\ Bet(r) \notin keys /\ Claim(Bet(r))
<1>1. betPc[r] # "fetch"
  BY ReachesValidating DEF Check, ValidatingLabels
<1>2. betPc'[r] # "fetch"
  BY DEF ValidatingLabels
<1> QED
  BY <1>1, <1>2, BetStays, InHand, ReachesValidating DEF TypeOK

\* How the handlers of bets.placed add to debits and refusals.
LEMMA DebitSteps ==
  ASSUME TypeOK, [Next]_vars, NEW b \in Bets, debits'[b] # debits[b]
  PROVE  \E r \in Replicas : DebitStake(r) /\ b = Bet(r) /\ debits'[b] = debits[b] + 1
<1>0. debits \in [Bets -> Nat]
  BY DEF TypeOK, StoreTypeOK, MoneyTypeOK
<1>1. ASSUME NEW r \in Replicas, DebitStake(r)
      PROVE  b = Bet(r) /\ debits'[b] = debits[b] + 1
  BY <1>0, <1>1 DEF DebitStake, Debit, money
<1> QED
  BY <1>1, MoneyWriters DEF money, CreditPayout, Credit

LEMMA RefusalSteps ==
  ASSUME TypeOK, [Next]_vars, NEW b \in Bets, RefusedOnSight(b)', ~RefusedOnSight(b)
  PROVE  \E r \in Replicas : /\ Suspension(r) \/ Odds(r)
                             /\ b = Bet(r) /\ betPc'[r] = "commit"
<1>0. /\ rejected \in [Bets -> SUBSET {"duplicate", "market_suspended",
                                      "odds_changed", "insufficient_balance"}]
      /\ betPc \in [Replicas -> BetLabels \cup {"fetch", "commit"}]
  BY DEF TypeOK, StoreTypeOK, BooksTypeOK, BetsReader!ConsumerTypeOK
<1>1. rejected' # rejected
  BY DEF RefusedOnSight
<1>2. PICK r \in Replicas : HandleBetPlaced(r)
  BY <1>1, BetLocalsWriters DEF betLocals, Crash
<1>3. ASSUME Check(r) \/ DebitStake(r) \/ SaveBet(r) \/ SaveDebitTx(r) \/ PublishDebitTx(r)
      PROVE  FALSE
  <2>1. \/ UNCHANGED rejected
        \/ Reject(Bet(r), "duplicate") \/ Reject(Bet(r), "insufficient_balance")
    BY <1>3 DEF Check, DebitStake, DebitRefused, SaveBet, SaveDebitTx, PublishDebitTx,
                betLocals
  <2> QED
    BY <1>0, <2>1 DEF Reject, RefusedOnSight
<1>4. Suspension(r) \/ Odds(r)
  BY <1>2, <1>3 DEF HandleBetPlaced
<1>5. \E reason : Reject(Bet(r), reason) /\ BetsReader!ReturnNil(r)
  BY <1>1, <1>4 DEF Suspension, Odds
<1> QED
  BY <1>0, <1>4, <1>5 DEF Reject, RefusedOnSight, BetsReader!ReturnNil, BetsReader!Goto

LEMMA ClaimStep == KeysLast /\ TypeOK /\ ClaimInv /\ [Next]_vars => ClaimInv'
<1> SUFFICES ASSUME KeysLast, TypeOK, ClaimInv, [Next]_vars PROVE ClaimInv'
  OBVIOUS
<1>T. /\ debits \in [Bets -> Nat] /\ debits' \in [Bets -> Nat]
      /\ betPc \in [Replicas -> BetLabels \cup {"fetch", "commit"}]
  BY TypeStep DEF TypeOK, StoreTypeOK, MoneyTypeOK, BetsReader!ConsumerTypeOK
<1>K. keys \subseteq keys'
  BY KeysGrow
<1>1. ASSUME NEW r \in Replicas, DebitStake(r)
      PROVE  /\ betPc[r] \in ValidatingLabels /\ betPc'[r] \notin ValidatingLabels
             /\ Bet(r) \in Bets
  <2>1. Bet(r) \in Bets
    BY <1>1, InHand DEF DebitStake, TypeOK
  <2> QED
    BY <1>T, <1>1, <2>1 DEF DebitStake, DebitRefused, ValidatingLabels,
                       BetsReader!ReturnNil, BetsReader!Goto
<1>2. ASSUME NEW b \in Bets
      PROVE  /\ debits'[b] <= 1
             /\ debits'[b] > 0 => b \in keys'
  <2>1. CASE debits'[b] = debits[b]
    BY <2>1, <1>K DEF ClaimInv, AtMostOneDebit
  <2>2. CASE debits'[b] # debits[b]
    BY <2>2, <1>1, <1>K, DebitSteps DEF ClaimInv
  <2> QED
    BY <2>1, <2>2
<1>3. ASSUME NEW b \in Bets, RefusedOnSight(b)' PROVE b \in keys' /\ debits'[b] = 0
  <2>1. b \in keys /\ debits[b] = 0
    <3>1. CASE RefusedOnSight(b)
      BY <3>1 DEF ClaimInv
    <3>2. CASE ~RefusedOnSight(b)
      BY <1>3, <3>2, RefusalSteps DEF ClaimInv, Suspension, Odds, ValidatingLabels
    <3> QED
      BY <3>1, <3>2
  <2>2. debits'[b] = debits[b]
    <3> SUFFICES ASSUME debits'[b] # debits[b] PROVE FALSE
      OBVIOUS
    <3>1. PICK r \in Replicas : DebitStake(r) /\ b = Bet(r)
      BY DebitSteps
    <3>2. ~RefusedOnSight(b)
      BY <3>1, <1>1 DEF ClaimInv
    <3>3. PICK q \in Replicas : (Suspension(q) \/ Odds(q)) /\ b = Bet(q)
      BY <1>3, <3>2, RefusalSteps
    <3>4. UNCHANGED money
      BY <3>3 DEF Suspension, Odds
    <3> QED
      BY <3>4 DEF money
  <2> QED
    BY <1>K, <2>1, <2>2
<1>4. ASSUME NEW r \in Replicas, betPc'[r] \in ValidatingLabels
      PROVE  Bet(r)' \in keys' /\ debits'[Bet(r)'] = 0 /\ (~RefusedOnSight(Bet(r)))'
  <2> DEFINE b == Bet(r)
  <2>1. b' = b /\ b \in Bets
    BY <1>4, ValidatingBet
  <2>2. b \in keys' /\ debits[b] = 0 /\ ~RefusedOnSight(b)
    BY <1>4, <1>K, <1>T, <2>1, ValidatingBet DEF ClaimInv, Claim
  <2>3. debits'[b] = debits[b]
    <3> SUFFICES ASSUME debits'[b] # debits[b] PROVE FALSE
      OBVIOUS
    <3>1. PICK q \in Replicas : DebitStake(q) /\ b = Bet(q)
      BY <2>1, DebitSteps
    <3>2. q # r /\ betPc[q] \in ValidatingLabels
      BY <3>1, <1>1, <1>4
    <3>3. betPc[r] \in ValidatingLabels
      BY <1>4, <3>1, <3>2, <1>1, ValidatingBet DEF ClaimInv
    <3> QED
      BY <3>1, <3>2, <3>3 DEF ClaimInv
  <2>4. (~RefusedOnSight(b))'
    <3> SUFFICES ASSUME RefusedOnSight(b)' PROVE FALSE
      OBVIOUS
    <3>1. PICK q \in Replicas : (Suspension(q) \/ Odds(q)) /\ b = Bet(q)
                                /\ betPc'[q] = "commit"
      BY <2>1, <2>2, RefusalSteps
    <3>2. q # r /\ betPc[q] \in ValidatingLabels
      BY <1>4, <3>1 DEF Suspension, Odds, ValidatingLabels
    <3>3. betPc[r] \in ValidatingLabels
      BY <1>4, <3>1, <3>2, ValidatingBet DEF ClaimInv
    <3> QED
      BY <3>1, <3>2, <3>3 DEF ClaimInv
  <2> QED
    BY <2>1, <2>2, <2>3, <2>4
<1>5. ASSUME NEW r \in Replicas, NEW q \in Replicas, r # q,
             betPc'[r] \in ValidatingLabels, betPc'[q] \in ValidatingLabels
      PROVE  Bet(r)' # Bet(q)'
  <2>1. Bet(r)' = Bet(r) /\ Bet(q)' = Bet(q)
    BY <1>5, ValidatingBet
  <2>2. ASSUME NEW x \in Replicas, NEW y \in Replicas, x # y,
               betPc'[x] \in ValidatingLabels, betPc'[y] \in ValidatingLabels,
               betPc[x] \notin ValidatingLabels
        PROVE  Bet(x) # Bet(y)
    <3>1. Check(x) /\ Bet(x) \notin keys
      BY <2>2, ValidatingBet
    <3>2. betPc'[y] = betPc[y]
      BY <3>1, <2>2, <1>T DEF Check, BetsReader!Goto, BetsReader!ReturnNil,
                              BetsReader!ReturnError
    <3> QED
      BY <3>1, <3>2, <2>2 DEF ClaimInv
  <2> QED
    BY <1>5, <2>1, <2>2 DEF ClaimInv
<1> QED
  BY <1>2, <1>3, <1>4, <1>5 DEF ClaimInv, AtMostOneDebit

LEMMA ClaimInit == Init => ClaimInv
<1> SUFFICES ASSUME Init PROVE ClaimInv
  OBVIOUS
<1>1. /\ \A b \in Bets : debits[b] = 0 /\ rejected[b] = {}
      /\ \A r \in Replicas : betPc[r] = "fetch"
  BY DEF Init, StoreInit, BetsReader!ConsumerInit
<1> QED
  BY <1>1 DEF ClaimInv, AtMostOneDebit, RefusedOnSight, ValidatingLabels

\* The idempotency key does its work exactly as long as it exists: if no key
\* expires, no crash, rebalance, retry or lost reply makes any number of
\* processes take a stake twice (bet_processor.go:58-67), or take the stake of
\* a bet that was refused for its market or its odds.
THEOREM KeysMakeDebitsUnique ==
  ASSUME KeysLast
  PROVE  Spec => [](AtMostOneDebit /\ RefusedTakesNothing)
<1> DEFINE Inv == TypeOK /\ DebitedInv /\ ClaimInv
<1>1. Init => Inv
  BY TypeInit, DebitedInit, ClaimInit
<1>2. Inv /\ [Next]_vars => Inv'
  BY TypeStep, DebitedStep, ClaimStep
<1>3. Inv => AtMostOneDebit /\ RefusedTakesNothing
  <2> SUFFICES ASSUME Inv PROVE AtMostOneDebit /\ RefusedTakesNothing
    OBVIOUS
  <2>1. \A b \in Bets : debits[b] = 0 => status[b] = "NONE"
    BY DEF DebitedInv, PersistedWasDebited
  <2> QED
    BY <2>1 DEF ClaimInv, RefusedTakesNothing, RefusedOnSight
<1> QED
  BY <1>1, <1>2, <1>3, PTL DEF Spec
=============================================================================
