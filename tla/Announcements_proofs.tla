------------------------ MODULE Announcements_proofs ------------------------
(***************************************************************************)
(* What is settled was announced, for every number of replicas, users,     *)
(* bets, markets and faults, with idempotency keys that last or expire.    *)
(***************************************************************************)
EXTENDS BetProcessor_proofs, FiniteSetTheorems

-----------------------------------------------------------------------------
\* Counting: what costs a fault each.

LEMMA OneMore ==
  ASSUME NEW S, NEW x, IsFiniteSet(S)
  PROVE  IsFiniteSet(S \cup {x}) /\ Cardinality(S \cup {x}) <= Cardinality(S) + 1
<1>1. /\ IsFiniteSet(S \cup {x})
      /\ Cardinality(S \cup {x}) = IF x \in S THEN Cardinality(S) ELSE Cardinality(S) + 1
  BY FS_AddElement
<1>2. Cardinality(S) \in Nat
  BY FS_CardinalityType
<1> QED
  BY <1>1, <1>2

\* A set that grows by one element at a time, each time paid for.
LEMMA PaidFor ==
  ASSUME NEW S, NEW T, NEW m \in Nat, NEW n \in Nat,
         IsFiniteSet(S), Cardinality(S) <= m, m <= n,
         T \subseteq S \/ \E x : T \subseteq S \cup {x} /\ n = m + 1
  PROVE  IsFiniteSet(T) /\ Cardinality(T) <= n
<1>1. Cardinality(S) \in Nat
  BY FS_CardinalityType
<1>2. CASE T \subseteq S
  <2>1. IsFiniteSet(T) /\ Cardinality(T) <= Cardinality(S) /\ Cardinality(T) \in Nat
    BY <1>2, FS_Subset, FS_CardinalityType
  <2> QED
    BY <1>1, <2>1
<1>3. ASSUME NEW x, T \subseteq S \cup {x}, n = m + 1
      PROVE  IsFiniteSet(T) /\ Cardinality(T) <= n
  <2> DEFINE more == S \cup {x}
  <2>1. IsFiniteSet(more) /\ Cardinality(more) <= Cardinality(S) + 1 /\ T \subseteq more
    BY <1>3, OneMore
  <2> HIDE DEF more
  <2>2. IsFiniteSet(T) /\ Cardinality(T) <= Cardinality(more)
    BY <2>1, FS_Subset
  <2>3. Cardinality(T) \in Nat /\ Cardinality(more) \in Nat
    BY <2>1, <2>2, FS_CardinalityType
  <2> QED
    BY <1>1, <1>3, <2>1, <2>2, <2>3
<1> QED
  BY <1>2, <1>3

-----------------------------------------------------------------------------
\* What a partition of bets.settled holds was keyed by its market.
KeyedByMarket ==
  \A p \in SettlePartitions : \A i \in DOMAIN settleLog[p] :
    SettlePartition[settleLog[p][i].market] = p

-----------------------------------------------------------------------------
\* The topic only grows, by announcements that belong on their partition.

LEMMA SettleLogWriters ==
  [Next]_vars => \/ UNCHANGED settleLog
                 \/ \E m \in Markets, w \in Outcomes : SettleMarket(m, w)
<1>1. ASSUME NEW r \in Replicas, RunSettlement(r) PROVE UNCHANGED settleLog
  BY <1>1 DEF RunSettlement, SettleLoop, HandleBetSettled, FindBets, UpdateBet,
       Settled, CreditPayout, CreditIsDropped, SaveCreditTx, PublishCreditTx, NextBet,
       settleReader, SettleReader!Goto, SettleReader!ReturnNil,
       SettleReader!ReturnError, SettleReader!Fetch, SettleReader!Commit
<1>2. ASSUME NEW r \in Replicas, RunBets(r) PROVE UNCHANGED settleLog
  BY <1>2 DEF RunBets, BetLoop, HandleBetPlaced, Check, Suspension, Odds, DebitStake,
       SaveBet, SaveDebitTx, PublishDebitTx, ValidationFrame, settleReader
<1> QED
  BY <1>1, <1>2 DEF Next, Crash, SettleReader!Crash, PlaceBet, MarkSettled,
       KeyExpires, SuspendMarket, SuspensionLapses, OddsWritten, OddsExpire,
       RedisFrame, Rebalance, SettleReader!Rebalance, vars, settleReader

LEMMA LogSteps ==
  ASSUME TypeOK, [Next]_vars, NEW p \in SettlePartitions
  PROVE  \E ms \in Seq(Settlement) :
           /\ settleLog'[p] = settleLog[p] \o ms
           /\ \A k \in 1..Len(ms) : SettlePartition[ms[k].market] = p
<1>0. settleLog \in [SettlePartitions -> Seq(Settlement)]
  BY DEF TypeOK, StoreTypeOK, SettleReader!ConsumerTypeOK
<1>1. settleLog[p] \o <<>> = settleLog[p]
  BY <1>0, ConcatEmptySeq
<1>2. CASE settleLog'[p] = settleLog[p]
  <2>1. /\ settleLog'[p] = settleLog[p] \o <<>>
        /\ \A k \in 1..Len(<<>>) : SettlePartition[<<>>[k].market] = p
    BY <1>1, <1>2
  <2>2. <<>> \in Seq(Settlement)
    OBVIOUS
  <2> QED
    BY <2>1, <2>2
<1>3. ASSUME NEW m \in Markets, NEW w \in Outcomes, SettleMarket(m, w),
             p = SettlePartition[m]
      PROVE  \E ms \in Seq(Settlement) :
               /\ settleLog'[p] = settleLog[p] \o ms
               /\ \A k \in 1..Len(ms) : SettlePartition[ms[k].market] = p
  <2> DEFINE a == [market |-> m, winner |-> w]
  <2>1. PICK n \in 0..2 : SettleReader!Produce(p, Copies(n, a))
    BY <1>3 DEF SettleMarket, PublishBetSettled
  <2>2. a \in Settlement
    BY DEF Settlement
  <2>3. /\ Copies(n, a) \in Seq(Settlement)
        /\ \A k \in 1..Len(Copies(n, a)) : Copies(n, a)[k] = a
    BY <2>2, CopiesType DEF Copies
  <2>4. settleLog'[p] = settleLog[p] \o Copies(n, a)
    BY <1>0, <2>1 DEF SettleReader!Produce
  <2>5. \A k \in 1..Len(Copies(n, a)) : SettlePartition[Copies(n, a)[k].market] = p
    BY <1>3, <2>3
  <2> HIDE DEF a
  <2> QED
    BY <2>3, <2>4, <2>5
<1>4. ASSUME NEW m \in Markets, NEW w \in Outcomes, SettleMarket(m, w),
             p # SettlePartition[m]
      PROVE  settleLog'[p] = settleLog[p]
  BY <1>0, <1>4 DEF SettleMarket, PublishBetSettled, SettleReader!Produce
<1> QED
  BY <1>2, <1>3, <1>4, SettleLogWriters

\* What was announced stays where it is, and new announcements are keyed too.
LEMMA LogGrows ==
  ASSUME TypeOK, [Next]_vars, NEW p \in SettlePartitions
  PROVE  /\ \A i \in DOMAIN settleLog[p] :
              i \in DOMAIN settleLog'[p] /\ settleLog'[p][i] = settleLog[p][i]
         /\ KeyedByMarket => \A i \in DOMAIN settleLog'[p] :
              SettlePartition[settleLog'[p][i].market] = p
<1>0. settleLog[p] \in Seq(Settlement)
  BY DEF TypeOK, StoreTypeOK, SettleReader!ConsumerTypeOK
<1>1. PICK ms \in Seq(Settlement) :
        /\ settleLog'[p] = settleLog[p] \o ms
        /\ \A k \in 1..Len(ms) : SettlePartition[ms[k].market] = p
  BY LogSteps
<1>2. /\ DOMAIN settleLog[p] = 1..Len(settleLog[p])
      /\ DOMAIN settleLog'[p] = 1..(Len(settleLog[p]) + Len(ms))
      /\ \A i \in 1..Len(settleLog[p]) : settleLog'[p][i] = settleLog[p][i]
      /\ \A i \in (Len(settleLog[p]) + 1)..(Len(settleLog[p]) + Len(ms)) :
           settleLog'[p][i] = ms[i - Len(settleLog[p])]
  BY <1>0, <1>1
<1>3. Len(settleLog[p]) \in Nat /\ Len(ms) \in Nat
  BY <1>0
<1>4. ASSUME KeyedByMarket, NEW i \in DOMAIN settleLog'[p]
      PROVE  SettlePartition[settleLog'[p][i].market] = p
  <2>1. CASE i \in 1..Len(settleLog[p])
    BY <1>2, <1>4, <2>1 DEF KeyedByMarket
  <2>2. CASE i \notin 1..Len(settleLog[p])
    <3>1. i - Len(settleLog[p]) \in 1..Len(ms)
      BY <1>2, <1>3, <2>2
    <3> QED
      BY <1>1, <1>2, <1>3, <2>2, <3>1
  <2> QED
    BY <2>1, <2>2
<1> QED
  BY <1>2, <1>3, <1>4

-----------------------------------------------------------------------------
\* A market is marked in Mongo after its settlement is on the topic.

\* The strengthening: a request that is still to write the status has published.
MarkedInv ==
  \A m \in Markets : settling[m] > 0 \/ marketStatus[m] = "SETTLED" => IsAnnounced(m)

LEMMA AnnouncedForEver ==
  ASSUME TypeOK, [Next]_vars, NEW m \in Markets, IsAnnounced(m)
  PROVE  IsAnnounced(m)'
<1>1. SettlePartition[m] \in SettlePartitions
  BY StoreAssumption
<1> QED
  BY <1>1, LogGrows DEF IsAnnounced

\* What the status says and who is about to write it: SettleMarket and MarkSettled.
LEMMA MarkSteps ==
  ASSUME TypeOK, [Next]_vars, NEW m \in Markets,
         settling'[m] > 0 \/ marketStatus'[m] = "SETTLED"
  PROVE  \/ settling[m] > 0 \/ marketStatus[m] = "SETTLED"
         \/ \E w \in Outcomes : SettleMarket(m, w) /\ settling' # settling
<1>0. /\ settling \in [Markets -> Nat]
      /\ marketStatus \in [Markets -> {"OPEN", "SETTLED"}]
  BY DEF TypeOK, ApiTypeOK
<1>1. ASSUME NEW c \in Markets, NEW w \in Outcomes, SettleMarket(c, w)
      PROVE  /\ UNCHANGED marketStatus
             /\ settling' = settling \/ settling' = [settling EXCEPT ![c] = @ + 1]
  BY <1>1 DEF SettleMarket, MarkIfPublished
<1>2. ASSUME NEW c \in Markets, MarkSettled(c)
      PROVE  settling[m] > 0 \/ marketStatus[m] = "SETTLED"
  BY <1>0, <1>2 DEF MarkSettled, UpdateMarketStatus
<1>3. \/ UNCHANGED <<settling, marketStatus>>
      \/ \E c \in Markets : MarkSettled(c) \/ \E w \in Outcomes : SettleMarket(c, w)
  BY DEF Next, RunBets, RunSettlement, Crash, Rebalance, RedisFrame, KeyExpires,
         SuspendMarket, SuspensionLapses, OddsWritten, OddsExpire, PlaceBet, vars, api
<1> QED
  BY <1>0, <1>1, <1>2, <1>3

LEMMA PublishedIsAnnounced ==
  ASSUME TypeOK, NEW m \in Markets, NEW w \in Outcomes, SettleMarket(m, w),
         settling' # settling
  PROVE  IsAnnounced(m)'
<1> DEFINE p == SettlePartition[m]
           a == [market |-> m, winner |-> w]
<1>1. p \in SettlePartitions /\ settleLog \in [SettlePartitions -> Seq(Settlement)]
  BY StoreAssumption DEF TypeOK, StoreTypeOK, SettleReader!ConsumerTypeOK
<1>2. PICK n \in 1..2 : SettleReader!Produce(p, Copies(n, a))
  BY DEF SettleMarket, PublishBetSettled, MarkIfPublished, Written
<1>3. settleLog'[p] = settleLog[p] \o Copies(n, a)
  BY <1>1, <1>2 DEF SettleReader!Produce
<1>4. /\ Copies(n, a) \in Seq(Settlement) /\ Len(Copies(n, a)) = n
      /\ Copies(n, a)[1] = a
  BY DEF Copies, Settlement
<1>5. /\ Len(settleLog[p]) + 1 \in DOMAIN settleLog'[p]
      /\ settleLog'[p][Len(settleLog[p]) + 1] = a
  BY <1>1, <1>3, <1>4
<1> QED
  BY <1>5 DEF IsAnnounced

\* Whoever reads SETTLED in Mongo can rely on bets.settled having the winner: the
\* request publishes first and gives up when that fails (admin_handler.go:39-45),
\* also when several requests settle one market at once.
THEOREM SettledWasPublished == Spec => []SettledMarketAnnounced
<1>1. Init => TypeOK /\ MarkedInv
  BY TypeInit DEF Init, ApiInit, MarkedInv
<1>2. TypeOK /\ MarkedInv /\ [Next]_vars => TypeOK' /\ MarkedInv'
  <2> SUFFICES ASSUME TypeOK, MarkedInv, [Next]_vars, NEW m \in Markets,
                      settling'[m] > 0 \/ marketStatus'[m] = "SETTLED"
               PROVE  IsAnnounced(m)'
    BY TypeStep DEF MarkedInv
  <2> QED
    BY MarkSteps, PublishedIsAnnounced, AnnouncedForEver DEF MarkedInv
<1>3. MarkedInv => SettledMarketAnnounced
  BY DEF MarkedInv, SettledMarketAnnounced
<1> QED
  BY <1>1, <1>2, <1>3, PTL DEF Spec

-----------------------------------------------------------------------------
\* An announced market is marked, or a call failed.

\* Announced markets that nobody will mark.
Unmarked ==
  {m \in Markets : IsAnnounced(m) /\ settling[m] = 0 /\ marketStatus[m] = "OPEN"}

\* A request announces its own market and no other.
LEMMA OthersAreNotAnnounced ==
  ASSUME TypeOK, [Next]_vars, NEW c \in Markets, NEW w \in Outcomes, SettleMarket(c, w),
         NEW m \in Markets, m # c, IsAnnounced(m)'
  PROVE  IsAnnounced(m)
<1> DEFINE p == SettlePartition[m]
           a == [market |-> c, winner |-> w]
<1>0. p \in SettlePartitions /\ settleLog \in [SettlePartitions -> Seq(Settlement)]
  BY StoreAssumption DEF TypeOK, StoreTypeOK, SettleReader!ConsumerTypeOK
<1>1. PICK n \in 0..2 : SettleReader!Produce(SettlePartition[c], Copies(n, a))
  BY DEF SettleMarket, PublishBetSettled
<1>2. settleLog'[p] = settleLog[p] \/ settleLog'[p] = settleLog[p] \o Copies(n, a)
  BY <1>0, <1>1 DEF SettleReader!Produce
<1>3. PICK i \in DOMAIN settleLog'[p] : settleLog'[p][i].market = m
  BY DEF IsAnnounced
<1>4. a \in Settlement /\ a.market # m
  BY DEF Settlement
<1> HIDE DEF a
<1>a. n \in Nat
  OBVIOUS
<1>b. Copies(n, a) \in Seq(Settlement)
  BY <1>4, <1>a, CopiesType
<1>5. /\ settleLog[p] \in Seq(Settlement) /\ Len(settleLog[p]) \in Nat
      /\ Copies(n, a) \in Seq(Settlement)
  BY <1>0, <1>b
<1>6. Len(Copies(n, a)) = n /\ \A k \in 1..n : Copies(n, a)[k] = a
  BY DEF Copies
<1>7. ASSUME settleLog'[p] = settleLog[p] \o Copies(n, a), i \notin DOMAIN settleLog[p]
      PROVE  FALSE
  <2> HIDE DEF p
  <2>1. /\ i \in 1..(Len(settleLog[p]) + n) /\ i \notin 1..Len(settleLog[p])
        /\ settleLog'[p][i] = Copies(n, a)[i - Len(settleLog[p])]
    BY <1>3, <1>5, <1>6, <1>7
  <2>2. settleLog'[p][i] = a
    BY <1>5, <1>6, <2>1
  <2> QED
    BY <1>3, <1>4, <2>2
<1>8. i \in DOMAIN settleLog[p]
  BY <1>2, <1>3, <1>7
<1>9. settleLog'[p][i] = settleLog[p][i]
  BY <1>0, <1>8, LogGrows
<1> QED
  BY <1>3, <1>8, <1>9 DEF IsAnnounced

\* A step leaves at most one more market unmarked, and only by a failing call.
LEMMA UnmarkedSteps ==
  ASSUME TypeOK, [Next]_vars
  PROVE  \/ Unmarked' \subseteq Unmarked
         \/ \E x : Unmarked' \subseteq Unmarked \cup {x} /\ faults' = faults + 1
<1>0. /\ settling \in [Markets -> Nat]
      /\ marketStatus \in [Markets -> {"OPEN", "SETTLED"}]
  BY DEF TypeOK, ApiTypeOK
<1>1. ASSUME NEW c \in Markets, NEW w \in Outcomes, SettleMarket(c, w)
      PROVE  \/ Unmarked' \subseteq Unmarked
             \/ \E x : Unmarked' \subseteq Unmarked \cup {x} /\ faults' = faults + 1
  <2>1. PICK n \in 0..2, answered \in BOOLEAN :
          Written(n, answered) /\ MarkIfPublished(c, answered)
    BY <1>1 DEF SettleMarket
  <2>2. UNCHANGED marketStatus
    BY <1>1 DEF SettleMarket
  <2>3. \A m \in Markets : m # c /\ IsAnnounced(m)' => IsAnnounced(m)
    BY <1>1, OthersAreNotAnnounced
  <2>4. \A m \in Markets : m # c => settling'[m] = settling[m]
    BY <1>0, <2>1 DEF MarkIfPublished
  <2>5. Unmarked' \subseteq Unmarked \cup {c}
    BY <2>2, <2>3, <2>4 DEF Unmarked
  <2>6. CASE answered
    <3>1. settling'[c] > 0
      BY <1>0, <2>1, <2>6 DEF MarkIfPublished
    <3>2. c \notin Unmarked'
      BY <3>1 DEF Unmarked
    <3> QED
      BY <2>5, <3>2
  <2>7. CASE ~answered
    BY <2>1, <2>5, <2>7 DEF Written, CallFails, Fault
  <2> QED
    BY <2>6, <2>7
<1>2. ASSUME NEW c \in Markets, MarkSettled(c)
      PROVE  \/ Unmarked' \subseteq Unmarked
             \/ \E x : Unmarked' \subseteq Unmarked \cup {x} /\ faults' = faults + 1
  <2>1. /\ UNCHANGED settleLog
        /\ settling' = [settling EXCEPT ![c] = @ - 1]
        /\ UNCHANGED marketStatus \/ UpdateMarketStatus(c)
    BY <1>2 DEF MarkSettled
  <2>2. \A m \in Markets : IsAnnounced(m)' <=> IsAnnounced(m)
    BY <2>1 DEF IsAnnounced
  <2>3. Unmarked' \subseteq Unmarked \cup {c}
    BY <1>0, <2>1, <2>2 DEF Unmarked, UpdateMarketStatus
  <2>4. CASE UpdateMarketStatus(c)
    <3>1. c \notin Unmarked'
      BY <1>0, <2>4 DEF Unmarked, UpdateMarketStatus
    <3> QED
      BY <2>3, <3>1
  <2>5. CASE ~UpdateMarketStatus(c)
    BY <1>2, <2>3, <2>5 DEF MarkSettled, CallFails, Fault
  <2> QED
    BY <2>4, <2>5
<1>3. ASSUME UNCHANGED <<settleLog, settling, marketStatus>>
      PROVE  Unmarked' \subseteq Unmarked
  BY <1>3 DEF Unmarked, IsAnnounced
<1>4. \/ UNCHANGED <<settling, marketStatus>>
      \/ \E c \in Markets : MarkSettled(c) \/ \E w \in Outcomes : SettleMarket(c, w)
  BY DEF Next, RunBets, RunSettlement, Crash, Rebalance, RedisFrame, KeyExpires,
         SuspendMarket, SuspensionLapses, OddsWritten, OddsExpire, PlaceBet, vars, api
<1> QED
  BY <1>1, <1>2, <1>3, <1>4, SettleLogWriters

\* bets.settled and Mongo agree on what is settled but for one market per failing
\* call (admin_handler.go:39-48): no answered request, and no overtaking of one
\* request by another, leaves an announced market open.
THEOREM AnnouncedIsMarked == Spec => []UnmarkedNeedFaults
<1> DEFINE Inv == TypeOK /\ IsFiniteSet(Unmarked) /\ Cardinality(Unmarked) <= faults
<1>1. Init => Inv
  <2> SUFFICES ASSUME Init PROVE IsFiniteSet(Unmarked) /\ Cardinality(Unmarked) <= faults
    BY TypeInit
  <2>1. \A m \in Markets : SettlePartition[m] \in SettlePartitions
    BY StoreAssumption
  <2>2. faults = 0 /\ \A p \in SettlePartitions : settleLog[p] = <<>>
    BY DEF Init, StoreInit, SettleReader!ConsumerInit
  <2>3. Unmarked = {}
    BY <2>1, <2>2 DEF Unmarked, IsAnnounced
  <2> QED
    BY <2>2, <2>3, FS_EmptySet
<1>2. Inv /\ [Next]_vars => Inv'
  <2> SUFFICES ASSUME Inv, [Next]_vars
               PROVE  IsFiniteSet(Unmarked') /\ Cardinality(Unmarked') <= faults'
    BY TypeStep
  <2>1. faults \in Nat /\ faults' \in Nat /\ faults <= faults'
    BY FaultCount, TypeStep DEF TypeOK, StoreTypeOK, Fault
  <2> QED
    BY <2>1, UnmarkedSteps, PaidFor
<1>3. Inv => UnmarkedNeedFaults
  BY DEF UnmarkedNeedFaults, Unmarked
<1> QED
  BY <1>1, <1>2, <1>3, PTL DEF Spec

-----------------------------------------------------------------------------
\* A bet is decided by an announcement of its own market.

\* The strengthening: what a handler has left to settle belongs to the market it
\* was told about.
AnnouncedInv ==
  /\ KeyedByMarket
  /\ DecidedAsAnnounced
  /\ \A r \in Replicas : \A b \in todo[r] :
       /\ settlePc[r] \in PayingLabels \cup {"next"}
       /\ Slip[b].market = Announced(r).market

LEMMA SettlePcWriters ==
  ASSUME TypeOK, [Next]_vars, NEW r \in Replicas
  PROVE  \/ UNCHANGED <<settlePc[r], settleAt[r], todo[r]>>
         \/ RunSettlement(r) \/ Crash(r)
<1>0. /\ settlePc \in [Replicas -> SettleLabels \cup {"fetch", "commit"}]
      /\ settleAt \in [Replicas -> (SettlePartitions \X Nat) \cup {NoMessage}]
      /\ todo \in [Replicas -> SUBSET Bets]
  BY DEF TypeOK, StoreTypeOK, LocalsTypeOK, SettleReader!ConsumerTypeOK
<1>1. ASSUME NEW q \in Replicas, q # r, RunSettlement(q)
      PROVE  UNCHANGED <<settlePc[r], settleAt[r], todo[r]>>
  BY <1>0, <1>1 DEF RunSettlement, SettleLoop, HandleBetSettled, FindBets, UpdateBet,
       Settled, CreditPayout, CreditIsDropped, SaveCreditTx, PublishCreditTx, NextBet,
       settleLocals, settleReader, SettleReader!Goto, SettleReader!ReturnNil,
       SettleReader!ReturnError, SettleReader!Fetch, SettleReader!Commit
<1>2. ASSUME NEW q \in Replicas, q # r, Crash(q)
      PROVE  UNCHANGED <<settlePc[r], settleAt[r], todo[r]>>
  BY <1>0, <1>2 DEF Crash, SettleReader!Crash
<1>3. ASSUME \/ \E q \in Replicas : RunBets(q)
             \/ \E b \in Bets : PlaceBet(b) \/ KeyExpires(b)
             \/ \E m \in Markets : \/ \E w \in Outcomes : SettleMarket(m, w)
                                   \/ MarkSettled(m)
                                   \/ SuspendMarket(m) \/ SuspensionLapses(m)
             \/ \E o \in Outcomes : (\E v \in OddsValues : OddsWritten(o, v)) \/ OddsExpire(o)
             \/ Rebalance \/ UNCHANGED vars
      PROVE  UNCHANGED <<settlePc[r], settleAt[r], todo[r]>>
  BY <1>3 DEF RunBets, BetLoop, HandleBetPlaced, Check, Suspension, Odds, DebitStake,
       SaveBet, SaveDebitTx, PublishDebitTx, ValidationFrame, PlaceBet,
       SettleMarket, MarkSettled, ApiFrame, KeyExpires, SuspendMarket,
       SuspensionLapses, OddsWritten, OddsExpire, RedisFrame, Rebalance,
       SettleReader!Rebalance, vars, settleReader, settleLocals
<1> QED
  BY <1>1, <1>2, <1>3 DEF Next

\* A handler keeps its announcement until it is done with it.
LEMMA AnnouncementStays ==
  ASSUME TypeOK, [Next]_vars, NEW r \in Replicas,
         settlePc[r] # "fetch", settlePc'[r] # "fetch"
  PROVE  Announced(r)' = Announced(r)
<1>0. /\ settlePc \in [Replicas -> SettleLabels \cup {"fetch", "commit"}]
      /\ settleAt \in [Replicas -> (SettlePartitions \X Nat) \cup {NoMessage}]
      /\ settleAt[r] \in SettlePartitions \X Nat
      /\ settleLog \in [SettlePartitions -> Seq(Settlement)]
      /\ settleAt[r][2] \in 1..Len(settleLog[settleAt[r][1]])
  BY DEF TypeOK, StoreTypeOK, SettleReader!ConsumerTypeOK
<1>1. UNCHANGED settleAt[r]
  <2>1. ~Crash(r)
    BY <1>0 DEF Crash, SettleReader!Crash
  <2>2. CASE RunSettlement(r)
    BY <1>0, <2>2 DEF RunSettlement, SettleLoop, HandleBetSettled, FindBets, UpdateBet,
       Settled, CreditPayout, CreditIsDropped, SaveCreditTx, PublishCreditTx, NextBet,
       settleReader, SettleReader!Goto, SettleReader!ReturnNil,
       SettleReader!ReturnError, SettleReader!Fetch, SettleReader!Commit
  <2> QED
    BY <2>1, <2>2, SettlePcWriters
<1>2. settleAt[r][1] \in SettlePartitions /\ settleAt[r][2] \in DOMAIN settleLog[settleAt[r][1]]
  BY <1>0
<1>3. settleLog'[settleAt[r][1]][settleAt[r][2]] = settleLog[settleAt[r][1]][settleAt[r][2]]
  BY <1>2, LogGrows
<1> QED
  BY <1>1, <1>3 DEF Announced, SettleReader!Current

\* Where a handler has something left to settle after a step.
LEMMA TodoStays ==
  ASSUME TypeOK, AnnouncedInv, [Next]_vars, NEW r \in Replicas, NEW b \in todo'[r]
  PROVE  /\ settlePc[r] # "fetch"
         /\ settlePc'[r] \in PayingLabels \cup {"next"}
         /\ Slip[b].market = Announced(r).market
<1>0. /\ settlePc \in [Replicas -> SettleLabels \cup {"fetch", "commit"}]
      /\ todo \in [Replicas -> SUBSET Bets]
  BY DEF TypeOK, StoreTypeOK, LocalsTypeOK, SettleReader!ConsumerTypeOK
<1>1. CASE UNCHANGED <<settlePc[r], todo[r]>>
  BY <1>1 DEF AnnouncedInv, PayingLabels
<1>2. CASE Crash(r)
  BY <1>0, <1>2 DEF Crash
<1>3. CASE FindBets(r)
  <2>1. \/ /\ todo'[r] = FindByMarket(Announced(r).market)
           /\ settlePc[r] = "find" /\ settlePc'[r] = "next"
        \/ todo'[r] = todo[r] /\ settlePc[r] = "find"
    BY <1>0, <1>3 DEF FindBets, SettleReader!Goto
  <2> QED
    BY <2>1 DEF FindByMarket, AnnouncedInv, PayingLabels
<1>4. CASE \/ (\E c \in Bets : UpdateBet(r, c)) \/ CreditPayout(r)
           \/ SaveCreditTx(r) \/ PublishCreditTx(r)
  BY <1>0, <1>4 DEF UpdateBet, CreditPayout, CreditIsDropped, SaveCreditTx,
       PublishCreditTx, NextBet, settleLocals, settleReader, SettleReader!Goto,
       AnnouncedInv, PayingLabels
<1>5. CASE Settled(r)
  BY <1>5 DEF Settled
<1>6. CASE /\ UNCHANGED settleLocals
           /\ \/ SettleReader!Fetch(r)
              \/ SettleReader!Commit(r, TRUE) \/ SettleReader!Commit(r, FALSE)
  BY <1>6 DEF SettleReader!Fetch, SettleReader!Commit, settleLocals, AnnouncedInv,
              PayingLabels
<1> QED
  BY <1>1, <1>2, <1>3, <1>4, <1>5, <1>6, SettlePcWriters
  DEF RunSettlement, SettleLoop, HandleBetSettled

LEMMA AnnouncedStep == TypeOK /\ AnnouncedInv /\ [Next]_vars => AnnouncedInv'
<1> SUFFICES ASSUME TypeOK, AnnouncedInv, [Next]_vars PROVE AnnouncedInv'
  OBVIOUS
<1>1. KeyedByMarket'
  BY LogGrows DEF AnnouncedInv, KeyedByMarket
<1>2. ASSUME NEW r \in Replicas, NEW b \in todo'[r]
      PROVE  /\ settlePc'[r] \in PayingLabels \cup {"next"}
             /\ Slip[b].market = Announced(r)'.market
  BY <1>2, TodoStays, AnnouncementStays DEF PayingLabels
<1>3. ASSUME NEW b \in Bets, status'[b] \in {"WON", "LOST"}
      PROVE  \E i \in DOMAIN settleLog[SettlePartition[Slip[b].market]] :
               LET a == settleLog[SettlePartition[Slip[b].market]][i]
               IN a.market = Slip[b].market /\ status'[b] = Result(b, a.winner)
  <2>1. CASE status'[b] = status[b]
    BY <1>3, <2>1 DEF AnnouncedInv, DecidedAsAnnounced
  <2>2. ASSUME NEW r \in Replicas, UpdateBet(r, b),
               status'[b] = Result(b, Announced(r).winner)
        PROVE  \E i \in DOMAIN settleLog[SettlePartition[Slip[b].market]] :
                 LET a == settleLog[SettlePartition[Slip[b].market]][i]
                 IN a.market = Slip[b].market /\ status'[b] = Result(b, a.winner)
    <3>1. settlePc[r] = "next" /\ Slip[b].market = Announced(r).market
      BY <2>2 DEF UpdateBet, AnnouncedInv
    <3>2. /\ settleAt[r][1] \in SettlePartitions
          /\ settleAt[r][2] \in DOMAIN settleLog[settleAt[r][1]]
      BY <3>1 DEF TypeOK, StoreTypeOK, SettleReader!ConsumerTypeOK
    <3>3. SettlePartition[Slip[b].market] = settleAt[r][1]
      BY <3>1, <3>2 DEF AnnouncedInv, KeyedByMarket, Announced, SettleReader!Current
    <3> QED
      BY <2>2, <3>1, <3>2, <3>3 DEF Announced, SettleReader!Current
  <2> QED
    BY <1>3, <2>1, <2>2, StatusSteps
<1>4. DecidedAsAnnounced'
  <2> SUFFICES ASSUME NEW b \in Bets, status'[b] \in {"WON", "LOST"}
               PROVE  \E i \in DOMAIN settleLog'[SettlePartition[Slip[b].market]] :
                        LET a == settleLog'[SettlePartition[Slip[b].market]][i]
                        IN a.market = Slip[b].market /\ status'[b] = Result(b, a.winner)
    BY DEF DecidedAsAnnounced
  <2>1. SettlePartition[Slip[b].market] \in SettlePartitions
    BY SlipTypes, StoreAssumption
  <2> QED
    BY <1>3, <2>1, LogGrows
<1> QED
  BY <1>1, <1>2, <1>4 DEF AnnouncedInv

\* No bet is decided by another market's result or against every announcement,
\* whatever is announced twice, redelivered, lost by a crash or held by two
\* processes at once: a handler's list never outlives the announcement it was
\* read for.
THEOREM DecisionsAreAnnounced == Spec => []DecidedAsAnnounced
<1>1. Init => TypeOK /\ AnnouncedInv
  <2> SUFFICES ASSUME Init PROVE AnnouncedInv
    BY TypeInit
  <2>1. /\ \A p \in SettlePartitions : settleLog[p] = <<>>
        /\ \A b \in Bets : status[b] = "NONE"
        /\ \A r \in Replicas : todo[r] = {}
    BY DEF Init, StoreInit, SettleReader!ConsumerInit
  <2> QED
    BY <2>1 DEF AnnouncedInv, KeyedByMarket, DecidedAsAnnounced
<1>2. TypeOK /\ AnnouncedInv /\ [Next]_vars => TypeOK' /\ AnnouncedInv'
  BY TypeStep, AnnouncedStep
<1>3. AnnouncedInv => DecidedAsAnnounced
  BY DEF AnnouncedInv
<1> QED
  BY <1>1, <1>2, <1>3, PTL DEF Spec

-----------------------------------------------------------------------------
\* A settlement leaves a bet behind only for a failing call.

\* The bets replica r found and is through with, and that are still pending.
LeftPending(r) == {b \in found[r] \ todo[r] : status[b] = "PENDING"}

\* The strengthening: a handler has left behind no more bets than calls failed, and
\* what it found stays on the books.
LeftInv ==
  \A r \in Replicas : /\ IsFiniteSet(LeftPending(r))
                      /\ Cardinality(LeftPending(r)) <= faults
                      /\ \A b \in found[r] : status[b] # "NONE"

LEMMA FoundSteps ==
  ASSUME TypeOK, [Next]_vars, NEW r \in Replicas
  PROVE  \/ found'[r] = {}
         \/ /\ found'[r] = todo'[r] /\ UNCHANGED status
            /\ \A b \in found'[r] : status[b] = "PENDING"
         \/ found'[r] = found[r] /\ todo'[r] = todo[r]
         \/ found'[r] = found[r] /\ \E b \in Bets : UpdateBet(r, b)
<1> DEFINE G == \/ found'[r] = {}
                \/ /\ found'[r] = todo'[r] /\ UNCHANGED status
                   /\ \A b \in found'[r] : status[b] = "PENDING"
                \/ found'[r] = found[r] /\ todo'[r] = todo[r]
                \/ found'[r] = found[r] /\ \E b \in Bets : UpdateBet(r, b)
<1>0. found \in [Replicas -> SUBSET Bets] /\ todo \in [Replicas -> SUBSET Bets]
  BY DEF TypeOK, StoreTypeOK, LocalsTypeOK
<1>1. ASSUME NEW q \in Replicas, FindBets(q) PROVE G
  BY <1>0, <1>1 DEF FindBets, FindByMarket
<1>2. ASSUME NEW q \in Replicas, NEW b \in Bets, UpdateBet(q, b) PROVE G
  BY <1>0, <1>2 DEF UpdateBet
<1>3. ASSUME NEW q \in Replicas, Settled(q) PROVE G
  BY <1>0, <1>3 DEF Settled
<1>4. ASSUME NEW q \in Replicas,
             CreditPayout(q) \/ SaveCreditTx(q) \/ PublishCreditTx(q) PROVE G
  BY <1>0, <1>4 DEF CreditPayout, SaveCreditTx, PublishCreditTx, settleLocals
<1>5. ASSUME NEW q \in Replicas, RunSettlement(q) PROVE G
  BY <1>0, <1>1, <1>2, <1>3, <1>4, <1>5 DEF RunSettlement, SettleLoop, HandleBetSettled,
                                            settleLocals
<1>6. ASSUME NEW q \in Replicas, Crash(q) PROVE G
  BY <1>0, <1>6 DEF Crash
<1> QED
  BY <1>5, <1>6, SettleWriters DEF settleLocals

LEMMA LeftStep == TypeOK /\ LeftInv /\ [Next]_vars => LeftInv'
<1> SUFFICES ASSUME TypeOK, LeftInv, [Next]_vars, NEW r \in Replicas
             PROVE  /\ IsFiniteSet(LeftPending(r)')
                    /\ Cardinality(LeftPending(r)') <= faults'
                    /\ \A b \in found'[r] : status'[b] # "NONE"
  BY DEF LeftInv
<1>0. /\ faults \in Nat /\ faults' \in Nat /\ faults <= faults'
      /\ found[r] \subseteq Bets
      /\ IsFiniteSet(LeftPending(r)) /\ Cardinality(LeftPending(r)) <= faults
  BY FaultCount DEF TypeOK, StoreTypeOK, LocalsTypeOK, LeftInv, Fault
<1>1. ASSUME NEW b \in found[r]
      PROVE  status'[b] # "NONE" /\ (status'[b] = "PENDING" => status[b] = "PENDING")
  BY <1>0, StatusSteps, SlipTypes DEF LeftInv
<1> DEFINE Few == /\ IsFiniteSet(LeftPending(r)')
                  /\ Cardinality(LeftPending(r)') <= faults'
<1>2. ASSUME LeftPending(r)' = {} PROVE Few
  BY <1>0, <1>2, FS_EmptySet
<1>3. ASSUME LeftPending(r)' \subseteq LeftPending(r) PROVE Few
  BY <1>0, <1>3, FS_Subset, FS_CardinalityType
<1>4. ASSUME found'[r] = {} PROVE Few
  BY <1>2, <1>4 DEF LeftPending
<1>5. ASSUME found'[r] = todo'[r] PROVE Few
  BY <1>2, <1>5 DEF LeftPending
<1>6. ASSUME found'[r] = found[r], todo'[r] = todo[r] PROVE Few
  BY <1>1, <1>3, <1>6 DEF LeftPending
<1>7. ASSUME found'[r] = found[r], NEW b \in Bets, UpdateBet(r, b) PROVE Few
  <2>1. todo'[r] = todo[r] \ {b}
    BY <1>7 DEF UpdateBet, TypeOK, StoreTypeOK, LocalsTypeOK
  <2>2. LeftPending(r)' \subseteq LeftPending(r) \cup {b}
    BY <1>1, <1>7, <2>1 DEF LeftPending
  <2>3. CASE CallOK
    <3>1. status'[b] # "PENDING"
      BY <1>7, <2>3, <1>0, SlipTypes DEF UpdateBet, CallOK, CallFails, Fault, TypeOK,
                                    StoreTypeOK, BooksTypeOK
    <3> QED
      BY <1>3, <2>2, <3>1 DEF LeftPending
  <2>4. CASE CallFails
    <3>1. faults' = faults + 1
      BY <2>4 DEF CallFails, Fault
    <3> DEFINE Some == LeftPending(r) \cup {b}
    <3>2. IsFiniteSet(Some) /\ Cardinality(Some) <= Cardinality(LeftPending(r)) + 1
      BY <1>0, OneMore
    <3>3. IsFiniteSet(LeftPending(r)') /\ Cardinality(LeftPending(r)') <= Cardinality(Some)
      BY <2>2, <3>2, FS_Subset
    <3>4. /\ Cardinality(Some) \in Nat /\ Cardinality(LeftPending(r)) \in Nat
          /\ Cardinality(LeftPending(r)') \in Nat
      BY <1>0, <3>2, <3>3, FS_CardinalityType
    <3> HIDE DEF Some
    <3> QED
      BY <1>0, <3>1, <3>2, <3>3, <3>4
  <2> QED
    BY <1>7, <2>3, <2>4 DEF UpdateBet
<1>8. \A b \in found'[r] : status'[b] # "NONE"
  BY <1>1, FoundSteps
<1> QED
  BY <1>4, <1>5, <1>6, <1>7, <1>8, FoundSteps

\* When the loop of a settlement is over, each bet it found is decided, up to one
\* per failing call: no crash, rebalance, second process or late bet makes it skip
\* one (bet_processor.go:172-204).
THEOREM SettlementsAreComplete == Spec => FoundBetsAreDecided
<1>1. Init => TypeOK /\ LeftInv
  <2> SUFFICES ASSUME Init PROVE LeftInv
    BY TypeInit
  <2>1. faults = 0 /\ \A r \in Replicas : found[r] = {} /\ LeftPending(r) = {}
    BY DEF Init, StoreInit, LeftPending
  <2> QED
    BY <2>1, FS_EmptySet DEF LeftInv
<1>2. TypeOK /\ LeftInv /\ [Next]_vars => TypeOK' /\ LeftInv'
  BY TypeStep, LeftStep
<1>3. TypeOK /\ LeftInv /\ [Next]_vars =>
        [\A r \in Replicas : settlePc[r] # "commit" /\ settlePc'[r] = "commit" =>
           Cardinality({b \in found[r] : status[b] = "PENDING"}) <= faults]_vars
  <2> SUFFICES ASSUME TypeOK, LeftInv, [Next]_vars, NEW r \in Replicas,
                      settlePc[r] # "commit", settlePc'[r] = "commit"
               PROVE  Cardinality({b \in found[r] : status[b] = "PENDING"}) <= faults
    OBVIOUS
  <2>1. todo[r] = {}
    <3>1. settlePc \in [Replicas -> SettleLabels \cup {"fetch", "commit"}]
      BY DEF TypeOK, StoreTypeOK, SettleReader!ConsumerTypeOK
    <3>2. ~Crash(r)
      BY <3>1 DEF Crash, SettleReader!Crash
    <3>3. RunSettlement(r)
      BY <3>2, SettlePcWriters
    <3> QED
      BY <3>1, <3>3 DEF RunSettlement, SettleLoop, HandleBetSettled, FindBets, UpdateBet,
         Settled, CreditPayout, CreditIsDropped, SaveCreditTx, PublishCreditTx, NextBet,
         settleReader, SettleReader!Goto, SettleReader!ReturnNil,
         SettleReader!ReturnError, SettleReader!Fetch, SettleReader!Commit
  <2>2. {b \in found[r] : status[b] = "PENDING"} = LeftPending(r)
    BY <2>1 DEF LeftPending
  <2> QED
    BY <2>2 DEF LeftInv
<1> QED
  BY <1>1, <1>2, <1>3, PTL DEF Spec, FoundBetsAreDecided

-----------------------------------------------------------------------------
\* While a market is suspended, or the odds are too far off, nothing new gets in.

LEMMA ThroughSteps ==
  ASSUME TypeOK, [Next]_vars, NEW b \in Bets, NEW L, L \subseteq {"odds", "debit"},
         "debit" \in L, ~Through(b, L), Through(b, L)'
  PROVE  \E r \in Replicas : /\ betPc[r] \in {"suspension", "odds"} \ L
                             /\ Suspension(r) \/ Odds(r)
                             /\ Bet(r) = b /\ betPc'[r] \in L
<1>0. betPc \in [Replicas -> BetLabels \cup {"fetch", "commit"}]
  BY DEF TypeOK, StoreTypeOK, BetsReader!ConsumerTypeOK
<1>1. debits'[b] = debits[b]
  BY DebitSteps DEF Through, DebitStake
<1>2. PICK r \in Replicas : betPc'[r] \in L /\ Bet(r)' = b
  BY <1>1 DEF Through
<1>3. Bet(r)' = Bet(r) /\ betPc[r] \notin L
  BY <1>2, ValidatingBet DEF ValidatingLabels, Through
<1>4. betPc'[r] # betPc[r] /\ betPc'[r] \in {"odds", "debit"}
  BY <1>2, <1>3
<1>5. CASE RunBets(r)
  BY <1>0, <1>2, <1>3, <1>4, <1>5 DEF RunBets, BetLoop, HandleBetPlaced, Check,
       Suspension, SuspensionUnknown, Odds, DebitStake, DebitRefused, SaveBet,
       SaveDebitTx, PublishDebitTx, BetsReader!Goto, BetsReader!ReturnNil,
       BetsReader!ReturnError, BetsReader!Fetch, BetsReader!Commit
<1>6. CASE Crash(r)
  BY <1>0, <1>4, <1>6 DEF Crash, BetsReader!Crash
<1> QED
  BY <1>4, <1>5, <1>6, BetPcWriters

\* README.md:201 as far as the code keeps it: from the moment a market is
\* suspended, or the cached odds have drifted, until that is over, no bet gets
\* past the check that was not past it already - for any number of processes and
\* redeliveries, with keys that expire and calls that fail.
THEOREM ChecksAreKept == Spec => ChecksHold
<1>1. TypeOK /\ [Next]_vars =>
        [\A b \in Bets :
           /\ SuspensionHolds(b) /\ Slip[b].market \in suspended' => SuspensionHolds(b)'
           /\ DriftHolds(b) /\ ~WithinTolerance(b, cachedOdds'[Slip[b].outcome])
                => DriftHolds(b)']_vars
  <2> SUFFICES ASSUME TypeOK, [Next]_vars, NEW b \in Bets
               PROVE  /\ SuspensionHolds(b) /\ Slip[b].market \in suspended' => SuspensionHolds(b)'
                      /\ DriftHolds(b) /\ ~WithinTolerance(b, cachedOdds'[Slip[b].outcome])
                           => DriftHolds(b)'
    OBVIOUS
  <2>1. ASSUME SuspensionHolds(b), Slip[b].market \in suspended' PROVE SuspensionHolds(b)'
    <3> SUFFICES ASSUME Through(b, {"odds", "debit"})' PROVE FALSE
      BY <2>1 DEF SuspensionHolds
    <3>1. PICK r \in Replicas : Suspension(r) /\ Bet(r) = b /\ betPc'[r] \in {"odds", "debit"}
      BY <2>1, ThroughSteps DEF SuspensionHolds, Odds
    <3> QED
      BY <2>1, <3>1 DEF SuspensionHolds, Suspension, SuspensionUnknown, IsSuspended,
           BetsReader!ReturnNil, BetsReader!Goto, BetsReader!ReturnError, TypeOK,
           StoreTypeOK, BetsReader!ConsumerTypeOK
  <2>2. ASSUME DriftHolds(b), ~WithinTolerance(b, cachedOdds'[Slip[b].outcome])
        PROVE  DriftHolds(b)'
    <3> SUFFICES ASSUME Through(b, {"debit"})' PROVE FALSE
      BY <2>2 DEF DriftHolds
    <3>1. PICK r \in Replicas : /\ Suspension(r) \/ Odds(r)
                               /\ Bet(r) = b /\ betPc'[r] = "debit"
      BY <2>2, ThroughSteps DEF DriftHolds
    <3> QED
      BY <2>2, <3>1 DEF DriftHolds, Suspension, SuspensionUnknown, Odds, GetOdds,
           BetsReader!ReturnNil, BetsReader!Goto, BetsReader!ReturnError, TypeOK,
           StoreTypeOK, BetsReader!ConsumerTypeOK
  <2> QED
    BY <2>1, <2>2
<1> QED
  BY <1>1, TypeInit, TypeStep, PTL DEF Spec, ChecksHold
=============================================================================
