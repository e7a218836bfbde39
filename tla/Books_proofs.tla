--------------------------- MODULE Books_proofs ---------------------------
(***************************************************************************)
(* The money path as a whole.  A single bet-processor pays a bet once,     *)
(* never goes back on a decision, creates no money and, while idempotency  *)
(* keys last, implements the Bookmaker.  Any number of processes lose a    *)
(* stake, a payout or an answer only to a fault of its own, take a stake   *)
(* only for a delivery, and, while nothing fails, answer every accepted    *)
(* bet and keep trails that explain the balances.                          *)
(***************************************************************************)
EXTENDS Announcements_proofs, Books, Sums_proofs

\* The deployment of docker-compose.yml, one bet-processor.
SingleProcess == \A r, q \in Replicas : r = q

\* The strengthening: what a handler still has to settle is undecided, and the
\* bet it is about to credit is won and unpaid.
PaidInv ==
  /\ PaidOnlyOnce
  /\ \A r \in Replicas : \A b \in todo[r] : status[b] = "PENDING"
  /\ \A r \in Replicas : settlePc[r] = "credit" =>
       status[Paid(r)] = "WON" /\ credits[Paid(r)] = 0

-----------------------------------------------------------------------------
\* How a step changes what the settlement loop knows.

LEMMA CreditSteps ==
  ASSUME TypeOK, [Next]_vars, NEW b \in Bets, credits'[b] # credits[b]
  PROVE  \E r \in Replicas : /\ CreditPayout(r) /\ Credit(b) /\ b = Paid(r)
                             /\ settlePc[r] = "credit"
                             /\ credits'[b] = credits[b] + 1
<1>0. credits \in [Bets -> Nat]
  BY DEF TypeOK, StoreTypeOK, MoneyTypeOK
<1>1. ASSUME NEW r \in Replicas, CreditPayout(r)
      PROVE  /\ Credit(b) /\ b = Paid(r) /\ settlePc[r] = "credit"
             /\ credits'[b] = credits[b] + 1
  BY <1>0, <1>1 DEF CreditPayout, Credit, money
<1> QED
  BY <1>1, MoneyWriters DEF money, DebitStake, Debit

\* A handler that is about to credit after a step was so before it, for the
\* same bet, or has just decided that bet.
LEMMA ReachesCredit ==
  ASSUME TypeOK, [Next]_vars, NEW r \in Replicas, settlePc'[r] = "credit"
  PROVE  \/ settlePc[r] = "credit" /\ Paid(r)' = Paid(r)
         \/ \E b \in Bets : /\ UpdateBet(r, b) /\ Paid(r)' = b /\ b \in todo[r]
                            /\ status'[b] = "WON"
<1>0. /\ settlePc \in [Replicas -> SettleLabels \cup {"fetch", "commit"}]
      /\ paying \in [Replicas -> SUBSET Bets]
      /\ status \in [Bets -> BetStatus]
  BY DEF TypeOK, StoreTypeOK, LocalsTypeOK, BooksTypeOK, SettleReader!ConsumerTypeOK
<1> DEFINE Same == UNCHANGED <<settlePc[r], paying[r]>>
<1>1. ASSUME Same PROVE settlePc[r] = "credit" /\ Paid(r)' = Paid(r)
  BY <1>1 DEF Paid
<1>2. ASSUME NEW q \in Replicas, q # r, RunSettlement(q) PROVE Same
  BY <1>0, <1>2 DEF RunSettlement, SettleLoop, HandleBetSettled, FindBets, UpdateBet,
       Settled, CreditPayout, CreditIsDropped, SaveCreditTx, PublishCreditTx, NextBet,
       settleLocals, settleReader, SettleReader!Goto, SettleReader!ReturnNil,
       SettleReader!ReturnError, SettleReader!Fetch, SettleReader!Commit
<1>3. ASSUME NEW q \in Replicas, Crash(q) PROVE q # r /\ Same
  BY <1>0, <1>3 DEF Crash, SettleReader!Crash
<1>4. ASSUME NEW b \in Bets, UpdateBet(r, b)
      PROVE  \/ Same
             \/ /\ paying'[r] = {b} /\ status'[b] = "WON" /\ b \in todo[r]
  BY <1>0, <1>4 DEF UpdateBet, IsPaid, settleReader
<1>5. ASSUME RunSettlement(r), \A b \in Bets : ~UpdateBet(r, b) PROVE FALSE
  BY <1>0, <1>5 DEF RunSettlement, SettleLoop, HandleBetSettled, FindBets,
       Settled, CreditPayout, CreditIsDropped, SaveCreditTx, PublishCreditTx, NextBet,
       SettleReader!Goto, SettleReader!ReturnNil,
       SettleReader!ReturnError, SettleReader!Fetch, SettleReader!Commit
<1>6. ASSUME NEW b \in Bets, paying'[r] = {b} PROVE Paid(r)' = b
  BY <1>6, Zenon DEF Paid
<1>7. \/ Same
      \/ \E b \in Bets : /\ UpdateBet(r, b) /\ paying'[r] = {b}
                         /\ status'[b] = "WON" /\ b \in todo[r]
  BY <1>2, <1>3, <1>4, <1>5, SettleWriters DEF settleLocals
<1> QED
  BY <1>1, <1>6, <1>7

LEMMA PaidStep ==
  SingleProcess /\ TypeOK /\ PaidInv /\ [Next]_vars => PaidInv'
<1> SUFFICES ASSUME SingleProcess, TypeOK, PaidInv, [Next]_vars PROVE PaidInv'
  OBVIOUS
<1> USE DEF SingleProcess
<1>T. /\ credits \in [Bets -> Nat] /\ credits' \in [Bets -> Nat]
      /\ status \in [Bets -> BetStatus]
      /\ todo \in [Replicas -> SUBSET Bets]
  BY TypeStep DEF TypeOK, StoreTypeOK, MoneyTypeOK, BooksTypeOK, LocalsTypeOK
<1>1. ASSUME NEW b \in Bets, status[b] \notin {"NONE", "PENDING"}
      PROVE  status'[b] = status[b]
  BY <1>1, StatusSteps DEF UpdateBet, PaidInv
<1>2. ASSUME NEW b \in Bets
      PROVE  /\ credits'[b] <= 1
             /\ credits'[b] > 0 => status'[b] = "WON"
  <2>1. CASE credits'[b] = credits[b]
    BY <2>1, <1>1 DEF PaidInv, PaidOnlyOnce
  <2>2. CASE credits'[b] # credits[b]
    <3>1. status[b] = "WON" /\ credits[b] = 0 /\ credits'[b] = 1
      BY <2>2, CreditSteps DEF PaidInv
    <3> QED
      BY <3>1, <1>1
  <2> QED
    BY <2>1, <2>2
<1>3. ASSUME NEW r \in Replicas, NEW b \in todo'[r] PROVE status'[b] = "PENDING"
  <2>1. status[b] = "PENDING" /\ b \in Bets
    BY <1>3, <1>T, TodoSteps DEF PaidInv, FindByMarket
  <2>2. ASSUME NEW q \in Replicas, UpdateBet(q, b) PROVE FALSE
    BY <2>2, <1>3, <1>T DEF UpdateBet
  <2> QED
    BY <2>1, <2>2, StatusSteps
<1>4. ASSUME NEW r \in Replicas, settlePc'[r] = "credit"
      PROVE  status'[Paid(r)'] = "WON" /\ credits'[Paid(r)'] = 0
  <2>1. CASE settlePc[r] = "credit" /\ Paid(r)' = Paid(r)
    <3>1. Paid(r) \in Bets /\ status[Paid(r)] = "WON" /\ credits[Paid(r)] = 0
      BY <2>1, InHand DEF PaidInv, TypeOK, PayingLabels
    <3>2. ~CreditPayout(r)
      BY <1>4 DEF CreditPayout, CreditIsDropped, SettleReader!Goto, TypeOK,
                  StoreTypeOK, SettleReader!ConsumerTypeOK
    <3> QED
      BY <2>1, <3>1, <3>2, <1>1, CreditSteps
  <2>2. ASSUME NEW b \in Bets, UpdateBet(r, b), Paid(r)' = b, b \in todo[r],
               status'[b] = "WON"
        PROVE  credits'[b] = 0
    <3>1. credits[b] = 0
      BY <2>2, <1>T DEF PaidInv, PaidOnlyOnce
    <3> QED
      BY <2>2, <3>1 DEF UpdateBet, money
  <2> QED
    BY <1>4, <2>1, <2>2, ReachesCredit
<1> QED
  BY <1>2, <1>3, <1>4 DEF PaidInv, PaidOnlyOnce

LEMMA PaidInit == Init => PaidInv
<1> SUFFICES ASSUME Init PROVE PaidInv
  OBVIOUS
<1>1. /\ \A b \in Bets : credits[b] = 0
      /\ \A r \in Replicas : todo[r] = {} /\ settlePc[r] = "fetch"
  BY DEF Init, StoreInit, SettleReader!ConsumerInit
<1> QED
  BY <1>1 DEF PaidInv, PaidOnlyOnce

\* In one process a bet is paid at most once and only when it was decided won
\* (bet_processor.go:155-186): FindByMarket sees only undecided bets, and the
\* loop that decides them is the only one.
THEOREM PaidOnce ==
  ASSUME SingleProcess
  PROVE  Spec => []PaidOnlyOnce
<1>1. Init => TypeOK /\ PaidInv
  BY TypeInit, PaidInit
<1>2. TypeOK /\ PaidInv /\ [Next]_vars => TypeOK' /\ PaidInv'
  BY TypeStep, PaidStep
<1>3. PaidInv => PaidOnlyOnce
  BY DEF PaidInv
<1> QED
  BY <1>1, <1>2, <1>3, PTL DEF Spec

\* In one process no announcement, repeated or contradicting, changes a bet
\* that has been decided (bet_repo.go:45-60).
THEOREM DecisionsAreFinal ==
  ASSUME SingleProcess
  PROVE  Spec => DecisionIsFinal
<1>1. Init => TypeOK /\ PaidInv
  BY TypeInit, PaidInit
<1>2. TypeOK /\ PaidInv /\ [Next]_vars => TypeOK' /\ PaidInv'
  BY TypeStep, PaidStep
<1>3. TypeOK /\ PaidInv /\ [Next]_vars =>
        [\A b \in Bets : status[b] \in {"WON", "LOST"} => status'[b] = status[b]]_vars
  <2> SUFFICES ASSUME TypeOK, PaidInv, [Next]_vars, NEW b \in Bets,
                      status[b] \in {"WON", "LOST"}, status'[b] # status[b]
               PROVE  FALSE
    OBVIOUS
  <2> QED
    BY StatusSteps DEF UpdateBet, PaidInv
<1> QED
  BY <1>1, <1>2, <1>3, PTL DEF Spec, DecisionIsFinal

-----------------------------------------------------------------------------
\* The refinement: what each step is to the Bookmaker.

BookInv == TypeOK /\ DebitedInv /\ ClaimInv /\ PaidInv

LEMMA BookInvStep ==
  SingleProcess /\ KeysLast /\ BookInv /\ [Next]_vars => BookInv'
BY TypeStep, DebitedStep, ClaimStep, PaidStep DEF BookInv

\* A debit takes the stake of a bet that was not debited yet.
LEMMA DebitIsTakeStake ==
  ASSUME BookInv, NEW r \in Replicas, DebitStake(r)
  PROVE  Book!TakeStake(Bet(r)) \/ UNCHANGED money
<1> DEFINE b == Bet(r)
<1>0. /\ b \in Bets /\ betPc[r] \in ValidatingLabels
      /\ debits \in [Bets -> Nat] /\ balance \in [Users -> Int]
  BY InHand DEF DebitStake, ValidatingLabels, BookInv, TypeOK, StoreTypeOK, MoneyTypeOK
<1>1. debits[b] = 0 /\ status[b] = "NONE"
  BY <1>0 DEF BookInv, ClaimInv, DebitedInv, PersistedWasDebited
<1>2. UNCHANGED status
  BY DEF DebitStake, ValidationFrame
<1>3. Stake(b) \in Int /\ Stake(b) > 0 /\ Slip[b].user \in Users
  BY <1>0, SlipTypes
<1>4. ASSUME Covers(Slip[b].user, -Stake(b)), Debit(b) PROVE Book!TakeStake(b)
  BY <1>0, <1>1, <1>2, <1>3, <1>4
  DEF Book!TakeStake, Covers, Debit, Stake, Book!Stake
<1> QED
  BY <1>4 DEF DebitStake

\* A credit pays a won bet that was not paid yet.
LEMMA CreditIsPayOut ==
  ASSUME BookInv, NEW r \in Replicas, CreditPayout(r)
  PROVE  Book!PayOut(Paid(r)) \/ UNCHANGED money
<1> DEFINE b == Paid(r)
<1>0. /\ b \in Bets /\ credits \in [Bets -> Nat]
  BY InHand DEF CreditPayout, PayingLabels, BookInv, TypeOK, StoreTypeOK, MoneyTypeOK
<1>1. status[b] = "WON" /\ credits[b] = 0
  BY DEF CreditPayout, BookInv, PaidInv
<1>2. UNCHANGED status
  BY DEF CreditPayout
<1>3. ASSUME Credit(b) PROVE Book!PayOut(b)
  BY <1>0, <1>1, <1>2, <1>3 DEF Book!PayOut, Credit, Payout, Book!Payout
<1> QED
  BY <1>3 DEF CreditPayout

\* Writing the status of a bet puts it on the books or decides it.
LEMMA SaveIsOpenBet ==
  ASSUME BookInv, NEW r \in Replicas, SaveBet(r)
  PROVE  Book!OpenBet(Bet(r)) \/ UNCHANGED <<money, status>>
<1> DEFINE b == Bet(r)
<1>0. b \in Bets /\ betPc[r] = "save" /\ debits \in [Bets -> Nat]
  BY InHand DEF SaveBet, BookInv, TypeOK, StoreTypeOK, MoneyTypeOK
<1>1. debits[b] = 1
  BY <1>0 DEF BookInv, DebitedInv, ClaimInv, AtMostOneDebit
<1> QED
  BY <1>1 DEF SaveBet, Book!OpenBet, money

LEMMA UpdateIsDecide ==
  ASSUME BookInv, NEW r \in Replicas, NEW b \in Bets, UpdateBet(r, b)
  PROVE  Book!Decide(b) \/ UNCHANGED <<money, status>>
<1>1. status[b] = "PENDING" /\ UNCHANGED money
  BY DEF UpdateBet, BookInv, PaidInv
<1>2. Announced(r).winner \in Outcomes
  BY InHand DEF UpdateBet, BookInv, TypeOK, Settlement
<1>3. CASE status' = [status EXCEPT ![b] = Result(b, Announced(r).winner)]
  BY <1>1, <1>2, <1>3 DEF Book!Decide, Result, Book!Result, money
<1>4. CASE UNCHANGED status
  BY <1>1, <1>4
<1> QED
  BY <1>3, <1>4 DEF UpdateBet

LEMMA BookSimulation == BookInv /\ [Next]_vars => [Book!BookNext]_(Book!bookVars)
<1> SUFFICES ASSUME BookInv, [Next]_vars
             PROVE  Book!BookNext \/ UNCHANGED <<balance, status, debits, credits>>
  BY DEF Book!bookVars
<1>I. StoreTypeOK
  BY DEF BookInv, TypeOK
<1>1. ASSUME NEW r \in Replicas, DebitStake(r) PROVE Bet(r) \in Bets /\ UNCHANGED status
  BY <1>1, <1>I, InHand DEF DebitStake, ValidationFrame
<1>2. ASSUME NEW r \in Replicas, CreditPayout(r) PROVE Paid(r) \in Bets /\ UNCHANGED status
  BY <1>2, <1>I, InHand DEF CreditPayout, PayingLabels
<1>3. ASSUME NEW r \in Replicas, SaveBet(r) PROVE Bet(r) \in Bets
  BY <1>3, <1>I, InHand DEF SaveBet
<1>4. CASE UNCHANGED money /\ UNCHANGED status
  BY <1>4 DEF money
<1>5. CASE \E r \in Replicas : DebitStake(r)
  BY <1>1, <1>5, DebitIsTakeStake DEF Book!BookNext, money
<1>6. CASE \E r \in Replicas : CreditPayout(r)
  BY <1>2, <1>6, CreditIsPayOut DEF Book!BookNext, money
<1>7. CASE \E r \in Replicas : SaveBet(r)
  BY <1>3, <1>7, SaveIsOpenBet DEF Book!BookNext, money
<1>8. CASE \E r \in Replicas : \E b \in Bets : UpdateBet(r, b)
  BY <1>8, UpdateIsDecide DEF Book!BookNext, money
<1> QED
  BY <1>4, <1>5, <1>6, <1>7, <1>8, MoneyWriters, StatusWriters

\* The money path of one process keeps the Bookmaker's promises, for any number
\* of users, bets, markets and partitions and any number of crashes,
\* rebalances, retries and failing calls, as long as no idempotency key expires.
THEOREM KeepsTheBooks ==
  ASSUME SingleProcess, KeysLast
  PROVE  Spec => BooksKept
<1>1. Init => BookInv /\ Book!BookInit
  <2>1. Init => Book!BookInit
    BY DEF Init, StoreInit, Book!BookInit
  <2> QED
    BY <2>1, TypeInit, DebitedInit, ClaimInit, PaidInit DEF BookInv
<1>2. BookInv /\ [Next]_vars => BookInv'
  BY BookInvStep
<1>3. BookInv /\ [Next]_vars => [Book!BookNext]_(Book!bookVars)
  BY BookSimulation
<1> QED
  BY <1>1, <1>2, <1>3, PTL DEF Spec, BooksKept, Book!BookSpec

-----------------------------------------------------------------------------
\* The sums of the audit.

Stakes == [b \in Bets |-> Stake(b)]
Payouts == [b \in Bets |-> Payout(b)]

LEMMA AmountTypes ==
  \A b \in Bets : Stakes[b] = Stake(b) /\ Stake(b) \in Nat /\ Payouts[b] = Payout(b) /\ Payout(b) \in Nat
<1> SUFFICES ASSUME NEW b \in Bets
             PROVE  Stake(b) \in Nat /\ Payout(b) \in Nat
  BY DEF Stakes, Payouts
<1>1. Slip[b].stake \in Nat /\ Slip[b].odds \in Nat
  BY SlipAssumption DEF BetSlip
<1> QED
  BY <1>1 DEF Stake, Payout

LEMMA TotalsAreSums ==
  ASSUME NEW S \in SUBSET Bets, IsFiniteSet(S)
  PROVE  /\ MapThenSumSet(Stake, S) = Sum(Stakes, Picking(Bets), S)
         /\ MapThenSumSet(Payout, S) = Sum(Payouts, Picking(Bets), S)
<1> DEFINE StakesUp(sum) == sum = [s \in SUBSET S |->
             IF s = {} THEN 0 ELSE Stake(Pick(s)) + sum[s \ {Pick(s)}]]
           PayoutsUp(sum) == sum = [s \in SUBSET S |->
             IF s = {} THEN 0 ELSE Payout(Pick(s)) + sum[s \ {Pick(s)}]]
<1>0. Picks(Picking(Bets), S)
  BY AnyPicks
<1>1. \A s \in SUBSET S : Picking(Bets)[s] = Pick(s) /\ (s # {} => Pick(s) \in Bets)
  BY <1>0 DEF Picks, Picking
<1>2. \A sum : StakesUp(sum) <=> SumsUp(sum, Stakes, Picking(Bets), S)
  BY <1>1, AmountTypes DEF SumsUp
<1>3. \A sum : PayoutsUp(sum) <=> SumsUp(sum, Payouts, Picking(Bets), S)
  BY <1>1, AmountTypes DEF SumsUp
<1>4. MapThenSumSet(Stake, S) = (CHOOSE sum : StakesUp(sum))[S]
  BY DEF MapThenSumSet, MapThenFoldSet, Pick
<1>5. MapThenSumSet(Payout, S) = (CHOOSE sum : PayoutsUp(sum))[S]
  BY DEF MapThenSumSet, MapThenFoldSet, Pick
<1> HIDE DEF StakesUp, PayoutsUp
<1>6. (CHOOSE sum : StakesUp(sum)) = CHOOSE sum : SumsUp(sum, Stakes, Picking(Bets), S)
  BY <1>2
<1>7. (CHOOSE sum : PayoutsUp(sum)) = CHOOSE sum : SumsUp(sum, Payouts, Picking(Bets), S)
  BY <1>3
<1> QED
  BY <1>4, <1>5, <1>6, <1>7, Zenon DEF Sum

LEMMA TotalsGrow ==
  ASSUME NEW S \in SUBSET Bets, IsFiniteSet(S), NEW b \in Bets \ S
  PROVE  /\ MapThenSumSet(Stake, S) \in Nat
         /\ MapThenSumSet(Payout, S) \in Nat
         /\ MapThenSumSet(Stake, S \cup {b}) = MapThenSumSet(Stake, S) + Stake(b)
         /\ MapThenSumSet(Payout, S \cup {b}) = MapThenSumSet(Payout, S) + Payout(b)
<1>0. /\ S \cup {b} \in SUBSET Bets /\ IsFiniteSet(S \cup {b})
      /\ Picks(Picking(Bets), S) /\ Picks(Picking(Bets), S \cup {b})
  BY FS_AddElement, AnyPicks
<1>1. /\ \A x \in S \cup {b} : Stakes[x] \in Int /\ Payouts[x] \in Int
      /\ \A x \in S : Stakes[x] \in Nat /\ Payouts[x] \in Nat
      /\ Stakes[b] = Stake(b) /\ Payouts[b] = Payout(b)
  BY AmountTypes
<1>2. Sum(Stakes, Picking(Bets), S) \in Nat /\ Sum(Payouts, Picking(Bets), S) \in Nat
  BY <1>0, <1>1, SumOfNumbers
<1>3. Sum(Stakes, Picking(Bets), S \cup {b}) = Sum(Stakes, Picking(Bets), S) + Stake(b)
  BY <1>0, <1>1, SumOfOneMore
<1>4. Sum(Payouts, Picking(Bets), S \cup {b}) = Sum(Payouts, Picking(Bets), S) + Payout(b)
  BY <1>0, <1>1, SumOfOneMore
<1> QED
  BY <1>0, <1>2, <1>3, <1>4, TotalsAreSums

LEMMA TotalsOfParts ==
  ASSUME NEW S \in SUBSET Bets, IsFiniteSet(S), NEW s \in SUBSET S
  PROVE  /\ MapThenSumSet(Stake, s) \in Nat /\ MapThenSumSet(Stake, S) \in Nat
         /\ MapThenSumSet(Payout, s) \in Nat /\ MapThenSumSet(Payout, S) \in Nat
         /\ MapThenSumSet(Stake, s) <= MapThenSumSet(Stake, S)
         /\ MapThenSumSet(Payout, s) <= MapThenSumSet(Payout, S)
<1>0. /\ s \in SUBSET Bets /\ IsFiniteSet(s)
      /\ \A x \in S : Stakes[x] \in Nat /\ Payouts[x] \in Nat
      /\ Picks(Picking(Bets), s) /\ Picks(Picking(Bets), S)
  BY FS_Subset, AmountTypes, AnyPicks
<1>1. /\ Sum(Stakes, Picking(Bets), s) \in Nat /\ Sum(Stakes, Picking(Bets), S) \in Nat
      /\ Sum(Payouts, Picking(Bets), s) \in Nat /\ Sum(Payouts, Picking(Bets), S) \in Nat
  BY <1>0, SumOfNumbers
<1>2. /\ Sum(Stakes, Picking(Bets), s) <= Sum(Stakes, Picking(Bets), S)
      /\ Sum(Payouts, Picking(Bets), s) <= Sum(Payouts, Picking(Bets), S)
  BY <1>0, SumOfPart
<1> QED
  BY <1>0, <1>1, <1>2, TotalsAreSums

-----------------------------------------------------------------------------
\* No money is created.

\* The bets of a user that a stake was taken for, and those that were paid.
Staked(u) == {b \in BetsOf(u) : debits[b] > 0}
PaidOut(u) == {b \in BetsOf(u) : credits[b] > 0}

\* The strengthening: the balance is accounted for by what was taken and paid,
\* whether or not the bet is on the books yet.
MoneyInv ==
  \A u \in Users :
    /\ IsFiniteSet(Staked(u)) /\ IsFiniteSet(PaidOut(u))
    /\ balance[u] + MapThenSumSet(Stake, Staked(u))
         <= Opening[u] + MapThenSumSet(Payout, PaidOut(u))

\* A debit takes a stake, once or again; a credit pays what was not paid yet.
LEMMA MoneySteps ==
  ASSUME TypeOK, PaidInv, [Next]_vars
  PROVE  \/ UNCHANGED money
         \/ \E b \in Bets : Debit(b) \/ (Credit(b) /\ credits[b] = 0)
<1>1. ASSUME NEW r \in Replicas, DebitStake(r)
      PROVE  UNCHANGED money \/ \E b \in Bets : Debit(b)
  <2>1. Bet(r) \in Bets
    BY <1>1, InHand DEF DebitStake, TypeOK
  <2> QED
    BY <1>1, <2>1 DEF DebitStake
<1>2. ASSUME NEW r \in Replicas, CreditPayout(r)
      PROVE  UNCHANGED money \/ \E b \in Bets : Credit(b) /\ credits[b] = 0
  <2>1. Paid(r) \in Bets
    BY <1>2, InHand DEF CreditPayout, PayingLabels, TypeOK
  <2>2. credits[Paid(r)] = 0
    BY <1>2 DEF CreditPayout, PaidInv
  <2> QED
    BY <1>2, <2>1, <2>2 DEF CreditPayout
<1> QED
  BY <1>1, <1>2, MoneyWriters

LEMMA MoneyStep == TypeOK /\ PaidInv /\ MoneyInv /\ [Next]_vars => MoneyInv'
<1> SUFFICES ASSUME TypeOK, PaidInv, MoneyInv, [Next]_vars, NEW u \in Users
             PROVE  /\ IsFiniteSet(Staked(u)') /\ IsFiniteSet(PaidOut(u)')
                    /\ balance'[u] + MapThenSumSet(Stake, Staked(u)')
                         <= Opening[u] + MapThenSumSet(Payout, PaidOut(u)')
  BY DEF MoneyInv
<1> DEFINE Kept == /\ IsFiniteSet(Staked(u)') /\ IsFiniteSet(PaidOut(u)')
                   /\ balance'[u] + MapThenSumSet(Stake, Staked(u)')
                        <= Opening[u] + MapThenSumSet(Payout, PaidOut(u)')
<1>0. /\ balance \in [Users -> Int] /\ debits \in [Bets -> Nat] /\ credits \in [Bets -> Nat]
      /\ Opening[u] \in Nat
  BY OpeningAssumption DEF TypeOK, StoreTypeOK, MoneyTypeOK
<1>1. /\ Staked(u) \in SUBSET Bets /\ PaidOut(u) \in SUBSET Bets
      /\ IsFiniteSet(Staked(u)) /\ IsFiniteSet(PaidOut(u))
      /\ balance[u] + MapThenSumSet(Stake, Staked(u))
           <= Opening[u] + MapThenSumSet(Payout, PaidOut(u))
  BY DEF MoneyInv, Staked, PaidOut, BetsOf
<1>2. MapThenSumSet(Stake, Staked(u)) \in Nat /\ MapThenSumSet(Payout, PaidOut(u)) \in Nat
  BY <1>1, TotalsOfParts
<1> DEFINE staked == MapThenSumSet(Stake, Staked(u))
           paid == MapThenSumSet(Payout, PaidOut(u))
           staked1 == MapThenSumSet(Stake, Staked(u)')
           paid1 == MapThenSumSet(Payout, PaidOut(u)')
<1>3. ASSUME Staked(u)' = Staked(u), PaidOut(u)' = PaidOut(u), balance'[u] \in Int,
             balance'[u] <= balance[u]
      PROVE  Kept
  BY <1>0, <1>1, <1>2, <1>3
<1>4. CASE UNCHANGED money
  BY <1>0, <1>3, <1>4 DEF money, Staked, PaidOut
<1>5. ASSUME NEW b \in Bets, Debit(b) PROVE Kept
  <2>1. Stake(b) \in Nat /\ Stake(b) > 0
    BY SlipTypes
  <2>2. PaidOut(u)' = PaidOut(u)
    BY <1>5 DEF Debit, PaidOut
  <2>3. CASE b \in Staked(u) \/ b \notin BetsOf(u)
    <3>1. Staked(u)' = Staked(u)
      BY <1>0, <1>5, <2>3 DEF Debit, Staked, BetsOf
    <3>2. balance'[u] \in Int /\ balance'[u] <= balance[u]
      BY <1>0, <1>5, <2>1 DEF Debit
    <3> QED
      BY <1>3, <2>2, <3>1, <3>2
  <2>4. CASE b \in BetsOf(u) \ Staked(u)
    <3>1. Staked(u)' = Staked(u) \cup {b}
      BY <1>0, <1>5, <2>4 DEF Debit, Staked, BetsOf
    <3>2. balance'[u] = balance[u] - Stake(b)
      BY <1>0, <1>5, <2>4 DEF Debit, BetsOf
    <3>3. /\ IsFiniteSet(Staked(u) \cup {b})
          /\ MapThenSumSet(Stake, Staked(u) \cup {b})
               = MapThenSumSet(Stake, Staked(u)) + Stake(b)
      BY <1>1, <2>4, FS_AddElement, TotalsGrow
    <3>4. IsFiniteSet(Staked(u)') /\ IsFiniteSet(PaidOut(u)')
      BY <1>1, <2>2, <3>1, <3>3
    <3>5. staked1 = staked + Stake(b) /\ paid1 = paid
      BY <2>2, <3>1, <3>3
    <3>6. balance'[u] + staked1 <= Opening[u] + paid1
      <4>1. staked \in Nat /\ paid \in Nat /\ balance[u] + staked <= Opening[u] + paid
        BY <1>1, <1>2
      <4> HIDE DEF staked, paid, staked1, paid1
      <4> QED
        BY <1>0, <2>1, <3>2, <3>5, <4>1
    <3> QED
      BY <3>4, <3>6
  <2> QED
    BY <2>3, <2>4
<1>6. ASSUME NEW b \in Bets, Credit(b), credits[b] = 0 PROVE Kept
  <2>1. Payout(b) \in Nat
    BY SlipTypes
  <2>2. Staked(u)' = Staked(u)
    BY <1>6 DEF Credit, Staked
  <2>3. CASE b \notin BetsOf(u)
    <3>1. PaidOut(u)' = PaidOut(u)
      BY <1>0, <1>6, <2>3 DEF Credit, PaidOut, BetsOf
    <3>2. balance'[u] \in Int /\ balance'[u] <= balance[u]
      BY <1>0, <1>6, <2>1, <2>3 DEF Credit, BetsOf
    <3> QED
      BY <1>3, <2>2, <3>1, <3>2
  <2>4. CASE b \in BetsOf(u)
    <3>1. PaidOut(u)' = PaidOut(u) \cup {b} /\ b \notin PaidOut(u)
      BY <1>0, <1>6, <2>4 DEF Credit, PaidOut, BetsOf
    <3>2. balance'[u] = balance[u] + Payout(b)
      BY <1>0, <1>6, <2>4 DEF Credit, BetsOf
    <3>3. /\ IsFiniteSet(PaidOut(u) \cup {b})
          /\ MapThenSumSet(Payout, PaidOut(u) \cup {b})
               = MapThenSumSet(Payout, PaidOut(u)) + Payout(b)
      BY <1>1, <3>1, FS_AddElement, TotalsGrow
    <3>4. IsFiniteSet(Staked(u)') /\ IsFiniteSet(PaidOut(u)')
      BY <1>1, <2>2, <3>1, <3>3
    <3>5. staked1 = staked /\ paid1 = paid + Payout(b)
      BY <2>2, <3>1, <3>3
    <3>6. balance'[u] + staked1 <= Opening[u] + paid1
      <4>1. staked \in Nat /\ paid \in Nat /\ balance[u] + staked <= Opening[u] + paid
        BY <1>1, <1>2
      <4> HIDE DEF staked, paid, staked1, paid1
      <4> QED
        BY <1>0, <2>1, <3>2, <3>5, <4>1
    <3> QED
      BY <3>4, <3>6
  <2> QED
    BY <2>3, <2>4
<1> QED
  BY <1>4, <1>5, <1>6, MoneySteps

LEMMA MoneyInit == Init => MoneyInv
<1> SUFFICES ASSUME Init, NEW u \in Users
             PROVE  /\ IsFiniteSet(Staked(u)) /\ IsFiniteSet(PaidOut(u))
                    /\ balance[u] + MapThenSumSet(Stake, Staked(u))
                         <= Opening[u] + MapThenSumSet(Payout, PaidOut(u))
  BY DEF MoneyInv
<1>1. Staked(u) = {} /\ PaidOut(u) = {} /\ balance[u] = Opening[u] /\ Opening[u] \in Nat
  BY OpeningAssumption DEF Init, StoreInit, Staked, PaidOut, BetsOf
<1>2. IsFiniteSet({})
  BY FS_EmptySet
<1>3. MapThenSumSet(Stake, {}) = 0 /\ MapThenSumSet(Payout, {}) = 0
  BY <1>2, TotalsAreSums, SumOfNone
<1> QED
  BY <1>1, <1>2, <1>3

\* The bets on the books were all debited, those that won may be paid: what the
\* statuses say bounds the balance from above.
LEMMA AccountsBoundBalances ==
  ASSUME TypeOK, DebitedInv, PaidInv, MoneyInv, NEW u \in Users,
         IsFiniteSet(BetsOf(u) \cap WonBets)
  PROVE  balance[u] <= Opening[u] - MapThenSumSet(Stake, BetsOf(u) \cap OnTheBooks)
                                  + MapThenSumSet(Payout, BetsOf(u) \cap WonBets)
<1>0. balance[u] \in Int /\ Opening[u] \in Nat /\ debits \in [Bets -> Nat]
  BY OpeningAssumption DEF TypeOK, StoreTypeOK, MoneyTypeOK
<1>1. /\ BetsOf(u) \cap OnTheBooks \in SUBSET Staked(u)
      /\ PaidOut(u) \in SUBSET (BetsOf(u) \cap WonBets)
      /\ Staked(u) \in SUBSET Bets /\ BetsOf(u) \cap WonBets \in SUBSET Bets
  BY DEF DebitedInv, PersistedWasDebited, PaidInv, PaidOnlyOnce, Staked, PaidOut,
         BetsOf, OnTheBooks, WonBets
<1>2. /\ IsFiniteSet(Staked(u))
      /\ balance[u] + MapThenSumSet(Stake, Staked(u))
           <= Opening[u] + MapThenSumSet(Payout, PaidOut(u))
  BY DEF MoneyInv
<1> DEFINE onBooks == MapThenSumSet(Stake, BetsOf(u) \cap OnTheBooks)
           staked == MapThenSumSet(Stake, Staked(u))
           paid == MapThenSumSet(Payout, PaidOut(u))
           won == MapThenSumSet(Payout, BetsOf(u) \cap WonBets)
<1>3. onBooks \in Nat /\ staked \in Nat /\ onBooks <= staked
  BY <1>1, <1>2, TotalsOfParts
<1>4. paid \in Nat /\ won \in Nat /\ paid <= won
  BY <1>1, TotalsOfParts
<1>5. balance[u] + staked <= Opening[u] + paid
  BY <1>2
<1> HIDE DEF onBooks, staked, paid, won
<1>6. balance[u] <= Opening[u] - onBooks + won
  BY <1>0, <1>3, <1>4, <1>5
<1> QED
  BY <1>6 DEF onBooks, won

\* A single bet-processor creates no money: whatever is delivered again, fails or
\* is settled twice, a user has at most the opening balance, less the stakes on
\* the books, plus the payouts of the bets that won - also when keys expire and
\* a bet is debited twice.
THEOREM MoneyIsNotCreated ==
  ASSUME SingleProcess
  PROVE  Spec => []NoMoneyCreated
<1> DEFINE Inv == TypeOK /\ DebitedInv /\ PaidInv /\ MoneyInv
<1>1. Init => Inv
  BY TypeInit, DebitedInit, PaidInit, MoneyInit
<1>2. Inv /\ [Next]_vars => Inv'
  BY TypeStep, DebitedStep, PaidStep, MoneyStep
<1>3. Inv => NoMoneyCreated
  <2> SUFFICES ASSUME Inv, NEW u \in Users
               PROVE  IsFiniteSet(BetsOf(u) \cap WonBets)
    BY AccountsBoundBalances DEF NoMoneyCreated
  <2>1. BetsOf(u) \cap WonBets \in SUBSET Staked(u)
    BY DEF DebitedInv, PersistedWasDebited, TypeOK, StoreTypeOK, MoneyTypeOK, Staked,
           BetsOf, WonBets
  <2>2. IsFiniteSet(Staked(u))
    BY DEF MoneyInv
  <2> QED
    BY <2>1, <2>2, FS_Subset
<1> QED
  BY <1>1, <1>2, <1>3, PTL DEF Spec

-----------------------------------------------------------------------------
\* What is lost was lost to a fault.

\* Stakes taken for nothing, and payouts that nobody will make.
StakesLost == {b \in Bets \ (OnTheBooks \cup BeingSaved) : debits[b] > 0}
PayoutsLost == {b \in WonBets \ BeingPaid : credits[b] = 0}

\* The bets of the other handlers do not move.
LEMMA OtherBetsStay ==
  ASSUME TypeOK, NEW r \in Replicas, RunBets(r) \/ Crash(r), NEW q \in Replicas, q # r
  PROVE  betPc'[q] = betPc[q] /\ Bet(q)' = Bet(q)
<1>0. /\ betPc \in [Replicas -> BetLabels \cup {"fetch", "commit"}]
      /\ betAt \in [Replicas -> (BetPartitions \X Nat) \cup {NoMessage}]
  BY DEF TypeOK, StoreTypeOK, BetsReader!ConsumerTypeOK
<1>1. CASE RunBets(r)
  BY <1>0, <1>1 DEF RunBets, BetLoop, HandleBetPlaced, Check, Suspension, Odds,
       SuspensionUnknown, DebitStake, DebitRefused, SaveBet, SaveDebitTx, PublishDebitTx,
       BetsReader!Goto, BetsReader!ReturnNil, BetsReader!ReturnError,
       BetsReader!Fetch, BetsReader!Commit, Bet, BetsReader!Current
<1>2. CASE Crash(r)
  BY <1>0, <1>2 DEF Crash, BetsReader!Crash, Bet, BetsReader!Current
<1> QED
  BY <1>1, <1>2

\* A process loses the stake it has in hand and no other, to a fault.
LEMMA LosesItsStake ==
  ASSUME TypeOK, TypeOK', NEW r \in Replicas, RunBets(r) \/ Crash(r),
         NEW b \in StakesLost', b \notin StakesLost
  PROVE  b = Bet(r) /\ faults' = faults + 1
<1>0. /\ betPc \in [Replicas -> BetLabels \cup {"fetch", "commit"}]
      /\ debits \in [Bets -> Nat] /\ status \in [Bets -> BetStatus] /\ b \in Bets
      /\ betAt \in [Replicas -> (BetPartitions \X Nat) \cup {NoMessage}]
      /\ faults \in Nat
  BY DEF TypeOK, StoreTypeOK, MoneyTypeOK, BooksTypeOK, BetsReader!ConsumerTypeOK, StakesLost
<1>1. /\ status'[b] = "NONE" /\ debits'[b] > 0
      /\ \A q \in Replicas : betPc'[q] = "save" => Bet(q)' # b
      /\ \/ status[b] # "NONE" \/ debits[b] = 0
         \/ \E q \in Replicas : betPc[q] = "save" /\ Bet(q) = b
  BY <1>0 DEF StakesLost, OnTheBooks, BeingSaved
<1>2. \A q \in Replicas : q # r => betPc'[q] = betPc[q] /\ Bet(q)' = Bet(q)
  BY OtherBetsStay
<1>3. CASE DebitStake(r)
  <2>1. status[b] = "NONE" /\ ~(betPc[r] = "save")
    BY <1>1, <1>3 DEF DebitStake, ValidationFrame
  <2>2. debits[b] = 0
    BY <1>1, <1>2, <2>1
  <2>3. b = Bet(r) /\ debits' # debits
    BY <1>0, <1>1, <1>3, <2>2 DEF DebitStake, Debit, money
  <2>4. ~BetsReader!Goto(r, "save")
    BY <1>0, <1>1, <2>3 DEF BetsReader!Goto, Bet, BetsReader!Current
  <2> QED
    BY <1>3, <2>3, <2>4 DEF DebitStake, CallFails, Fault, money
<1>4. CASE SaveBet(r)
  <2>1. debits[b] > 0
    BY <1>1, <1>4 DEF SaveBet, money
  <2>2. status[b] = "NONE"
    BY <1>0, <1>1, <1>4 DEF SaveBet, BetStatus
  <2>3. Bet(r) = b
    BY <1>1, <1>2, <2>1, <2>2, <1>0
  <2> QED
    BY <1>0, <1>1, <1>4, <2>2, <2>3 DEF SaveBet, CallFails, Fault
<1>5. CASE Crash(r)
  <2>1. debits[b] > 0 /\ status[b] = "NONE" /\ faults' = faults + 1
    BY <1>1, <1>5 DEF Crash, money, Fault
  <2> QED
    BY <1>0, <1>1, <1>2, <2>1
<1>6. CASE RunBets(r) /\ ~DebitStake(r) /\ ~SaveBet(r)
  <2>1. debits[b] > 0 /\ status[b] = "NONE" /\ betPc[r] # "save"
    BY <1>0, <1>1, <1>6 DEF RunBets, BetLoop, HandleBetPlaced, Check, Suspension, Odds,
       ValidationFrame, SaveDebitTx, PublishDebitTx, money,
       BetsReader!Fetch, BetsReader!Commit
  <2> QED
    BY <1>0, <1>1, <1>2, <2>1
<1> QED
  BY <1>3, <1>4, <1>5, <1>6

\* The other steps neither take a stake nor let go of a bet.
LEMMA StakesSteps ==
  ASSUME TypeOK, [Next]_vars
  PROVE  \/ StakesLost' \subseteq StakesLost
         \/ \E x : StakesLost' \subseteq StakesLost \cup {x} /\ faults' = faults + 1
<1>T. TypeOK'
  BY TypeStep
<1>1. ASSUME NEW r \in Replicas, RunBets(r) \/ Crash(r)
      PROVE  \/ StakesLost' \subseteq StakesLost
             \/ \E x : StakesLost' \subseteq StakesLost \cup {x} /\ faults' = faults + 1
  BY <1>1, <1>T, LosesItsStake
<1>2. ASSUME ~\E r \in Replicas : RunBets(r) \/ Crash(r)
      PROVE  StakesLost' \subseteq StakesLost
  <2> SUFFICES ASSUME NEW b \in StakesLost' PROVE b \in StakesLost
    OBVIOUS
  <2>0. b \in Bets /\ status \in [Bets -> BetStatus]
    BY DEF StakesLost, TypeOK, StoreTypeOK, BooksTypeOK
  <2>1. debits'[b] = debits[b]
    <3>1. ASSUME NEW r \in Replicas, RunSettlement(r) PROVE UNCHANGED debits
      BY <3>1 DEF RunSettlement, SettleLoop, HandleBetSettled, FindBets, UpdateBet,
           Settled, CreditPayout, SaveCreditTx, PublishCreditTx, Credit, money
    <3> QED
      BY <1>2, <3>1 DEF Next, Rebalance, RedisFrame, KeyExpires, SuspendMarket,
           SuspensionLapses, OddsWritten, OddsExpire, PlaceBet, SettleMarket,
           MarkSettled, ApiFrame, vars, money
  <2>2. status[b] = "NONE"
    <3>1. status'[b] = "NONE"
      BY <2>0 DEF StakesLost, OnTheBooks
    <3> QED
      BY <2>0, <3>1, StatusSteps, SlipTypes
  <2>3. ASSUME NEW q \in Replicas, betPc[q] = "save", Bet(q) = b PROVE FALSE
    <3>1. betPc'[q] = "save"
      BY <1>2, <2>3, BetPcWriters
    <3>2. Bet(q)' = b
      BY <2>3, <3>1, BetStays
    <3>3. b \in BeingSaved'
      BY <3>1, <3>2 DEF BeingSaved
    <3> QED
      BY <3>3 DEF StakesLost
  <2> QED
    BY <2>0, <2>1, <2>2, <2>3 DEF StakesLost, OnTheBooks, BeingSaved
<1> QED
  BY <1>1, <1>2

\* The settlement loops: what a handler is paying, and whether it was credited.
PayingInv ==
  \A r \in Replicas :
    /\ paying[r] # {} => settlePc[r] \in PayingLabels /\ paying[r] = {Paid(r)}
    /\ settlePc[r] \in {"saveTx", "publishTx"} => credits[Paid(r)] > 0

LEMMA PayingWriters ==
  ASSUME TypeOK, [Next]_vars, NEW r \in Replicas
  PROVE  \/ UNCHANGED <<settlePc[r], paying[r]>>
         \/ RunSettlement(r) \/ Crash(r)
<1>0. /\ settlePc \in [Replicas -> SettleLabels \cup {"fetch", "commit"}]
      /\ paying \in [Replicas -> SUBSET Bets]
  BY DEF TypeOK, StoreTypeOK, LocalsTypeOK, SettleReader!ConsumerTypeOK
<1>1. ASSUME NEW q \in Replicas, q # r, RunSettlement(q)
      PROVE  UNCHANGED <<settlePc[r], paying[r]>>
  BY <1>0, <1>1 DEF RunSettlement, SettleLoop, HandleBetSettled, FindBets, UpdateBet,
       Settled, CreditPayout, CreditIsDropped, SaveCreditTx, PublishCreditTx, NextBet,
       settleLocals, settleReader, SettleReader!Goto, SettleReader!ReturnNil,
       SettleReader!ReturnError, SettleReader!Fetch, SettleReader!Commit
<1>2. ASSUME NEW q \in Replicas, q # r, Crash(q) PROVE UNCHANGED <<settlePc[r], paying[r]>>
  BY <1>0, <1>2 DEF Crash, SettleReader!Crash
<1>3. \/ UNCHANGED <<settlePc, paying>>
      \/ \E q \in Replicas : RunSettlement(q) \/ Crash(q)
  BY DEF Next, RunBets, BetLoop, HandleBetPlaced, Check, Suspension, Odds, DebitStake,
       SaveBet, SaveDebitTx, PublishDebitTx, ValidationFrame, PlaceBet,
       SettleMarket, MarkSettled, ApiFrame, KeyExpires, SuspendMarket,
       SuspensionLapses, OddsWritten, OddsExpire, RedisFrame, Rebalance,
       SettleReader!Rebalance, vars, settleReader, settleLocals, SettleReader!Produce,
       PublishBetSettled
<1> QED
  BY <1>1, <1>2, <1>3

LEMMA CreditsGrow ==
  ASSUME TypeOK, [Next]_vars, NEW b \in Bets
  PROVE  credits'[b] >= credits[b]
<1>0. credits \in [Bets -> Nat]
  BY DEF TypeOK, StoreTypeOK, MoneyTypeOK
<1> QED
  BY <1>0, CreditSteps

LEMMA PayingStep == TypeOK /\ PayingInv /\ [Next]_vars => PayingInv'
<1> SUFFICES ASSUME TypeOK, PayingInv, [Next]_vars, NEW r \in Replicas
             PROVE  /\ paying'[r] # {} => /\ settlePc'[r] \in PayingLabels
                                          /\ paying'[r] = {Paid(r)'}
                    /\ settlePc'[r] \in {"saveTx", "publishTx"} => credits'[Paid(r)'] > 0
  BY DEF PayingInv
<1> DEFINE Kept == /\ paying'[r] # {} => /\ settlePc'[r] \in PayingLabels
                                         /\ paying'[r] = {Paid(r)'}
                   /\ settlePc'[r] \in {"saveTx", "publishTx"} => credits'[Paid(r)'] > 0
<1>0. /\ settlePc \in [Replicas -> SettleLabels \cup {"fetch", "commit"}]
      /\ paying \in [Replicas -> SUBSET Bets]
      /\ credits \in [Bets -> Nat] /\ credits' \in [Bets -> Nat]
  BY TypeStep DEF TypeOK, StoreTypeOK, LocalsTypeOK, MoneyTypeOK, SettleReader!ConsumerTypeOK
<1>1. /\ paying[r] # {} => settlePc[r] \in PayingLabels /\ paying[r] = {Paid(r)}
      /\ settlePc[r] \in {"saveTx", "publishTx"} => credits[Paid(r)] > 0
      /\ settlePc[r] \in PayingLabels => Paid(r) \in Bets
  BY InHand DEF PayingInv, TypeOK
<1>2. paying'[r] = paying[r] => Paid(r)' = Paid(r)
  BY DEF Paid
<1>3. ASSUME UNCHANGED <<settlePc[r], paying[r]>> PROVE Kept
  BY <1>0, <1>1, <1>2, <1>3, CreditsGrow DEF PayingLabels
<1>4. ASSUME Crash(r) PROVE Kept
  BY <1>0, <1>4 DEF Crash, SettleReader!Crash
<1>5. ASSUME NEW b \in Bets, UpdateBet(r, b) PROVE Kept
  <2>1. paying[r] = {} /\ settlePc[r] = "next"
    BY <1>1, <1>5 DEF UpdateBet, PayingLabels
  <2>2. \/ paying'[r] = {} /\ settlePc'[r] = "next"
        \/ paying'[r] = {b} /\ settlePc'[r] = "credit"
    BY <1>0, <1>5, <2>1 DEF UpdateBet, SettleReader!Goto, settleReader
  <2>3. paying'[r] = {b} => Paid(r)' = b
    BY Zenon DEF Paid
  <2> QED
    BY <2>2, <2>3 DEF PayingLabels
<1>6. ASSUME CreditPayout(r) PROVE Kept
  <2>1. \/ paying'[r] = {} /\ settlePc'[r] = "next"
        \/ paying'[r] = paying[r] /\ settlePc'[r] = "saveTx" /\ Credit(Paid(r))
    BY <1>0, <1>6 DEF CreditPayout, CreditIsDropped, SettleReader!Goto
  <2>2. Credit(Paid(r)) => credits'[Paid(r)] > 0
    BY <1>0, <1>1, <1>6 DEF CreditPayout, PayingLabels, Credit
  <2> QED
    BY <1>1, <1>2, <1>6, <2>1, <2>2 DEF PayingLabels, CreditPayout
<1>7. ASSUME SaveCreditTx(r) PROVE Kept
  <2>1. /\ paying'[r] = paying[r] /\ settlePc'[r] = "publishTx"
        /\ settlePc[r] = "saveTx" /\ UNCHANGED credits
    BY <1>0, <1>7 DEF SaveCreditTx, SettleReader!Goto, settleLocals, money
  <2> QED
    BY <1>1, <1>2, <2>1 DEF PayingLabels
<1>8. ASSUME PublishCreditTx(r) PROVE Kept
  BY <1>0, <1>8 DEF PublishCreditTx, NextBet, SettleReader!Goto
<1>9. ASSUME RunSettlement(r), ~CreditPayout(r), ~SaveCreditTx(r), ~PublishCreditTx(r),
             \A b \in Bets : ~UpdateBet(r, b)
      PROVE  Kept
  <2>1. /\ settlePc[r] \notin PayingLabels /\ settlePc'[r] \notin PayingLabels
        /\ paying'[r] = paying[r]
    BY <1>0, <1>9 DEF RunSettlement, SettleLoop, HandleBetSettled, FindBets, Settled,
         SettleReader!Goto, SettleReader!ReturnNil, SettleReader!ReturnError,
         SettleReader!Fetch, SettleReader!Commit, settleLocals, PayingLabels
  <2> QED
    BY <1>1, <2>1 DEF PayingLabels
<1> QED
  BY <1>3, <1>4, <1>5, <1>6, <1>7, <1>8, <1>9, PayingWriters

\* A step loses at most one payout, and only to a fault.
LEMMA PayoutsSteps ==
  ASSUME TypeOK, PayingInv, [Next]_vars
  PROVE  \/ PayoutsLost' \subseteq PayoutsLost
         \/ \E x : PayoutsLost' \subseteq PayoutsLost \cup {x} /\ faults' = faults + 1
<1> DEFINE Few == \/ PayoutsLost' \subseteq PayoutsLost
                  \/ \E x : PayoutsLost' \subseteq PayoutsLost \cup {x} /\ faults' = faults + 1
<1>0. /\ settlePc \in [Replicas -> SettleLabels \cup {"fetch", "commit"}]
      /\ paying \in [Replicas -> SUBSET Bets] /\ faults \in Nat
      /\ credits \in [Bets -> Nat] /\ credits' \in [Bets -> Nat]
      /\ status \in [Bets -> BetStatus]
  BY TypeStep DEF TypeOK, StoreTypeOK, LocalsTypeOK, MoneyTypeOK, BooksTypeOK,
                  SettleReader!ConsumerTypeOK
<1>1. \A b \in PayoutsLost' : /\ b \in Bets /\ status'[b] = "WON" /\ credits[b] = 0
                              /\ \A q \in Replicas : b \notin paying'[q]
  <2> SUFFICES ASSUME NEW b \in PayoutsLost'
               PROVE  /\ b \in Bets /\ status'[b] = "WON" /\ credits[b] = 0
                      /\ \A q \in Replicas : b \notin paying'[q]
    OBVIOUS
  <2>1. /\ b \in Bets /\ status'[b] = "WON" /\ credits'[b] = 0
        /\ \A q \in Replicas : b \notin paying'[q]
    BY DEF PayoutsLost, WonBets, BeingPaid
  <2> QED
    BY <1>0, <2>1, CreditsGrow
<1>2. \A b \in Bets : \/ b \in PayoutsLost
                      \/ status[b] # "WON" \/ credits[b] # 0
                      \/ \E q \in Replicas : b \in paying[q]
  BY DEF PayoutsLost, WonBets, BeingPaid
<1>3. ASSUME NEW r \in Replicas, UNCHANGED status,
             \A q \in Replicas : q # r => paying'[q] = paying[q],
             faults' = faults + 1 \/ (paying[r] # {} => credits[Paid(r)] > 0)
      PROVE  Few
  <2>1. PayoutsLost' \subseteq PayoutsLost \cup {Paid(r)}
    <3> SUFFICES ASSUME NEW b \in PayoutsLost', b \notin PayoutsLost PROVE b = Paid(r)
      OBVIOUS
    <3>1. \E q \in Replicas : b \in paying[q]
      BY <1>1, <1>2, <1>3
    <3>2. b \in paying[r]
      BY <1>1, <1>3, <3>1
    <3> QED
      BY <3>2 DEF PayingInv
  <2>2. CASE paying[r] # {} => credits[Paid(r)] > 0
    <3>1. ASSUME NEW b \in PayoutsLost', b \notin PayoutsLost PROVE FALSE
      <4>1. b = Paid(r) /\ credits[b] = 0
        BY <1>1, <2>1, <3>1
      <4>2. \E q \in Replicas : b \in paying[q]
        BY <1>1, <1>2, <1>3, <3>1
      <4>3. b \in paying[r]
        BY <1>1, <1>3, <3>1, <4>2
      <4> QED
        BY <2>2, <4>1, <4>3, <1>0
    <3> QED
      BY <3>1
  <2> QED
    BY <1>3, <2>1, <2>2
<1>4. CASE UNCHANGED paying /\ \A b \in Bets : status'[b] = "WON" => status[b] = "WON"
  <2>1. PayoutsLost' \subseteq PayoutsLost
    BY <1>1, <1>2, <1>4
  <2> QED
    BY <2>1
<1>5. ASSUME NEW r \in Replicas, Crash(r) PROVE Few
  <2>1. /\ UNCHANGED status /\ faults' = faults + 1
        /\ \A q \in Replicas : q # r => paying'[q] = paying[q]
    BY <1>0, <1>5 DEF Crash, Fault
  <2> QED
    BY <1>3, <2>1
<1>6. ASSUME NEW r \in Replicas, CreditPayout(r) PROVE Few
  <2>1. CASE CreditIsDropped(r) /\ CallFails
    <3>1. /\ UNCHANGED status /\ faults' = faults + 1
          /\ \A q \in Replicas : q # r => paying'[q] = paying[q]
      BY <1>0, <1>6, <2>1 DEF CreditPayout, CreditIsDropped, CallFails, Fault
    <3> QED
      BY <1>3, <3>1
  <2>2. CASE UNCHANGED paying
    BY <1>4, <1>6, <2>2 DEF CreditPayout
  <2> QED
    BY <1>6, <2>1, <2>2 DEF CreditPayout
<1>7. ASSUME NEW r \in Replicas, PublishCreditTx(r) PROVE Few
  <2>1. /\ UNCHANGED status /\ settlePc[r] = "publishTx"
        /\ \A q \in Replicas : q # r => paying'[q] = paying[q]
    BY <1>0, <1>7 DEF PublishCreditTx
  <2>2. credits[Paid(r)] > 0
    BY <2>1 DEF PayingInv
  <2> QED
    BY <1>3, <2>1, <2>2
<1>8. ASSUME NEW r \in Replicas, NEW c \in Bets, UpdateBet(r, c) PROVE Few
  <2>1. paying[r] = {} /\ \A b \in Bets : b # c => status'[b] = status[b]
    BY <1>0, <1>8 DEF UpdateBet, PayingInv, PayingLabels
  <2>2. \A q \in Replicas : \A b \in paying[q] : b \in paying'[q]
    BY <1>0, <1>8, <2>1 DEF UpdateBet
  <2>3. PayoutsLost' \subseteq PayoutsLost \cup {c}
    BY <1>1, <1>2, <2>1, <2>2
  <2>4. CASE CallFails
    BY <2>3, <2>4 DEF CallFails, Fault
  <2>5. CASE ~CallFails
    <3>1. \/ paying'[r] = {c}
          \/ paying' = paying /\ status'[c] # "WON"
      BY <1>0, <1>8, <2>5 DEF UpdateBet, IsPaid
    <3>2. CASE paying'[r] = {c}
      <4>1. c \notin PayoutsLost'
        BY <1>1, <3>2
      <4> QED
        BY <2>3, <4>1
    <3>3. CASE status'[c] # "WON"
      <4>1. c \notin PayoutsLost'
        BY <1>1, <3>3
      <4> QED
        BY <2>3, <4>1
    <3> QED
      BY <3>1, <3>2, <3>3
  <2> QED
    BY <2>4, <2>5
<1>9. ASSUME NEW r \in Replicas, RunSettlement(r), ~CreditPayout(r), ~PublishCreditTx(r),
             \A b \in Bets : ~UpdateBet(r, b)
      PROVE  Few
  <2>1. UNCHANGED <<paying, status>>
    BY <1>9 DEF RunSettlement, SettleLoop, HandleBetSettled, FindBets, Settled,
         SaveCreditTx, settleLocals
  <2> QED
    BY <1>4, <2>1
<1>10. ASSUME ~\E r \in Replicas : RunSettlement(r) \/ Crash(r) PROVE Few
  <2>1. UNCHANGED paying
    BY <1>10 DEF Next, RunBets, BetLoop, HandleBetPlaced, Check, Suspension, Odds,
       DebitStake, SaveBet, SaveDebitTx, PublishDebitTx, ValidationFrame, PlaceBet,
       SettleMarket, MarkSettled, ApiFrame, KeyExpires, SuspendMarket,
       SuspensionLapses, OddsWritten, OddsExpire, RedisFrame, Rebalance, vars,
       settleLocals
  <2>2. ASSUME NEW r \in Replicas, SaveBet(r), NEW b \in Bets, status'[b] = "WON"
        PROVE  status[b] = "WON"
    BY <1>0, <2>2 DEF SaveBet
  <2>3. UNCHANGED status \/ \E r \in Replicas : SaveBet(r)
    BY <1>10 DEF Next, RunBets, BetLoop, HandleBetPlaced, Check, Suspension, Odds,
       DebitStake, SaveDebitTx, PublishDebitTx, ValidationFrame, PlaceBet,
       SettleMarket, MarkSettled, ApiFrame, KeyExpires, SuspendMarket,
       SuspensionLapses, OddsWritten, OddsExpire, RedisFrame, Rebalance, vars
  <2> QED
    BY <1>4, <2>1, <2>2, <2>3
<1> QED
  BY <1>5, <1>6, <1>7, <1>8, <1>9, <1>10

\* The strengthening: both counts are of finite sets, and a handler pays one bet
\* at a time.
LossInv ==
  /\ PayingInv
  /\ IsFiniteSet(StakesLost) /\ Cardinality(StakesLost) <= faults
  /\ IsFiniteSet(PayoutsLost) /\ Cardinality(PayoutsLost) <= faults

LEMMA LossStep == TypeOK /\ LossInv /\ [Next]_vars => LossInv'
<1> SUFFICES ASSUME TypeOK, LossInv, [Next]_vars PROVE LossInv'
  OBVIOUS
<1>1. faults \in Nat /\ faults' \in Nat /\ faults <= faults'
  BY FaultCount, TypeStep DEF TypeOK, StoreTypeOK, Fault
<1>2. PayingInv /\ PayingInv'
  BY PayingStep DEF LossInv
<1>3. IsFiniteSet(StakesLost') /\ Cardinality(StakesLost') <= faults'
  BY <1>1, StakesSteps, PaidFor DEF LossInv
<1>4. IsFiniteSet(PayoutsLost') /\ Cardinality(PayoutsLost') <= faults'
  BY <1>1, <1>2, PayoutsSteps, PaidFor DEF LossInv
<1> QED
  BY <1>2, <1>3, <1>4 DEF LossInv

\* Handlers lose a user's money only to faults, one bet to each: for any number
\* of processes, users and bets, with keys that last or expire and announcements
\* that contradict each other (bet_processor.go:105-121, 174-189).
THEOREM LossesHaveCauses == Spec => []LossesNeedFaults
<1>1. Init => TypeOK /\ LossInv
  <2> SUFFICES ASSUME Init PROVE LossInv
    BY TypeInit
  <2>1. /\ faults = 0 /\ \A b \in Bets : debits[b] = 0 /\ status[b] = "NONE"
        /\ \A r \in Replicas : paying[r] = {} /\ settlePc[r] = "fetch"
    BY DEF Init, StoreInit, SettleReader!ConsumerInit
  <2>2. StakesLost = {} /\ PayoutsLost = {} /\ PayingInv
    BY <2>1 DEF StakesLost, PayoutsLost, WonBets, PayingInv
  <2> QED
    BY <2>1, <2>2, FS_EmptySet DEF LossInv
<1>2. TypeOK /\ LossInv /\ [Next]_vars => TypeOK' /\ LossInv'
  BY TypeStep, LossStep
<1>3. LossInv => LossesNeedFaults
  BY DEF LossInv, LossesNeedFaults, StakesLost, PayoutsLost
<1> QED
  BY <1>1, <1>2, <1>3, PTL DEF Spec

-----------------------------------------------------------------------------
\* What is read is answered.

\* No call fails, no process dies, idempotency keys last.
Steady == Env \cap {"call", "crash", "ttl"} = {}

\* The messages of bets.placed whose bet's key was claimed.
Accounted ==
  {m \in BetPartitions \X Nat : /\ m[2] \in DOMAIN betLog[m[1]]
                                /\ betLog[m[1]][m[2]] \in keys}

AnsweringLabels == ValidatingLabels \cup {"save"}

\* What a client was told is accepted is on the topic, under its user's key.
AcceptedInv ==
  \A b \in Bets : reply[b] = "accepted" =>
    \E i \in DOMAIN betLog[BetPartition[Slip[b].user]] :
      betLog[BetPartition[Slip[b].user]][i] = b

\* The strengthening.  A handler past its check has claimed the bet's key; a bet
\* is refused by the handler that claimed it, before its stake is taken; a claimed
\* bet is answered or some handler is about to answer it; the messages of
\* bets.placed are taken in order; and an accepted bet is among them.
AnswerInv ==
  /\ \A r \in Replicas : betPc[r] \in BetLabels \ {"check"} => Bet(r) \in keys
  /\ \A b \in Bets : Refusals(b) # {} => b \in keys /\ debits[b] = 0
  /\ \A r \in Replicas : betPc[r] \in ValidatingLabels => Refusals(Bet(r)) = {}
  /\ \A b \in keys : \/ status[b] # "NONE" \/ Refusals(b) # {}
                     \/ \E r \in Replicas : betPc[r] \in AnsweringLabels /\ Bet(r) = b
  /\ AcceptedInv
  /\ BetsLemmas!Orderly(Accounted)

\* Refusals only accumulate, and, when no call fails, each is the last step of a
\* handler that had not taken the stake.
LEMMA AnswerSteps ==
  ASSUME Steady, TypeOK, [Next]_vars, NEW b \in Bets, Refusals(b)' # Refusals(b)
  PROVE  /\ Refusals(b) \subseteq Refusals(b)' /\ UNCHANGED money
         /\ \E r \in Replicas : /\ betPc[r] \in ValidatingLabels /\ b = Bet(r)
                                /\ betPc'[r] = "commit"
<1>0. /\ rejected \in [Bets -> SUBSET {"duplicate", "market_suspended",
                                      "odds_changed", "insufficient_balance"}]
      /\ betPc \in [Replicas -> BetLabels \cup {"fetch", "commit"}]
  BY DEF TypeOK, StoreTypeOK, BooksTypeOK, BetsReader!ConsumerTypeOK
<1>1. rejected' # rejected
  BY DEF Refusals
<1>2. PICK r \in Replicas : HandleBetPlaced(r)
  BY <1>1, BetLocalsWriters DEF betLocals, Crash
<1>3. ASSUME Check(r) \/ SaveBet(r) \/ SaveDebitTx(r) \/ PublishDebitTx(r)
      PROVE  FALSE
  <2>1. UNCHANGED rejected \/ Reject(Bet(r), "duplicate")
    BY <1>3 DEF Check, SaveBet, SaveDebitTx, PublishDebitTx, betLocals
  <2> QED
    BY <1>0, <2>1 DEF Reject, Refusals
<1>4. Suspension(r) \/ Odds(r) \/ DebitStake(r)
  BY <1>2, <1>3 DEF HandleBetPlaced
<1>5. betPc[r] \in ValidatingLabels
  BY <1>4 DEF Suspension, Odds, DebitStake, ValidatingLabels
<1>6. /\ UNCHANGED money /\ BetsReader!ReturnNil(r)
      /\ \E reason : Reject(Bet(r), reason)
  BY <1>1, <1>4 DEF Suspension, Odds, DebitStake, DebitRefused, CallFails, Steady
<1>7. b = Bet(r) /\ Refusals(b) \subseteq Refusals(b)'
  BY <1>0, <1>6 DEF Reject, Refusals
<1> QED
  BY <1>0, <1>5, <1>6, <1>7 DEF BetsReader!ReturnNil, BetsReader!Goto

LEMMA SteadyKeys == Steady => KeysLast
BY DEF Steady, KeysLast

\* Which steps bring a handler past its check: only those of its own loop.
LEMMA ReachesClaimed ==
  ASSUME TypeOK, [Next]_vars, NEW r \in Replicas, betPc'[r] \in BetLabels \ {"check"}
  PROVE  betPc[r] \in BetLabels \ {"check"} \/ (Check(r) /\ Claim(Bet(r)))
<1>0. betPc \in [Replicas -> BetLabels \cup {"fetch", "commit"}]
  BY DEF TypeOK, StoreTypeOK, BetsReader!ConsumerTypeOK
<1> USE DEF BetLabels, ValidatingLabels
<1>1. CASE RunBets(r)
  BY <1>0, <1>1 DEF RunBets, BetLoop, HandleBetPlaced, Check, Suspension, Odds,
       SuspensionUnknown, DebitStake, DebitRefused, SaveBet, SaveDebitTx, PublishDebitTx,
       BetsReader!Goto, BetsReader!ReturnNil, BetsReader!ReturnError,
       BetsReader!Fetch, BetsReader!Commit
<1>2. CASE Crash(r)
  BY <1>0, <1>2 DEF Crash, BetsReader!Crash
<1> QED
  BY <1>1, <1>2, BetPcWriters

LEMMA ClaimedStays ==
  ASSUME Steady, TypeOK, AnswerInv, [Next]_vars,
         NEW r \in Replicas, betPc'[r] \in BetLabels \ {"check"}
  PROVE  (Bet(r) \in keys)'
<1>1. betPc[r] # "fetch" /\ betPc'[r] # "fetch"
  BY ReachesClaimed DEF Check, BetLabels, ValidatingLabels
<1>2. Bet(r)' = Bet(r)
  BY <1>1, BetStays
<1>3. keys \subseteq keys'
  BY SteadyKeys, KeysGrow
<1> QED
  BY <1>2, <1>3, ReachesClaimed DEF AnswerInv, Claim

LEMMA RefusedStays ==
  ASSUME Steady, TypeOK, ClaimInv, AnswerInv, [Next]_vars,
         NEW b \in Bets, Refusals(b)' # {}
  PROVE  b \in keys' /\ debits'[b] = 0
<1>1. keys \subseteq keys'
  BY SteadyKeys, KeysGrow
<1>2. CASE Refusals(b)' = Refusals(b)
  <2>1. b \in keys /\ debits[b] = 0
    BY <1>2 DEF AnswerInv
  <2>2. ASSUME NEW r \in Replicas, DebitStake(r), b = Bet(r) PROVE FALSE
    BY <1>2, <2>2 DEF AnswerInv, DebitStake, ValidatingLabels
  <2> QED
    BY <1>1, <2>1, <2>2, DebitSteps
<1>3. CASE Refusals(b)' # Refusals(b)
  BY <1>1, <1>3, AnswerSteps DEF ClaimInv, money
<1> QED
  BY <1>2, <1>3

LEMMA ValidatingUnrefused ==
  ASSUME Steady, TypeOK, ClaimInv, AnswerInv, [Next]_vars,
         NEW r \in Replicas, betPc'[r] \in ValidatingLabels
  PROVE  (Refusals(Bet(r)) = {})'
<1> DEFINE b == Bet(r)
<1>1. /\ b' = b /\ b \in Bets
      /\ \/ betPc[r] \in ValidatingLabels
         \/ Check(r) /\ b \notin keys
  BY ValidatingBet
<1>2. Refusals(b) = {}
  BY <1>1 DEF AnswerInv
<1> HIDE DEF b
<1>3. ASSUME NEW q \in Replicas, betPc[q] \in ValidatingLabels, b = Bet(q),
             betPc'[q] = "commit"
      PROVE  FALSE
  <2>1. q # r /\ b \in keys
    BY <1>3 DEF ValidatingLabels, ClaimInv
  <2> QED
    BY <1>1, <1>3, <2>1 DEF ClaimInv, b
<1>4. rejected'[b] \ {"duplicate"} = {}
  BY <1>1, <1>2, <1>3, AnswerSteps DEF Refusals
<1> QED
  BY <1>1, <1>4 DEF Refusals, b

\* A handler that was to answer its bet still is, or has answered it.
LEMMA AnswersItsBet ==
  ASSUME Steady, TypeOK, [Next]_vars,
         NEW r \in Replicas, betPc[r] \in AnsweringLabels,
         betPc'[r] \notin AnsweringLabels, NEW b, b = Bet(r)
  PROVE  status'[b] # "NONE" \/ Refusals(b)' # {}
<1>0. /\ betPc \in [Replicas -> BetLabels \cup {"fetch", "commit"}]
      /\ status \in [Bets -> BetStatus]
      /\ rejected \in [Bets -> SUBSET {"duplicate", "market_suspended",
                                      "odds_changed", "insufficient_balance"}]
  BY DEF TypeOK, StoreTypeOK, BooksTypeOK, BetsReader!ConsumerTypeOK
<1> USE DEF AnsweringLabels, ValidatingLabels
<1>1. betPc'[r] # betPc[r] /\ betPc[r] \notin {"fetch", "commit"}
  OBVIOUS
<1>2. HandleBetPlaced(r)
  BY <1>1, BetPcWriters DEF RunBets, BetLoop, BetsReader!Fetch, BetsReader!Commit, Crash,
                            Steady
<1>3. b \in Bets
  BY <1>1, InHand DEF TypeOK
<1>4. CASE SaveBet(r)
  BY <1>0, <1>3, <1>4 DEF SaveBet, CallFails, Steady
<1>5. CASE Suspension(r) \/ Odds(r) \/ DebitStake(r)
  <2>0. /\ ~BetsReader!Goto(r, "odds") /\ ~BetsReader!Goto(r, "debit")
        /\ ~BetsReader!Goto(r, "save") /\ ~CallFails
    BY <1>0 DEF BetsReader!Goto, CallFails, Steady
  <2>1. \E reason \in {"market_suspended", "odds_changed", "insufficient_balance"} :
          Reject(b, reason)
    BY <2>0, <1>5 DEF Suspension, Odds, DebitStake, DebitRefused
  <2> HIDE DEF AnsweringLabels, ValidatingLabels
  <2> QED
    BY <1>0, <1>3, <2>1 DEF Reject, Refusals
<1> QED
  BY <1>1, <1>2, <1>4, <1>5 DEF HandleBetPlaced, Check, SaveDebitTx, PublishDebitTx

\* A key is claimed by a handler that goes on to answer its bet.
LEMMA NewKeys ==
  ASSUME Steady, TypeOK, [Next]_vars, NEW b \in keys', b \notin keys
  PROVE  \E r \in Replicas : betPc'[r] \in AnsweringLabels /\ Bet(r)' = b
<1>0. betPc \in [Replicas -> BetLabels \cup {"fetch", "commit"}]
  BY DEF TypeOK, StoreTypeOK, BetsReader!ConsumerTypeOK
<1>1. PICK r \in Replicas : Check(r)
  BY RedisWriters DEF Steady, KeyExpires, SuspendMarket, SuspensionLapses,
                      OddsWritten, OddsExpire, redis
<1>2. b = Bet(r) /\ BetsReader!Goto(r, "suspension")
  BY <1>1 DEF Check, Claim, CallFails, Steady
<1>3. betPc'[r] = "suspension" /\ Bet(r)' = Bet(r)
  BY <1>0, <1>2 DEF BetsReader!Goto, Bet, BetsReader!Current
<1> QED
  BY <1>2, <1>3 DEF AnsweringLabels, ValidatingLabels

LEMMA ClaimedIsAnswered ==
  ASSUME Steady, TypeOK, AnswerInv, [Next]_vars, NEW b \in keys'
  PROVE  \/ status'[b] # "NONE" \/ Refusals(b)' # {}
         \/ \E r \in Replicas : betPc'[r] \in AnsweringLabels /\ Bet(r)' = b
<1>1. b \in Bets
  BY TypeStep DEF TypeOK, StoreTypeOK, RedisTypeOK
<1>2. CASE b \notin keys
  BY <1>2, NewKeys
<1>3. CASE b \in keys /\ status[b] # "NONE"
  BY <1>1, <1>3, StatusSteps, SlipTypes
<1>4. CASE b \in keys /\ Refusals(b) # {}
  BY <1>1, <1>4, AnswerSteps
<1>5. ASSUME NEW r \in Replicas, betPc[r] \in AnsweringLabels, Bet(r) = b,
             betPc'[r] \in AnsweringLabels
      PROVE  Bet(r)' = b
  BY <1>5, BetStays DEF AnsweringLabels, ValidatingLabels
<1>6. ASSUME NEW r \in Replicas, betPc[r] \in AnsweringLabels, Bet(r) = b,
             betPc'[r] \notin AnsweringLabels
      PROVE  status'[b] # "NONE" \/ Refusals(b)' # {}
  BY <1>6, AnswersItsBet
<1>7. b \in keys => \/ status[b] # "NONE" \/ Refusals(b) # {}
                    \/ \E r \in Replicas : betPc[r] \in AnsweringLabels /\ Bet(r) = b
  BY DEF AnswerInv
<1>8. ASSUME NEW r \in Replicas, betPc[r] \in AnsweringLabels, Bet(r) = b
      PROVE  \/ status'[b] # "NONE" \/ Refusals(b)' # {}
             \/ \E q \in Replicas : betPc'[q] \in AnsweringLabels /\ Bet(q)' = b
  BY <1>5, <1>6, <1>8
<1> QED
  BY <1>2, <1>3, <1>4, <1>7, <1>8

-----------------------------------------------------------------------------
\* The messages are taken in order.

LEMMA SameBetsReader ==
  ASSUME TypeOK, [Next]_vars
  PROVE  /\ BetsLemmas!ConsumerTypeOK(Bets, BetLabels)
         /\ BetsLemmas!ReaderStep(Bets, BetLabels)
<1>1. BetsReader!ConsumerTypeOK(Bets, BetLabels) /\ BetsReader!ReaderStep(Bets, BetLabels)
  BY BetsStep DEF TypeOK, StoreTypeOK
<1>2. BetsLemmas!ConsumerTypeOK(Bets, BetLabels)
  BY <1>1 DEF BetsLemmas!ConsumerTypeOK, BetsReader!ConsumerTypeOK
<1>3. BetsLemmas!ReaderStep(Bets, BetLabels)
  BY <1>1 DEF BetsReader!ReaderStep, BetsLemmas!ReaderStep,
         BetsReader!Produce, BetsLemmas!Produce, BetsReader!Fetch, BetsLemmas!Fetch,
         BetsReader!ReturnError, BetsLemmas!ReturnError,
         BetsReader!Crash, BetsLemmas!Crash, BetsReader!Resume, BetsLemmas!Resume,
         BetsReader!Goto, BetsLemmas!Goto, BetsReader!Commit, BetsLemmas!Commit,
         BetsReader!Offset, BetsLemmas!Offset,
         BetsReader!Rebalance, BetsLemmas!Rebalance,
         BetsReader!consumerVars, BetsLemmas!consumerVars
<1> QED
  BY <1>2, <1>3

LEMMA BetLogGrows ==
  ASSUME TypeOK, [Next]_vars, NEW p \in BetPartitions, NEW i \in DOMAIN betLog[p]
  PROVE  i \in DOMAIN betLog'[p] /\ betLog'[p][i] = betLog[p][i]
<1>1. /\ Len(betLog[p]) \in Nat /\ Len(betLog'[p]) \in Nat
      /\ Len(betLog[p]) <= Len(betLog'[p])
      /\ \A k \in 1..Len(betLog[p]) : betLog'[p][k] = betLog[p][k]
  BY SameBetsReader, BetsLemmas!LogOnlyGrows
<1>2. betLog[p] \in Seq(Bets) /\ betLog'[p] \in Seq(Bets)
  BY TypeStep DEF TypeOK, StoreTypeOK, BetsReader!ConsumerTypeOK
<1>3. DOMAIN betLog[p] = 1..Len(betLog[p]) /\ DOMAIN betLog'[p] = 1..Len(betLog'[p])
  BY <1>2
<1> QED
  BY <1>1, <1>3

LEMMA AcceptedIsOnTheTopic ==
  ASSUME TypeOK, AcceptedInv, [Next]_vars, NEW b \in Bets, reply'[b] = "accepted"
  PROVE  \E i \in DOMAIN betLog'[BetPartition[Slip[b].user]] :
           betLog'[BetPartition[Slip[b].user]][i] = b
<1> DEFINE p == BetPartition[Slip[b].user]
<1>0. /\ p \in BetPartitions
      /\ betLog \in [BetPartitions -> Seq(Bets)]
      /\ reply \in [Bets -> {"none", "accepted", "error"}]
  BY SlipTypes, StoreAssumption DEF TypeOK, StoreTypeOK, ApiTypeOK,
     BetsReader!ConsumerTypeOK
<1>1. CASE reply[b] = "accepted"
  <2>1. PICK i \in DOMAIN betLog[p] : betLog[p][i] = b
    BY <1>1 DEF AcceptedInv
  <2> QED
    BY <1>0, <2>1, BetLogGrows
<1>2. ASSUME NEW c \in Bets, PlaceBet(c), reply[b] # "accepted"
      PROVE  \E i \in DOMAIN betLog'[p] : betLog'[p][i] = b
  <2>1. PICK n \in 0..2, answered \in BOOLEAN :
          /\ Written(n, answered)
          /\ PublishBetPlaced(n, c)
          /\ reply' = [reply EXCEPT ![c] = IF answered THEN "accepted" ELSE "error"]
    BY <1>2 DEF PlaceBet
  <2>2. c = b /\ answered
    BY <1>0, <1>2, <2>1
  <2>3. n \in {1, 2}
    BY <2>1, <2>2 DEF Written
  <2>4. betLog'[p] = betLog[p] \o Copies(n, b)
    BY <1>0, <2>1, <2>2 DEF PublishBetPlaced, BetsReader!Produce
  <2>5. /\ Copies(n, b) \in Seq(Bets) /\ Len(Copies(n, b)) = n
        /\ Copies(n, b)[1] = b
    BY <2>3, CopiesType DEF Copies
  <2>6. betLog[p] \in Seq(Bets) /\ Len(betLog[p]) \in Nat
    BY <1>0
  <2> HIDE DEF p
  <2>7. /\ Len(betLog[p]) + 1 \in DOMAIN betLog'[p]
        /\ betLog'[p][Len(betLog[p]) + 1] = b
    BY <2>3, <2>4, <2>5, <2>6
  <2> QED
    BY <2>7
<1>3. UNCHANGED reply \/ \E c \in Bets : PlaceBet(c)
  BY DEF Next, vars, api, RunBets, RunSettlement, Crash, KeyExpires, SuspendMarket,
         SuspensionLapses, OddsWritten, OddsExpire, RedisFrame, Rebalance, SettleMarket,
         MarkSettled
<1> QED
  BY <1>1, <1>2, <1>3

LEMMA AccountedStays == Steady /\ TypeOK /\ [Next]_vars => Accounted \subseteq Accounted'
<1> SUFFICES ASSUME Steady, TypeOK, [Next]_vars, NEW m \in Accounted
             PROVE  m \in Accounted'
  OBVIOUS
<1>1. /\ m \in BetPartitions \X Nat /\ m[1] \in BetPartitions
      /\ m[2] \in DOMAIN betLog[m[1]] /\ betLog[m[1]][m[2]] \in keys
  BY DEF Accounted
<1>2. m[2] \in DOMAIN betLog'[m[1]] /\ betLog'[m[1]][m[2]] = betLog[m[1]][m[2]]
  BY <1>1, BetLogGrows
<1>3. keys \subseteq keys'
  BY SteadyKeys, KeysGrow
<1> QED
  BY <1>1, <1>2, <1>3 DEF Accounted

\* A handler that returns has claimed its bet's key or found it claimed.
LEMMA ReturnsAccounted ==
  ASSUME Steady, TypeOK, AnswerInv, [Next]_vars, NEW r \in Replicas,
         betPc[r] \in BetLabels, betPc'[r] \in {"fetch", "commit"}
  PROVE  betAt[r] \in Accounted
<1>0. /\ betPc \in [Replicas -> BetLabels \cup {"fetch", "commit"}]
      /\ betLog \in [BetPartitions -> Seq(Bets)]
      /\ betPc[r] \notin {"fetch", "commit"}
  BY DEF TypeOK, StoreTypeOK, BetsReader!ConsumerTypeOK, BetLabels, ValidatingLabels
<1>1. betAt[r] \in BetPartitions \X Nat /\ betAt[r][2] \in DOMAIN betLog[betAt[r][1]]
  BY <1>0 DEF TypeOK, StoreTypeOK, BetsReader!ConsumerTypeOK
<1>2. Bet(r) \in keys
  <2>1. CASE betPc[r] # "check"
    BY <2>1 DEF AnswerInv
  <2>2. CASE betPc[r] = "check"
    <3>1. Check(r)
      BY <1>0, <2>2, BetPcWriters DEF RunBets, BetLoop, HandleBetPlaced, Suspension, Odds,
         DebitStake, SaveBet, SaveDebitTx, PublishDebitTx, BetsReader!Fetch,
         BetsReader!Commit, Crash, Steady
    <3> QED
      BY <1>0, <3>1 DEF Check, CallFails, Steady, BetsReader!Goto
  <2> QED
    BY <2>1, <2>2
<1> QED
  BY <1>1, <1>2 DEF Accounted, Bet, BetsReader!Current

LEMMA BetsInOrder ==
  ASSUME Steady, TypeOK, AnswerInv, [Next]_vars
  PROVE  BetsLemmas!Orderly(Accounted)'
<1> SUFFICES ASSUME NEW D, D = Accounted, NEW N, N = Accounted'
             PROVE  BetsLemmas!Orderly(N)'
  OBVIOUS
<1>1. {"fetch", "commit"} \cap BetLabels = {} /\ "check" \in BetLabels
  BY DEF BetLabels, ValidatingLabels
<1>2. /\ BetsLemmas!ConsumerTypeOK(Bets, BetLabels)
      /\ BetsLemmas!ReaderStep(Bets, BetLabels)
  BY SameBetsReader
<1>3. D \subseteq N /\ BetsLemmas!Orderly(D)
  BY AccountedStays DEF AnswerInv
<1>4. ASSUME NEW r \in Replicas, betPc[r] \in BetLabels, betPc'[r] \in {"fetch", "commit"}
      PROVE  betAt[r] \in N \/ BetsLemmas!Crash(r)
  BY <1>3, <1>4, ReturnsAccounted
<1> QED
  BY <1>1, <1>2, <1>3, <1>4, BetsLemmas!OrderlyStep

LEMMA AnswerStep ==
  Steady /\ TypeOK /\ ClaimInv /\ AnswerInv /\ [Next]_vars => AnswerInv'
<1> SUFFICES ASSUME Steady, TypeOK, ClaimInv, AnswerInv, [Next]_vars PROVE AnswerInv'
  OBVIOUS
<1>1. \A r \in Replicas : betPc'[r] \in BetLabels \ {"check"} => (Bet(r) \in keys)'
  BY ClaimedStays
<1>2. \A b \in Bets : Refusals(b)' # {} => b \in keys' /\ debits'[b] = 0
  BY RefusedStays
<1>3. \A r \in Replicas : betPc'[r] \in ValidatingLabels => (Refusals(Bet(r)) = {})'
  BY ValidatingUnrefused
<1>4. \A b \in keys' :
        \/ status'[b] # "NONE" \/ Refusals(b)' # {}
        \/ \E r \in Replicas : betPc'[r] \in AnsweringLabels /\ Bet(r)' = b
  BY ClaimedIsAnswered
<1>5. AcceptedInv'
  BY AcceptedIsOnTheTopic DEF AnswerInv, AcceptedInv
<1>6. BetsLemmas!Orderly(Accounted)'
  BY BetsInOrder
<1> QED
  BY <1>1, <1>2, <1>3, <1>4, <1>5, <1>6 DEF AnswerInv, AnsweringLabels, ValidatingLabels,
                                            BetLabels

LEMMA AnswerInit == Init => AnswerInv
<1> SUFFICES ASSUME Init PROVE AnswerInv
  OBVIOUS
<1>1. /\ \A r \in Replicas : betPc[r] = "fetch"
      /\ \A b \in Bets : Refusals(b) = {} /\ reply[b] = "none"
      /\ keys = {}
      /\ \A p \in BetPartitions : betCommitted[p] = 0 /\ betPos[p] = 0
  BY DEF Init, StoreInit, ApiInit, BetsReader!ConsumerInit, Refusals
<1>2. BetsLemmas!Orderly(Accounted)
  BY <1>1 DEF BetsLemmas!Orderly
<1> QED
  BY <1>1, <1>2 DEF AnswerInv, AcceptedInv, AnsweringLabels, ValidatingLabels, BetLabels

\* README.md:195, "Duplicate messages are handled": while calls succeed, processes
\* live and keys last, any number of processes, rebalances and duplicates leave no
\* accepted bet skipped, none with a stake taken and no bet to show for it, and
\* none both refused and on the books.
THEOREM AcceptedBetsAreAnswered ==
  ASSUME Steady
  PROVE  Spec => []ReadBetIsAnswered
<1> DEFINE Inv == TypeOK /\ DebitedInv /\ ClaimInv /\ AnswerInv
<1>1. Init => Inv
  BY TypeInit, DebitedInit, ClaimInit, AnswerInit
<1>2. Inv /\ [Next]_vars => Inv'
  BY SteadyKeys, TypeStep, DebitedStep, ClaimStep, AnswerStep
<1>3. Inv => ReadBetIsAnswered
  <2> SUFFICES ASSUME Inv, AtRest, NEW b \in Bets, reply[b] = "accepted"
               PROVE  /\ status[b] # "NONE" <=> Refusals(b) = {}
                      /\ debits[b] = (IF status[b] = "NONE" THEN 0 ELSE 1)
    BY DEF ReadBetIsAnswered
  <2>0. debits[b] \in Nat /\ debits[b] <= 1
    BY DEF TypeOK, StoreTypeOK, MoneyTypeOK, ClaimInv, AtMostOneDebit
  <2>1. \A r \in Replicas : betPc[r] = "fetch"
    BY DEF AtRest
  <2> DEFINE p == BetPartition[Slip[b].user]
  <2>2. PICK i \in DOMAIN betLog[p] : betLog[p][i] = b
    BY DEF AnswerInv, AcceptedInv
  <2>3. /\ p \in BetPartitions /\ betOwner[p] \in Replicas
        /\ betLog[p] \in Seq(Bets) /\ betPos[p] = Len(betLog[p])
    BY SlipTypes, StoreAssumption DEF TypeOK, StoreTypeOK, BetsReader!ConsumerTypeOK, AtRest
  <2>4. i \in 1..betPos[p]
    BY <2>2, <2>3
  <2>5. <<p, i>> \in Accounted
    BY <2>1, <2>3, <2>4 DEF AnswerInv, BetsLemmas!Orderly
  <2>6. b \in keys
    BY <2>2, <2>5 DEF Accounted
  <2>7. status[b] # "NONE" \/ Refusals(b) # {}
    BY <2>1, <2>6 DEF AnswerInv, AnsweringLabels, ValidatingLabels
  <2>8. Refusals(b) # {} => debits[b] = 0
    BY DEF AnswerInv
  <2>9. status[b] # "NONE" => debits[b] > 0
    BY DEF DebitedInv, PersistedWasDebited
  <2> QED
    BY <2>0, <2>7, <2>8, <2>9
<1> QED
  BY <1>1, <1>2, <1>3, PTL DEF Spec

-----------------------------------------------------------------------------
\* A bet is silenced by a fault of its own.

\* Handlers that are to answer the bet they hold.  One that is still to look for a key
\* that is set will take its bet for a duplicate, and is not among them.
Answers(r, b) ==
  /\ Bet(r) = b
  /\ betPc[r] \in AnsweringLabels \/ (betPc[r] = "check" /\ b \notin keys)

\* Bets whose key is set or whose message was fetched.
Met(b) ==
  \/ b \in keys
  \/ \E p \in BetPartitions : \E i \in DOMAIN betLog[p] :
       betLog[p][i] = b /\ BetsLemmas!Reached(p, i)

\* Of these, the ones with no answer and nobody to give it.
Silenced ==
  {b \in Bets : /\ Met(b) /\ status[b] = "NONE" /\ Refusals(b) = {}
                /\ \A r \in Replicas : ~Answers(r, b)}

\* A bet is met when it is fetched, by the process that then holds it.
LEMMA MetSteps ==
  ASSUME TypeOK, [Next]_vars, NEW b \in Bets, Met(b)'
  PROVE  \/ Met(b)
         \/ \E r \in Replicas : BetsReader!Fetch(r) /\ Bet(r)' = b
<1>1. ASSUME b \in keys', b \notin keys PROVE Met(b)
  <2>1. PICK r \in Replicas : Check(r)
    BY <1>1, RedisWriters DEF KeyExpires, SuspendMarket, SuspensionLapses,
                              OddsWritten, OddsExpire, redis
  <2>2. b = Bet(r) /\ betPc[r] = "check"
    BY <1>1, <2>1 DEF Check, Claim
  <2>3. /\ betAt[r][1] \in BetPartitions
        /\ betAt[r][2] \in DOMAIN betLog[betAt[r][1]]
        /\ betAt[r][2] \in Nat
    BY <2>2 DEF TypeOK, StoreTypeOK, BetsReader!ConsumerTypeOK
  <2>4. BetsLemmas!Reached(betAt[r][1], betAt[r][2])
    BY <2>2, <2>3 DEF BetsLemmas!Reached
  <2> QED
    BY <2>2, <2>3, <2>4 DEF Met, Bet, BetsReader!Current
<1>2. ASSUME NEW p \in BetPartitions, NEW i \in DOMAIN betLog'[p],
             betLog'[p][i] = b, BetsLemmas!Reached(p, i)'
      PROVE  Met(b) \/ \E r \in Replicas : BetsReader!Fetch(r) /\ Bet(r)' = b
  <2>1. "check" \in BetLabels
    BY DEF BetLabels
  <2>2. /\ i \in DOMAIN betLog[p]
        /\ \/ BetsLemmas!Reached(p, i)
           \/ \E r \in Replicas : BetsLemmas!Fetch(r) /\ betAt'[r] = <<p, i>>
    BY <1>2, <2>1, SameBetsReader, BetsLemmas!ReachedSteps
  <2>3. betLog[p][i] = b
    BY <1>2, <2>2, BetLogGrows
  <2>4. ASSUME NEW r \in Replicas, BetsLemmas!Fetch(r), betAt'[r] = <<p, i>>
        PROVE  BetsReader!Fetch(r) /\ Bet(r)' = b
    <3>1. BetsReader!Fetch(r)
      BY <2>4 DEF BetsLemmas!Fetch, BetsReader!Fetch
    <3>2. Bet(r)' = betLog'[p][i]
      BY <2>4 DEF Bet, BetsReader!Current
    <3> QED
      BY <1>2, <3>1, <3>2
  <2> QED
    BY <2>2, <2>3, <2>4 DEF Met
<1> QED
  BY <1>1, <1>2 DEF Met

\* One handler moves at a time.
LEMMA OneHandlerMoves ==
  ASSUME TypeOK, [Next]_vars, NEW r \in Replicas, betPc'[r] # betPc[r],
         NEW q \in Replicas, betPc'[q] # betPc[q]
  PROVE  q = r
<1>0. betPc \in [Replicas -> BetLabels \cup {"fetch", "commit"}]
  BY DEF TypeOK, StoreTypeOK, BetsReader!ConsumerTypeOK
<1>1. \/ UNCHANGED betPc
      \/ \E k \in Replicas : \E label : betPc' = [betPc EXCEPT ![k] = label]
  BY SameBetsReader DEF BetsLemmas!ReaderStep, BetsLemmas!Fetch, BetsLemmas!ReturnError,
     BetsLemmas!Crash, BetsLemmas!Goto, BetsLemmas!Commit, BetsLemmas!Rebalance,
     BetsLemmas!consumerVars
<1> QED
  BY <1>0, <1>1

\* The end of a check whose bet is not answered after it.
LEMMA CheckFails ==
  ASSUME TypeOK, [Next]_vars, NEW r \in Replicas, Check(r),
         NEW b, b = Bet(r), b \notin keys, ~Answers(r, b)'
  PROVE  faults' = faults + 1 /\ betPc'[r] # betPc[r]
<1>0. /\ betPc \in [Replicas -> BetLabels \cup {"fetch", "commit"}]
      /\ betPc[r] = "check"
  BY DEF TypeOK, StoreTypeOK, BetsReader!ConsumerTypeOK, Check
<1>1. ~BetsReader!Goto(r, "suspension")
  BY <1>0 DEF BetsReader!Goto, Answers, AnsweringLabels, ValidatingLabels, Bet,
              BetsReader!Current
<1>2. CallFails /\ (BetsReader!ReturnNil(r) \/ BetsReader!ReturnError(r))
  BY <1>1 DEF Check
<1> QED
  BY <1>0, <1>2 DEF CallFails, Fault, BetsReader!ReturnNil, BetsReader!ReturnError,
                    BetsReader!Goto

\* A bet loses all who were to answer it, and has no answer, only when a fault stops
\* one of them.
LEMMA AnswersOrFails ==
  ASSUME TypeOK, [Next]_vars, NEW r \in Replicas, NEW b \in Bets, Answers(r, b),
         \A q \in Replicas : ~Answers(q, b)', status'[b] = "NONE", Refusals(b)' = {}
  PROVE  /\ faults' = faults + 1
         /\ \E q \in Replicas : Bet(q) = b /\ betPc'[q] # betPc[q]
<1>0. /\ betPc \in [Replicas -> BetLabels \cup {"fetch", "commit"}]
      /\ status \in [Bets -> BetStatus]
      /\ rejected \in [Bets -> SUBSET {"duplicate", "market_suspended",
                                      "odds_changed", "insufficient_balance"}]
      /\ keys \subseteq Bets
  BY DEF TypeOK, StoreTypeOK, BooksTypeOK, RedisTypeOK, BetsReader!ConsumerTypeOK
<1>1. betPc[r] \in {"check", "suspension", "odds", "debit", "save"} /\ Bet(r) = b
  BY DEF Answers, AnsweringLabels, ValidatingLabels
<1>2. ASSUME NEW q \in Replicas, Check(q), b = Bet(q), b \notin keys
      PROVE  faults' = faults + 1 /\ betPc'[q] # betPc[q]
  BY <1>2, CheckFails
<1>3. CASE betPc'[r] = betPc[r]
  <2>1. Bet(r)' = b
    BY <1>1, <1>3, BetStays
  <2>2. b \notin keys /\ b \in keys'
    BY <1>3, <2>1 DEF Answers
  <2>3. PICK q \in Replicas : Check(q)
    BY <2>2, RedisWriters DEF KeyExpires, SuspendMarket, SuspensionLapses,
                              OddsWritten, OddsExpire, redis
  <2>4. b = Bet(q)
    BY <2>2, <2>3 DEF Check, Claim
  <2> QED
    BY <1>2, <2>2, <2>3, <2>4
<1>4. CASE betPc'[r] # betPc[r]
  <2>1. CASE Crash(r)
    BY <1>1, <1>4, <2>1 DEF Crash, Fault
  <2>2. CASE Check(r)
    <3>1. b \notin keys
      BY <2>2 DEF Check, Answers, AnsweringLabels, ValidatingLabels
    <3> QED
      BY <1>1, <1>2, <2>2, <3>1
  <2>3. ASSUME BetsReader!Goto(r, "odds") \/ BetsReader!Goto(r, "debit")
                 \/ BetsReader!Goto(r, "save")
        PROVE  FALSE
    <3>1. betPc'[r] \in AnsweringLabels
      BY <1>0, <2>3 DEF BetsReader!Goto, AnsweringLabels, ValidatingLabels
    <3>2. Bet(r)' = b
      BY <1>1, <3>1, BetStays DEF AnsweringLabels, ValidatingLabels
    <3> QED
      BY <3>1, <3>2 DEF Answers
  <2>4. ASSUME NEW reason \in {"market_suspended", "odds_changed", "insufficient_balance"},
               Reject(b, reason), ~CallFails
        PROVE  FALSE
    BY <1>0, <2>4 DEF Reject, Refusals
  <2>5. CASE Suspension(r) \/ Odds(r)
    <3>1. CallFails
      BY <1>1, <2>3, <2>4, <2>5 DEF Suspension, Odds
    <3> QED
      BY <1>1, <1>4, <3>1 DEF CallFails, Fault
  <2>6. CASE DebitStake(r)
    <3>1. CallFails
      BY <1>1, <2>3, <2>4, <2>6 DEF DebitStake, DebitRefused
    <3> QED
      BY <1>1, <1>4, <3>1 DEF CallFails, Fault
  <2>7. CASE SaveBet(r)
    <3>1. status[b] # "NONE" => status'[b] # "NONE"
      BY StatusSteps, SlipTypes
    <3>2. CallFails
      BY <1>0, <1>1, <2>7, <3>1 DEF SaveBet
    <3> QED
      BY <1>1, <1>4, <3>2 DEF CallFails, Fault
  <2>8. HandleBetPlaced(r) \/ Crash(r)
    BY <1>1, <1>4, BetPcWriters DEF RunBets, BetLoop, BetsReader!Fetch, BetsReader!Commit
  <2>9. ~SaveDebitTx(r) /\ ~PublishDebitTx(r)
    BY <1>1 DEF SaveDebitTx, PublishDebitTx
  <2> QED
    BY <2>1, <2>2, <2>5, <2>6, <2>7, <2>8, <2>9 DEF HandleBetPlaced
<1> QED
  BY <1>3, <1>4

LEMMA RefusalsStay ==
  ASSUME TypeOK, [Next]_vars, NEW b \in Bets
  PROVE  Refusals(b) \subseteq Refusals(b)'
<1>0. rejected \in [Bets -> SUBSET {"duplicate", "market_suspended",
                                    "odds_changed", "insufficient_balance"}]
  BY DEF TypeOK, StoreTypeOK, BooksTypeOK
<1>1. ASSUME NEW r \in Replicas, HandleBetPlaced(r)
      PROVE  UNCHANGED rejected \/ \E reason : Reject(Bet(r), reason)
  BY <1>1 DEF HandleBetPlaced, Check, Suspension, Odds, DebitStake, DebitRefused, SaveBet,
     SaveDebitTx, PublishDebitTx, betLocals
<1>2. UNCHANGED rejected \/ \E r, reason : Reject(Bet(r), reason)
  BY <1>1, BetLocalsWriters DEF betLocals, Crash
<1> QED
  BY <1>0, <1>2 DEF Reject, Refusals

\* A bet is silenced when a handler that was to answer it stops.
LEMMA SilencedSteps ==
  ASSUME TypeOK, [Next]_vars, NEW b \in Bets, b \in Silenced', b \notin Silenced
  PROVE  /\ faults' = faults + 1
         /\ \E r \in Replicas : Bet(r) = b /\ betPc'[r] # betPc[r]
<1>1. /\ Met(b)' /\ status'[b] = "NONE" /\ Refusals(b)' = {}
      /\ \A r \in Replicas : ~Answers(r, b)'
  BY DEF Silenced
<1>2. status[b] = "NONE" /\ Refusals(b) = {}
  BY <1>1, RefusalsStay, StatusSteps, SlipTypes
<1>3. ASSUME NEW r \in Replicas, BetsReader!Fetch(r), Bet(r)' = b PROVE Met(b)
  <2>1. betPc[r] = "fetch" /\ betPc'[r] = "check"
    BY <1>3 DEF BetsReader!Fetch, TypeOK, StoreTypeOK, BetsReader!ConsumerTypeOK
  <2>2. b \in keys'
    BY <1>1, <1>3, <2>1 DEF Answers
  <2>3. ASSUME NEW q \in Replicas, Check(q) PROVE FALSE
    <3>1. q # r /\ betPc[q] = "check"
      BY <2>1, <2>3 DEF Check
    <3>2. betPc'[q] # "check"
      BY <2>3, <3>1 DEF Check, BetsReader!Goto, BetsReader!ReturnNil, BetsReader!ReturnError,
         TypeOK, StoreTypeOK, BetsReader!ConsumerTypeOK
    <3> QED
      BY <2>1, <3>1, <3>2, OneHandlerMoves
  <2>4. keys' \subseteq keys
    BY <2>3, RedisWriters DEF KeyExpires, SuspendMarket, SuspensionLapses,
                              OddsWritten, OddsExpire, redis
  <2> QED
    BY <2>2, <2>4 DEF Met
<1>4. Met(b)
  BY <1>1, <1>3, MetSteps
<1>5. \E r \in Replicas : Answers(r, b)
  BY <1>2, <1>4 DEF Silenced
<1> QED
  BY <1>1, <1>5, AnswersOrFails

LEMMA SilencedGrows ==
  ASSUME TypeOK, [Next]_vars
  PROVE  \/ Silenced' \subseteq Silenced
         \/ \E x : Silenced' \subseteq Silenced \cup {x} /\ faults' = faults + 1
<1>1. Silenced' \subseteq Bets
  BY DEF Silenced
<1>2. ASSUME NEW b \in Silenced', b \notin Silenced, NEW c \in Silenced', c \notin Silenced
      PROVE  b = c /\ faults' = faults + 1
  BY <1>1, <1>2, SilencedSteps, OneHandlerMoves
<1> QED
  BY <1>2

\* The key is set before the work and dropped messages are never read again
\* (bet_processor.go:59, consumer.go:59-67): even so, with keys that last or expire, a
\* crash or a failing call silences the one bet in hand, whatever is delivered
\* again, behind it or beside it.
THEOREM SilenceHasCauses == Spec => []SilenceNeedsFaults
<1> DEFINE Inv == /\ TypeOK /\ AcceptedInv
                  /\ IsFiniteSet(Silenced) /\ Cardinality(Silenced) <= faults
<1>1. Init => Inv
  <2> SUFFICES ASSUME Init
               PROVE  AcceptedInv /\ IsFiniteSet(Silenced) /\ Cardinality(Silenced) <= faults
    BY TypeInit
  <2>1. /\ faults = 0 /\ keys = {} /\ \A b \in Bets : reply[b] = "none"
        /\ \A p \in BetPartitions : betLog[p] = <<>>
    BY DEF Init, StoreInit, ApiInit, BetsReader!ConsumerInit
  <2>2. Silenced = {} /\ AcceptedInv
    BY <2>1 DEF Silenced, Met, AcceptedInv
  <2> QED
    BY <2>1, <2>2, FS_EmptySet
<1>2. Inv /\ [Next]_vars => Inv'
  <2> SUFFICES ASSUME Inv, [Next]_vars
               PROVE  /\ AcceptedInv'
                      /\ IsFiniteSet(Silenced') /\ Cardinality(Silenced') <= faults'
    BY TypeStep
  <2>1. faults \in Nat /\ faults' \in Nat /\ faults <= faults'
    BY FaultCount, TypeStep DEF TypeOK, StoreTypeOK, Fault
  <2>2. AcceptedInv'
    BY AcceptedIsOnTheTopic DEF AcceptedInv
  <2>3. IsFiniteSet(Silenced') /\ Cardinality(Silenced') <= faults'
    BY <2>1, SilencedGrows, PaidFor
  <2> QED
    BY <2>2, <2>3
<1>3. Inv => SilenceNeedsFaults
  <2> SUFFICES ASSUME Inv, AtRest PROVE Cardinality(Silent) <= faults
    BY DEF SilenceNeedsFaults
  <2>1. ASSUME NEW b \in Silent PROVE b \in Silenced
    <3> DEFINE p == BetPartition[Slip[b].user]
    <3>0. b \in Bets /\ reply[b] = "accepted" /\ status[b] = "NONE" /\ Refusals(b) = {}
      BY <2>1 DEF Silent
    <3>1. PICK i \in DOMAIN betLog[p] : betLog[p][i] = b
      BY <3>0 DEF AcceptedInv
    <3>2. /\ p \in BetPartitions /\ betLog[p] \in Seq(Bets)
          /\ betPos[p] = Len(betLog[p])
      BY <3>0, SlipTypes, StoreAssumption
      DEF TypeOK, StoreTypeOK, BetsReader!ConsumerTypeOK, AtRest
    <3>3. BetsLemmas!Reached(p, i)
      BY <3>1, <3>2 DEF BetsLemmas!Reached
    <3>4. \A r \in Replicas : ~Answers(r, b)
      BY DEF AtRest, Answers, AnsweringLabels, ValidatingLabels
    <3> QED
      BY <3>0, <3>1, <3>2, <3>3, <3>4 DEF Silenced, Met
  <2>2. Cardinality(Silent) <= Cardinality(Silenced) /\ IsFiniteSet(Silent)
    BY <2>1, FS_Subset
  <2>3. Cardinality(Silent) \in Nat /\ Cardinality(Silenced) \in Nat /\ faults \in Nat
    BY <2>2, FS_CardinalityType DEF TypeOK, StoreTypeOK
  <2> QED
    BY <2>2, <2>3
<1> QED
  BY <1>1, <1>2, <1>3, PTL DEF Spec

-----------------------------------------------------------------------------
\* A stake is taken once for each time the bet was delivered.

HoldingLabels == {"check"} \cup ValidatingLabels

\* Handlers that hold b and have not come to its stake, and copies of b that are still
\* to be fetched.
Holders(b) == {r \in Replicas : betPc[r] \in HoldingLabels /\ Bet(r) = b}
Ahead(b) == {i \in CopiesOf(b) : i > betPos[BetPartition[Slip[b].user]]}

\* Bets are on the topic under their users' keys, once they were placed.
KeyedByUser ==
  /\ \A p \in BetPartitions : \A i \in DOMAIN betLog[p] :
       BetPartition[Slip[betLog[p][i]].user] = p
  /\ \A b \in Bets : reply[b] = "none" => CopiesOf(b) = {}

\* The strengthening: the stakes taken, and those that may be without another fault.
Within(b) ==
  /\ IsFiniteSet(Holders(b))
  /\ debits[b] + Cardinality(Ahead(b)) + Cardinality(Holders(b))
       <= Cardinality(CopiesOf(b)) * (1 + faults)
DebitsInv == KeyedByUser /\ \A b \in Bets : Within(b)

LEMMA Scale ==
  ASSUME NEW c \in Nat, NEW f \in Nat, NEW g \in Nat, f <= g
  PROVE  /\ c * (1 + f) \in Nat /\ c * (1 + g) \in Nat
         /\ c * (1 + f) <= c * (1 + g)
         /\ g = f + 1 => c * (1 + g) = c * (1 + f) + c
         /\ c <= c * (1 + f)
<1>1. /\ c * f \in Nat /\ c * g \in Nat /\ c * (1 + f) = c + c * f /\ c * (1 + g) = c + c * g
      /\ c * (f + 1) = c * f + c
  OBVIOUS
<1>2. c * f <= c * g
  <2>1. PICK k \in Nat : g = f + k
    OBVIOUS
  <2>2. c * g = c * f + c * k /\ c * k \in Nat
    BY <2>1
  <2> QED
    BY <1>1, <2>2
<1> QED
  BY <1>1, <1>2

LEMMA PositionsAreFinite ==
  ASSUME NEW n \in Nat, NEW C \in SUBSET (1..n), NEW A \in SUBSET C
  PROVE  /\ IsFiniteSet(C) /\ Cardinality(C) \in Nat
         /\ IsFiniteSet(A) /\ Cardinality(A) \in Nat
         /\ Cardinality(A) <= Cardinality(C)
<1>1. IsFiniteSet(1..n)
  BY FS_Interval
<1>2. IsFiniteSet(C)
  BY <1>1, FS_Subset
<1>3. IsFiniteSet(A) /\ Cardinality(A) <= Cardinality(C)
  BY <1>2, FS_Subset
<1> QED
  BY <1>2, <1>3, FS_CardinalityType

\* Copies of a bet can be counted, before a step and after it.
LEMMA CopiesAreFinite ==
  ASSUME TypeOK, NEW b \in Bets
  PROVE  /\ IsFiniteSet(CopiesOf(b)) /\ Cardinality(CopiesOf(b)) \in Nat
         /\ IsFiniteSet(Ahead(b)) /\ Cardinality(Ahead(b)) \in Nat
         /\ Cardinality(Ahead(b)) <= Cardinality(CopiesOf(b))
<1> DEFINE p == BetPartition[Slip[b].user]
<1>1. betLog[p] \in Seq(Bets) /\ Len(betLog[p]) \in Nat
  BY SlipTypes, StoreAssumption DEF TypeOK, StoreTypeOK, BetsReader!ConsumerTypeOK
<1>2. CopiesOf(b) \subseteq 1..Len(betLog[p]) /\ Ahead(b) \subseteq CopiesOf(b)
  BY <1>1 DEF CopiesOf, Ahead
<1> QED
  BY <1>1, <1>2, PositionsAreFinite

LEMMA CopiesAreFiniteNext ==
  ASSUME TypeOK', NEW b \in Bets
  PROVE  /\ IsFiniteSet(CopiesOf(b)') /\ Cardinality(CopiesOf(b)') \in Nat
         /\ IsFiniteSet(Ahead(b)') /\ Cardinality(Ahead(b)') \in Nat
         /\ Cardinality(Ahead(b)') <= Cardinality(CopiesOf(b)')
<1> DEFINE p == BetPartition[Slip[b].user]
<1>1. betLog'[p] \in Seq(Bets) /\ Len(betLog'[p]) \in Nat
  BY SlipTypes, StoreAssumption DEF TypeOK, StoreTypeOK, BetsReader!ConsumerTypeOK
<1>2. CopiesOf(b)' \subseteq 1..Len(betLog'[p]) /\ Ahead(b)' \subseteq CopiesOf(b)'
  BY <1>1 DEF CopiesOf, Ahead
<1> QED
  BY <1>1, <1>2, PositionsAreFinite

\* Who moves the position of the reader.
LEMMA BetPosWriters ==
  [Next]_vars => \/ UNCHANGED betPos
                 \/ \E r \in Replicas : BetsReader!Fetch(r) \/ Crash(r)
                 \/ Rebalance
<1>1. ASSUME NEW r \in Replicas, RunBets(r), ~BetsReader!Fetch(r) PROVE UNCHANGED betPos
  BY <1>1 DEF RunBets, BetLoop, HandleBetPlaced, Check, Suspension, Odds,
       SuspensionUnknown, DebitStake, DebitRefused, SaveBet, SaveDebitTx, PublishDebitTx,
       BetsReader!Goto, BetsReader!ReturnNil, BetsReader!ReturnError, BetsReader!Commit
<1>2. ASSUME NEW r \in Replicas, RunSettlement(r) PROVE UNCHANGED betPos
  BY <1>2 DEF RunSettlement, SettleLoop, HandleBetSettled, FindBets, UpdateBet,
       Settled, CreditPayout, SaveCreditTx, PublishCreditTx, SettleFrame, betReader
<1> QED
  BY <1>1, <1>2 DEF Next, PlaceBet, SettleMarket, MarkSettled, ApiFrame,
       KeyExpires, SuspendMarket, SuspensionLapses, OddsWritten, OddsExpire,
       RedisFrame, vars, betReader

\* A handler holds a bet from its fetch on.
LEMMA HoldersSteps ==
  ASSUME TypeOK, [Next]_vars, NEW r \in Replicas, NEW b, r \in Holders(b)'
  PROVE  r \in Holders(b) \/ BetsReader!Fetch(r)
<1>0. betPc \in [Replicas -> BetLabels \cup {"fetch", "commit"}]
  BY DEF TypeOK, StoreTypeOK, BetsReader!ConsumerTypeOK
<1>1. betPc'[r] \in HoldingLabels /\ betPc'[r] # "fetch" /\ Bet(r)' = b
  BY DEF Holders, HoldingLabels, ValidatingLabels
<1>2. betPc[r] \in HoldingLabels \/ BetsReader!Fetch(r)
  <2> USE DEF HoldingLabels, ValidatingLabels
  <2>1. CASE RunBets(r)
    BY <1>0, <1>1, <2>1 DEF RunBets, BetLoop, HandleBetPlaced, Check, Suspension, Odds,
       SuspensionUnknown, DebitStake, DebitRefused, SaveBet, SaveDebitTx, PublishDebitTx,
       BetsReader!Goto, BetsReader!ReturnNil, BetsReader!ReturnError, BetsReader!Commit
  <2>2. CASE Crash(r)
    BY <1>0, <1>1, <2>2 DEF Crash, BetsReader!Crash
  <2> QED
    BY <1>1, <2>1, <2>2, BetPcWriters
<1>3. betPc[r] \in HoldingLabels => Bet(r)' = Bet(r)
  BY <1>1, BetStays DEF HoldingLabels, ValidatingLabels
<1> QED
  BY <1>1, <1>2, <1>3 DEF Holders

\* What is new on a partition was placed now, by its user.
LEMMA NewOnTheTopic ==
  ASSUME TypeOK, [Next]_vars, NEW p \in BetPartitions, NEW i \in DOMAIN betLog'[p]
  PROVE  \/ i \in DOMAIN betLog[p] /\ betLog'[p][i] = betLog[p][i]
         \/ /\ PlaceBet(betLog'[p][i]) /\ betLog'[p][i] \in Bets
            /\ p = BetPartition[Slip[betLog'[p][i]].user]
<1>0. betLog[p] \in Seq(Bets) /\ Len(betLog[p]) \in Nat /\ betLog \in [BetPartitions -> Seq(Bets)]
  BY DEF TypeOK, StoreTypeOK, BetsReader!ConsumerTypeOK
<1>1. ASSUME NEW b \in Bets, PlaceBet(b), i \notin DOMAIN betLog[p]
      PROVE  p = BetPartition[Slip[b].user] /\ betLog'[p][i] = b
  <2>1. PICK n \in 0..2 : BetsReader!Produce(BetPartition[Slip[b].user], Copies(n, b))
    BY <1>1 DEF PlaceBet, PublishBetPlaced
  <2>2. p = BetPartition[Slip[b].user] /\ betLog'[p] = betLog[p] \o Copies(n, b)
    BY <1>0, <1>1, <2>1 DEF BetsReader!Produce
  <2>3. Copies(n, b) \in Seq(Bets)
    BY CopiesType
  <2>4. Len(Copies(n, b)) = n /\ \A k \in 1..n : Copies(n, b)[k] = b
    BY DEF Copies
  <2>5. /\ i \in 1..(Len(betLog[p]) + n) /\ i \notin 1..Len(betLog[p])
        /\ betLog'[p][i] = Copies(n, b)[i - Len(betLog[p])]
    BY <1>0, <1>1, <2>2, <2>3, <2>4
  <2>6. betLog'[p][i] = b
    BY <1>0, <2>4, <2>5
  <2> QED
    BY <2>2, <2>6
<1>2. i \in DOMAIN betLog[p] => betLog'[p][i] = betLog[p][i]
  BY BetLogGrows
<1> QED
  BY <1>1, <1>2, BetLogWriters

LEMMA CopiesChange ==
  ASSUME TypeOK, [Next]_vars, NEW b \in Bets, ~PlaceBet(b)
  PROVE  CopiesOf(b)' = CopiesOf(b)
<1> DEFINE p == BetPartition[Slip[b].user]
<1>1. p \in BetPartitions
  BY SlipTypes, StoreAssumption
<1>2. ASSUME NEW i \in CopiesOf(b) PROVE i \in CopiesOf(b)'
  BY <1>1, <1>2, BetLogGrows DEF CopiesOf
<1>3. ASSUME NEW i \in CopiesOf(b)' PROVE i \in CopiesOf(b)
  BY <1>1, <1>3, NewOnTheTopic DEF CopiesOf
<1> QED
  BY <1>2, <1>3

LEMMA KeyedStep == TypeOK /\ KeyedByUser /\ [Next]_vars => KeyedByUser'
<1> SUFFICES ASSUME TypeOK, KeyedByUser, [Next]_vars PROVE KeyedByUser'
  OBVIOUS
<1>1. ASSUME NEW p \in BetPartitions, NEW i \in DOMAIN betLog'[p]
      PROVE  BetPartition[Slip[betLog'[p][i]].user] = p
  BY NewOnTheTopic DEF KeyedByUser
<1>2. ASSUME NEW b \in Bets, reply'[b] = "none" PROVE CopiesOf(b)' = {}
  <2>0. reply \in [Bets -> {"none", "accepted", "error"}]
    BY DEF TypeOK, ApiTypeOK
  <2>1. ASSUME NEW c \in Bets, PlaceBet(c) PROVE c # b /\ reply'[b] = reply[b]
    BY <1>2, <2>0, <2>1 DEF PlaceBet
  <2>2. UNCHANGED reply \/ \E c \in Bets : PlaceBet(c)
    BY DEF Next, vars, api, RunBets, RunSettlement, Crash, KeyExpires, SuspendMarket,
       SuspensionLapses, OddsWritten, OddsExpire, RedisFrame, Rebalance, SettleMarket,
       MarkSettled
  <2>3. reply[b] = "none" /\ ~PlaceBet(b)
    BY <1>2, <2>1, <2>2
  <2> QED
    BY <2>3, CopiesChange DEF KeyedByUser
<1> QED
  BY <1>1, <1>2 DEF KeyedByUser

\* Fewer holders, or as many.
LEMMA FewerHolders ==
  ASSUME NEW b, IsFiniteSet(Holders(b)), Holders(b)' \subseteq Holders(b)
  PROVE  /\ IsFiniteSet(Holders(b)')
         /\ Cardinality(Holders(b)') \in Nat /\ Cardinality(Holders(b)) \in Nat
         /\ Cardinality(Holders(b)') <= Cardinality(Holders(b))
         /\ Holders(b)' # Holders(b) =>
              Cardinality(Holders(b)') + 1 <= Cardinality(Holders(b))
<1> DEFINE S == Holders(b)
           T == Holders(b)'
<1> HIDE DEF S, T
<1>0. IsFiniteSet(S) /\ T \subseteq S
  BY DEF S, T
<1>1. IsFiniteSet(T) /\ Cardinality(T) <= Cardinality(S)
      /\ (Cardinality(S) = Cardinality(T) => S = T)
  BY <1>0, FS_Subset
<1>2. Cardinality(T) \in Nat /\ Cardinality(S) \in Nat
  BY <1>0, <1>1, FS_CardinalityType
<1> QED
  BY <1>1, <1>2 DEF S, T

\* Counting: a set without one of its elements, and one with at most one more.
LEMMA OneLess ==
  ASSUME NEW S, IsFiniteSet(S), NEW x \in S, NEW T \in SUBSET (S \ {x})
  PROVE  IsFiniteSet(T) /\ Cardinality(T) \in Nat /\ Cardinality(S) \in Nat
         /\ Cardinality(T) + 1 <= Cardinality(S)
<1> DEFINE R == S \ {x}
<1>1. IsFiniteSet(R) /\ Cardinality(R) = Cardinality(S) - 1
  BY FS_RemoveElement
<1>2. IsFiniteSet(T) /\ Cardinality(T) <= Cardinality(R)
  BY <1>1, FS_Subset
<1>3. Cardinality(T) \in Nat /\ Cardinality(R) \in Nat /\ Cardinality(S) \in Nat
  BY <1>1, <1>2, FS_CardinalityType
<1> QED
  BY <1>1, <1>2, <1>3

LEMMA AtMostOneMore ==
  ASSUME NEW S, IsFiniteSet(S), NEW x, NEW T \in SUBSET (S \cup {x})
  PROVE  IsFiniteSet(T) /\ Cardinality(T) \in Nat /\ Cardinality(S) \in Nat
         /\ Cardinality(T) <= Cardinality(S) + 1
<1> DEFINE R == S \cup {x}
<1>1. IsFiniteSet(R) /\ Cardinality(R) <= Cardinality(S) + 1
  BY OneMore
<1>2. IsFiniteSet(T) /\ Cardinality(T) <= Cardinality(R)
  BY <1>1, FS_Subset
<1>3. Cardinality(T) \in Nat /\ Cardinality(R) \in Nat /\ Cardinality(S) \in Nat
  BY <1>1, <1>2, FS_CardinalityType
<1> QED
  BY <1>1, <1>2, <1>3

\* A step that delivers nothing and takes no stake.
LEMMA NothingNewKeepsWithin ==
  ASSUME TypeOK, [Next]_vars, NEW b \in Bets, CopiesOf(b)' = CopiesOf(b),
         Holders(b)' \subseteq Holders(b), Ahead(b)' \subseteq Ahead(b), Within(b),
         \/ debits'[b] = debits[b]
         \/ debits'[b] = debits[b] + 1 /\ Holders(b)' # Holders(b)
  PROVE  Within(b)'
<1>0. /\ debits[b] \in Nat /\ debits'[b] \in Nat
      /\ faults \in Nat /\ faults' \in Nat /\ faults <= faults'
  BY TypeStep, FaultCount DEF TypeOK, StoreTypeOK, MoneyTypeOK, Fault
<1>1. /\ Cardinality(Ahead(b)) \in Nat /\ Cardinality(CopiesOf(b)) \in Nat
      /\ Cardinality(Ahead(b)') \in Nat /\ Cardinality(Ahead(b)') <= Cardinality(Ahead(b))
  BY TypeStep, CopiesAreFinite, CopiesAreFiniteNext, FS_Subset
<1>2. /\ IsFiniteSet(Holders(b)')
      /\ Cardinality(Holders(b)') \in Nat /\ Cardinality(Holders(b)) \in Nat
      /\ Cardinality(Holders(b)') <= Cardinality(Holders(b))
      /\ Holders(b)' # Holders(b) =>
           Cardinality(Holders(b)') + 1 <= Cardinality(Holders(b))
  BY FewerHolders DEF Within
<1>3. Cardinality(CopiesOf(b)) * (1 + faults) <= Cardinality(CopiesOf(b)) * (1 + faults')
      /\ Cardinality(CopiesOf(b)) * (1 + faults) \in Nat
      /\ Cardinality(CopiesOf(b)) * (1 + faults') \in Nat
  BY <1>0, <1>1, Scale
<1>4. debits[b] + Cardinality(Ahead(b)) + Cardinality(Holders(b))
        <= Cardinality(CopiesOf(b)) * (1 + faults)
  BY DEF Within
<1>5. debits'[b] + Cardinality(Ahead(b)') + Cardinality(Holders(b)')
        <= Cardinality(CopiesOf(b)') * (1 + faults')
  BY <1>0, <1>1, <1>2, <1>3, <1>4
<1> QED
  BY <1>2, <1>5 DEF Within

\* Placing a bet puts copies on the topic and nothing else.
LEMMA PlaceKeepsWithin ==
  ASSUME TypeOK, KeyedByUser, [Next]_vars, NEW b \in Bets, PlaceBet(b), Within(b)
  PROVE  Within(b)'
<1>0. /\ debits[b] \in Nat /\ faults \in Nat /\ faults' \in Nat
  BY TypeStep DEF TypeOK, StoreTypeOK, MoneyTypeOK
<1>1. CopiesOf(b) = {} /\ Cardinality(CopiesOf(b)) = 0
  BY FS_EmptySet DEF PlaceBet, KeyedByUser
<1>2. UNCHANGED <<debits, betPc, betPos>>
  BY DEF PlaceBet, ApiFrame, money
<1>3. Holders(b)' \subseteq Holders(b)
  <2>1. ASSUME NEW r \in Replicas, BetsReader!Fetch(r) PROVE FALSE
    BY <1>2, <2>1 DEF BetsReader!Fetch, TypeOK, StoreTypeOK, BetsReader!ConsumerTypeOK
  <2>2. Holders(b)' \subseteq Replicas
    BY DEF Holders
  <2> QED
    BY <2>1, <2>2, HoldersSteps
<1>4. IsFiniteSet(Holders(b))
  BY DEF Within
<1>5. /\ Cardinality(Ahead(b)) \in Nat
      /\ Cardinality(Ahead(b)') \in Nat /\ Cardinality(CopiesOf(b)') \in Nat
      /\ Cardinality(Ahead(b)') <= Cardinality(CopiesOf(b)')
  BY CopiesAreFinite, CopiesAreFiniteNext, TypeStep
<1>6. /\ IsFiniteSet(Holders(b)')
      /\ Cardinality(Holders(b)') \in Nat /\ Cardinality(Holders(b)) \in Nat
      /\ Cardinality(Holders(b)') <= Cardinality(Holders(b))
  BY <1>3, <1>4, FewerHolders
<1>7. debits[b] + Cardinality(Ahead(b)) + Cardinality(Holders(b)) <= 0
  BY <1>0, <1>1 DEF Within
<1>8. debits'[b] = 0 /\ Cardinality(Holders(b)') = 0
  BY <1>0, <1>2, <1>5, <1>6, <1>7
<1>9. Cardinality(CopiesOf(b)') <= Cardinality(CopiesOf(b)') * (1 + faults')
      /\ Cardinality(CopiesOf(b)') * (1 + faults') \in Nat
  BY <1>0, <1>5, Scale
<1>10. debits'[b] + Cardinality(Ahead(b)') + Cardinality(Holders(b)')
         <= Cardinality(CopiesOf(b)') * (1 + faults')
  BY <1>5, <1>8, <1>9
<1> QED
  BY <1>6, <1>10 DEF Within

\* A new generation may deliver every copy once more, for one fault.
LEMMA ResumeKeepsWithin ==
  ASSUME TypeOK, [Next]_vars, NEW b \in Bets, CopiesOf(b)' = CopiesOf(b),
         Holders(b)' \subseteq Holders(b), debits'[b] = debits[b], faults' = faults + 1,
         Within(b)
  PROVE  Within(b)'
<1>0. debits[b] \in Nat /\ faults \in Nat /\ faults' \in Nat
  BY TypeStep DEF TypeOK, StoreTypeOK, MoneyTypeOK
<1>1. /\ Cardinality(Ahead(b)) \in Nat /\ Cardinality(CopiesOf(b)) \in Nat
      /\ Cardinality(Ahead(b)') \in Nat
      /\ Cardinality(Ahead(b)') <= Cardinality(CopiesOf(b))
  <2>1. /\ Cardinality(Ahead(b)') \in Nat
        /\ Cardinality(Ahead(b)') <= Cardinality(CopiesOf(b)')
    BY CopiesAreFinite, CopiesAreFiniteNext, TypeStep
  <2> QED
    BY <2>1, CopiesAreFinite
<1>2. /\ IsFiniteSet(Holders(b)')
      /\ Cardinality(Holders(b)') \in Nat /\ Cardinality(Holders(b)) \in Nat
      /\ Cardinality(Holders(b)') <= Cardinality(Holders(b))
  BY FewerHolders DEF Within
<1>3. /\ Cardinality(CopiesOf(b)) * (1 + faults) \in Nat
      /\ Cardinality(CopiesOf(b)) * (1 + faults')
           = Cardinality(CopiesOf(b)) * (1 + faults) + Cardinality(CopiesOf(b))
  BY <1>0, <1>1, Scale
<1>4. debits[b] + Cardinality(Ahead(b)) + Cardinality(Holders(b))
        <= Cardinality(CopiesOf(b)) * (1 + faults)
  BY DEF Within
<1>5. debits'[b] + Cardinality(Ahead(b)') + Cardinality(Holders(b)')
        <= Cardinality(CopiesOf(b)') * (1 + faults')
  BY <1>0, <1>1, <1>2, <1>3, <1>4
<1> QED
  BY <1>2, <1>5 DEF Within

\* Fetching a copy puts it in the hands of one more handler.
LEMMA FetchKeepsWithin ==
  ASSUME TypeOK, KeyedByUser, [Next]_vars, NEW r \in Replicas, BetsReader!Fetch(r),
         NEW b \in Bets, Within(b)
  PROVE  Within(b)'
<1> DEFINE p == BetPartition[Slip[b].user]
<1>a. /\ debits[b] \in Nat /\ faults \in Nat /\ faults' \in Nat /\ faults <= faults'
  BY TypeStep, FaultCount DEF TypeOK, StoreTypeOK, MoneyTypeOK, Fault
<1>0. /\ betPc \in [Replicas -> BetLabels \cup {"fetch", "commit"}]
      /\ betAt \in [Replicas -> (BetPartitions \X Nat) \cup {NoMessage}]
      /\ betPos \in [BetPartitions -> Nat] /\ p \in BetPartitions
      /\ betLog \in [BetPartitions -> Seq(Bets)]
  BY SlipTypes, StoreAssumption DEF TypeOK, StoreTypeOK, BetsReader!ConsumerTypeOK
<1>1. PICK q \in BetPartitions :
        /\ betPos[q] < Len(betLog[q])
        /\ betAt' = [betAt EXCEPT ![r] = <<q, betPos[q] + 1>>]
        /\ betPos' = [betPos EXCEPT ![q] = @ + 1]
  BY DEF BetsReader!Fetch
<1>2. betPc[r] = "fetch" /\ betPc'[r] = "check" /\ UNCHANGED betLog
  BY <1>0 DEF BetsReader!Fetch
<1>3. debits'[b] = debits[b]
  <2>1. ASSUME NEW k \in Replicas, DebitStake(k) PROVE betPc'[k] # betPc[k]
    BY <1>0, <2>1 DEF DebitStake, DebitRefused, BetsReader!Goto, BetsReader!ReturnNil
  <2>2. ASSUME NEW k \in Replicas, DebitStake(k) PROVE FALSE
    BY <1>2, <2>1, <2>2, OneHandlerMoves DEF DebitStake
  <2> QED
    BY <2>2, DebitSteps
<1>4. CopiesOf(b)' = CopiesOf(b)
  BY <1>2 DEF CopiesOf
<1>5. ASSUME NEW k \in Replicas, k # r, k \in Holders(b)' PROVE k \in Holders(b)
  <2>1. ~BetsReader!Fetch(k)
    BY <1>2, <1>5, OneHandlerMoves DEF BetsReader!Fetch, TypeOK, StoreTypeOK,
       BetsReader!ConsumerTypeOK
  <2> QED
    BY <1>5, <2>1, HoldersSteps
<1>6. /\ Cardinality(Ahead(b)) \in Nat /\ IsFiniteSet(Ahead(b))
      /\ Cardinality(CopiesOf(b)) \in Nat /\ Cardinality(Ahead(b)') \in Nat
  BY CopiesAreFinite, CopiesAreFiniteNext, TypeStep
<1>7. Ahead(b)' \subseteq Ahead(b)
  BY <1>0, <1>1, <1>4 DEF Ahead, CopiesOf
<1>8. CASE r \in Holders(b)'
  <2>1. Bet(r)' = betLog[q][betPos[q] + 1]
    BY <1>0, <1>1, <1>2 DEF Bet, BetsReader!Current
  <2>2. betPos[q] + 1 \in DOMAIN betLog[q] /\ betLog[q][betPos[q] + 1] = b
    BY <1>0, <1>1, <1>8, <2>1 DEF Holders
  <2>3. p = q
    BY <2>2 DEF KeyedByUser
  <2>4. /\ betPos[q] + 1 \in Ahead(b)
        /\ Ahead(b)' \subseteq Ahead(b) \ {betPos[q] + 1}
    BY <1>0, <1>1, <1>4, <1>7, <2>2, <2>3 DEF Ahead, CopiesOf
  <2>5. Cardinality(Ahead(b)') + 1 <= Cardinality(Ahead(b))
    BY <1>6, <2>4, OneLess
  <2>6. Holders(b)' \subseteq Holders(b) \cup {r}
    BY <1>5 DEF Holders
  <2>7. /\ IsFiniteSet(Holders(b)') /\ Cardinality(Holders(b)) \in Nat
        /\ Cardinality(Holders(b)') \in Nat
        /\ Cardinality(Holders(b)') <= Cardinality(Holders(b)) + 1
    BY <2>6, AtMostOneMore DEF Within
  <2>8. Cardinality(CopiesOf(b)) * (1 + faults) <= Cardinality(CopiesOf(b)) * (1 + faults')
        /\ Cardinality(CopiesOf(b)) * (1 + faults) \in Nat
        /\ Cardinality(CopiesOf(b)) * (1 + faults') \in Nat
    BY <1>a, <1>6, Scale
  <2>9. debits'[b] + Cardinality(Ahead(b)') + Cardinality(Holders(b)')
          <= Cardinality(CopiesOf(b)') * (1 + faults')
    <3>1. debits[b] + Cardinality(Ahead(b)) + Cardinality(Holders(b))
            <= Cardinality(CopiesOf(b)) * (1 + faults)
      BY DEF Within
    <3> QED
      BY <1>a, <1>3, <1>4, <1>6, <2>5, <2>7, <2>8, <3>1
  <2> QED
    BY <2>7, <2>9 DEF Within
<1>9. CASE r \notin Holders(b)'
  <2>1. Holders(b)' \subseteq Holders(b)
    BY <1>5, <1>9 DEF Holders
  <2> QED
    BY <1>0, <1>3, <1>4, <1>7, <2>1, NothingNewKeepsWithin
<1> QED
  BY <1>8, <1>9

\* Any other step fetches nothing, and takes a stake from the hands of a handler.
LEMMA OthersKeepWithin ==
  ASSUME TypeOK, [Next]_vars, NEW b \in Bets, ~PlaceBet(b), UNCHANGED betPos,
         \A r \in Replicas : ~BetsReader!Fetch(r), Within(b)
  PROVE  Within(b)'
<1>1. CopiesOf(b)' = CopiesOf(b)
  BY CopiesChange
<1>2. Ahead(b)' \subseteq Ahead(b)
  BY <1>1 DEF Ahead
<1>3. Holders(b)' \subseteq Holders(b)
  <2>1. Holders(b)' \subseteq Replicas
    BY DEF Holders
  <2> QED
    BY <2>1, HoldersSteps
<1>4. ASSUME NEW r \in Replicas, DebitStake(r), b = Bet(r) PROVE Holders(b)' # Holders(b)
  <2>1. betPc[r] = "debit" /\ betPc'[r] \notin HoldingLabels
    BY <1>4 DEF DebitStake, DebitRefused, BetsReader!Goto, BetsReader!ReturnNil, TypeOK,
       StoreTypeOK, BetsReader!ConsumerTypeOK, HoldingLabels, ValidatingLabels
  <2>2. r \in Holders(b) /\ r \notin Holders(b)'
    BY <1>4, <2>1 DEF Holders, HoldingLabels, ValidatingLabels
  <2> QED
    BY <2>2
<1> QED
  BY <1>1, <1>2, <1>3, <1>4, DebitSteps, NothingNewKeepsWithin

LEMMA WithinStep ==
  ASSUME TypeOK, KeyedByUser, [Next]_vars, NEW b \in Bets, Within(b)
  PROVE  Within(b)'
<1>1. CASE PlaceBet(b)
  BY <1>1, PlaceKeepsWithin
<1>2. ASSUME NEW r \in Replicas, BetsReader!Fetch(r) PROVE Within(b)'
  BY <1>2, FetchKeepsWithin
<1>3. ASSUME Rebalance \/ \E r \in Replicas : Crash(r), ~PlaceBet(b),
             \A r \in Replicas : ~BetsReader!Fetch(r)
      PROVE  Within(b)'
  <2>1. faults' = faults + 1 /\ UNCHANGED money
    BY <1>3 DEF Rebalance, Crash, Fault
  <2>2. CopiesOf(b)' = CopiesOf(b)
    BY <1>3, CopiesChange
  <2>3. Holders(b)' \subseteq Replicas
    BY DEF Holders
  <2>4. Holders(b)' \subseteq Holders(b)
    BY <1>3, <2>3, HoldersSteps
  <2> QED
    BY <2>1, <2>2, <2>4, ResumeKeepsWithin DEF money
<1> QED
  BY <1>1, <1>2, <1>3, BetPosWriters, OthersKeepWithin

\* The key of a bet lasts 60 seconds (bet_processor.go:59) and a delivery may come
\* later: for any number of processes, users and bets, and whatever calls fail, the
\* stake is taken no more often than the bet was delivered, once for each copy on the
\* topic and once again for each crash or rebalance.
THEOREM DebitsHaveCauses == Spec => []DebitsNeedFaults
<1>1. Init => TypeOK /\ DebitsInv
  <2> SUFFICES ASSUME Init PROVE DebitsInv
    BY TypeInit
  <2>1. /\ faults = 0 /\ \A b \in Bets : debits[b] = 0
        /\ \A p \in BetPartitions : betLog[p] = <<>>
        /\ \A r \in Replicas : betPc[r] = "fetch"
    BY DEF Init, StoreInit, BetsReader!ConsumerInit
  <2>2. ASSUME NEW b \in Bets
        PROVE  CopiesOf(b) = {} /\ Ahead(b) = {} /\ Holders(b) = {}
    BY <2>1, SlipTypes, StoreAssumption DEF CopiesOf, Ahead, Holders, HoldingLabels,
       ValidatingLabels
  <2>3. KeyedByUser
    BY <2>1, <2>2 DEF KeyedByUser
  <2>4. IsFiniteSet({}) /\ Cardinality({}) = 0
    BY FS_EmptySet
  <2>5. ASSUME NEW b \in Bets PROVE Within(b)
    <3>1. debits[b] = 0 /\ IsFiniteSet(Holders(b)) /\ Cardinality(Holders(b)) = 0
          /\ Cardinality(Ahead(b)) = 0 /\ Cardinality(CopiesOf(b)) = 0
      BY <2>1, <2>2, <2>4
    <3> QED
      BY <2>1, <3>1 DEF Within
  <2> QED
    BY <2>3, <2>5 DEF DebitsInv
<1>2. TypeOK /\ DebitsInv /\ [Next]_vars => TypeOK' /\ DebitsInv'
  BY TypeStep, KeyedStep, WithinStep DEF DebitsInv
<1>3. TypeOK /\ DebitsInv => DebitsNeedFaults
  <2> SUFFICES ASSUME TypeOK, DebitsInv, NEW b \in Bets
               PROVE  debits[b] <= Cardinality(CopiesOf(b)) * (1 + faults)
    BY DEF DebitsNeedFaults
  <2>1. /\ debits[b] \in Nat /\ faults \in Nat
        /\ Cardinality(Ahead(b)) \in Nat /\ Cardinality(CopiesOf(b)) \in Nat
    BY CopiesAreFinite DEF TypeOK, StoreTypeOK, MoneyTypeOK
  <2>2. Cardinality(Holders(b)) \in Nat
    BY FS_CardinalityType DEF DebitsInv, Within
  <2>3. Cardinality(CopiesOf(b)) * (1 + faults) \in Nat
    BY <2>1, Scale
  <2> QED
    BY <2>1, <2>2, <2>3 DEF DebitsInv, Within
<1> QED
  BY <1>1, <1>2, <1>3, PTL DEF Spec

-----------------------------------------------------------------------------
\* The audit trail explains the balances.

\* A trail's amounts, as terms of a sum.
AmountsOf(trail) == [i \in DOMAIN trail |-> trail[i].amount]

LEMMA AmountsAreSums ==
  ASSUME NEW trail \in Seq(Transaction)
  PROVE  Amounts(trail) = Sum(AmountsOf(trail), Picking(Nat), DOMAIN trail)
<1> DEFINE D == DOMAIN trail
           f == AmountsOf(trail)
           AmountsUp(sum) == sum = [s \in SUBSET D |->
             IF s = {} THEN 0 ELSE trail[Pick(s)].amount + sum[s \ {Pick(s)}]]
<1>0. D \in SUBSET Nat
  OBVIOUS
<1>1. Picks(Picking(Nat), D) /\ \A i \in D : f[i] = trail[i].amount
  BY <1>0, AnyPicks DEF AmountsOf
<1>4. Amounts(trail) = (CHOOSE sum : AmountsUp(sum))[D]
  BY Zenon DEF Amounts, MapThenSumSet, MapThenFoldSet, Pick
<1> HIDE DEF D, f
<1>2. \A s \in SUBSET D : /\ Picking(Nat)[s] = Pick(s)
                          /\ s # {} => f[Pick(s)] = trail[Pick(s)].amount
  BY <1>0, <1>1 DEF Picking, Picks
<1>3. \A sum : AmountsUp(sum) <=> SumsUp(sum, f, Picking(Nat), D)
  BY <1>2 DEF SumsUp
<1> HIDE DEF AmountsUp
<1>5. (CHOOSE sum : AmountsUp(sum)) = CHOOSE sum : SumsUp(sum, f, Picking(Nat), D)
  BY <1>3
<1> QED
  BY <1>4, <1>5, Zenon DEF Sum, D, f

LEMMA AmountsAdd ==
  ASSUME NEW trail \in Seq(Transaction), NEW tx \in Transaction
  PROVE  /\ Amounts(trail) \in Int
         /\ Amounts(trail \o Copies(1, tx)) = Amounts(trail) + tx.amount
<1> DEFINE n == Len(trail)
           more == trail \o Copies(1, tx)
           f == AmountsOf(trail)
           g == AmountsOf(more)
           D == 1..n
           E == 1..(n + 1)
<1>1. /\ Copies(1, tx) \in Seq(Transaction) /\ Len(Copies(1, tx)) = 1
      /\ Copies(1, tx)[1] = tx
  BY CopiesType DEF Copies
<1>2. n \in Nat /\ DOMAIN trail = D
  OBVIOUS
<1>3. more \in Seq(Transaction) /\ Len(more) = n + 1 /\ DOMAIN more = E
      /\ more[n + 1] = tx /\ \A i \in D : more[i] = trail[i]
  <2> DEFINE last == Copies(1, tx)
  <2>1. last \in Seq(Transaction) /\ Len(last) = 1 /\ last[1] = tx
    BY <1>1
  <2> HIDE DEF last
  <2>2. /\ trail \o last \in Seq(Transaction) /\ Len(trail \o last) = n + 1
        /\ \A i \in E : (trail \o last)[i] = IF i <= n THEN trail[i] ELSE last[i - n]
    <3> HIDE DEF more, f, g
    <3>1. \A s \in Seq(Transaction) :
            /\ trail \o s \in Seq(Transaction) /\ Len(trail \o s) = Len(trail) + Len(s)
            /\ \A i \in 1..(Len(trail) + Len(s)) :
                 (trail \o s)[i] = IF i <= Len(trail) THEN trail[i] ELSE s[i - Len(trail)]
      BY ConcatProperties
    <3> QED
      BY <2>1, <3>1
  <2> DEFINE both == trail \o last
  <2>3. more = both
    BY DEF last
  <2> HIDE DEF both, more
  <2>4. both \in Seq(Transaction) /\ Len(both) = n + 1 /\ DOMAIN both = E
    BY <2>2 DEF both
  <2>5. \A i \in E : both[i] = IF i <= n THEN trail[i] ELSE last[i - n]
    BY <2>2 DEF both
  <2>6. both[n + 1] = tx /\ \A i \in D : both[i] = trail[i]
    BY <1>2, <2>1, <2>5
  <2> QED
    BY <2>3, <2>4, <2>6
<1>5. tx.amount \in Int /\ \A i \in D : trail[i].amount \in Int
  <2>1. \A i \in D : trail[i] \in Transaction
    BY <1>2, ElementOfSeq
  <2> QED
    BY <2>1 DEF Transaction
<1>6. n + 1 \notin D /\ E = D \cup {n + 1}
  BY <1>2
<1> HIDE DEF more, n
<1>7. /\ \A i \in D : f[i] = trail[i].amount /\ g[i] = more[i].amount
      /\ g[n + 1] = more[n + 1].amount
  BY <1>2, <1>3, <1>6 DEF AmountsOf
<1>8. IsFiniteSet(D)
  BY <1>2, FS_Interval
<1>9. Picks(Picking(Nat), D) /\ Picks(Picking(Nat), E)
  BY <1>2, AnyPicks
<1>10. Amounts(trail) = Sum(f, Picking(Nat), D) /\ Amounts(more) = Sum(g, Picking(Nat), E)
  BY <1>2, <1>3, AmountsAreSums
<1> HIDE DEF f, g, D, E
<1>11. Sum(f, Picking(Nat), D) \in Int
  <2>1. \A i \in D : f[i] \in Int
    BY <1>5, <1>7
  <2> QED
    BY <1>8, <1>9, <2>1, SumOfNumbers
<1>12. Sum(f, Picking(Nat), D) = Sum(g, Picking(Nat), D)
  <2>1. \A i \in D : f[i] = g[i]
    BY <1>3, <1>7
  <2> QED
    BY <1>8, <1>9, <2>1, SumOfSame
<1>13. Sum(g, Picking(Nat), E) = Sum(g, Picking(Nat), D) + g[n + 1]
  <2>1. \A i \in E : g[i] \in Int
    BY <1>3, <1>5, <1>6, <1>7
  <2> QED
    BY <1>6, <1>8, <1>9, <2>1, SumOfOneMore
<1>14. g[n + 1] = tx.amount
  BY <1>3, <1>7
<1> QED
  BY <1>5, <1>10, <1>11, <1>12, <1>13, <1>14 DEF more

LEMMA NoAmounts == Amounts(<<>>) = 0
<1>1. <<>> \in Seq(Transaction) /\ DOMAIN <<>> = {}
  OBVIOUS
<1> QED
  BY <1>1, AmountsAreSums, SumOfNone

\* When one term changes, so does the sum.
LEMMA SumChanges ==
  ASSUME NEW S, IsFiniteSet(S), NEW x \in S, NEW pick, Picks(pick, S),
         NEW f, \A y \in S : f[y] \in Int, NEW g, \A y \in S : g[y] \in Int,
         \A y \in S : y # x => f[y] = g[y]
  PROVE  Sum(g, pick, S) = Sum(f, pick, S) + (g[x] - f[x])
<1> DEFINE T == S \ {x}
<1>1. IsFiniteSet(T) /\ x \notin T /\ S = T \cup {x} /\ Picks(pick, T)
  BY FS_Subset DEF Picks
<1>2. /\ \A y \in T : f[y] = g[y]
      /\ \A y \in T : f[y] \in Int
  OBVIOUS
<1> HIDE DEF T
<1>3. Sum(f, pick, T) = Sum(g, pick, T)
  BY <1>1, <1>2, SumOfSame
<1>4. Sum(f, pick, T) \in Int
  BY <1>1, <1>2, SumOfNumbers
<1>5. Sum(f, pick, S) = Sum(f, pick, T) + f[x]
  BY <1>1, SumOfOneMore
<1>6. Sum(g, pick, S) = Sum(g, pick, T) + g[x]
  BY <1>1, SumOfOneMore
<1> QED
  BY <1>3, <1>4, <1>5, <1>6

\* The strengthening: a bet about to be saved is not on the books, and no two
\* handlers are about to save the same bet.
SavingInv ==
  /\ \A r \in Replicas : betPc[r] = "save" => status[Bet(r)] = "NONE"
  /\ \A r, q \in Replicas : /\ r # q
                            /\ betPc[r] = "save" /\ betPc[q] = "save"
                           => Bet(r) # Bet(q)

\* A handler that is about to save was so before the step, or has just taken the
\* stake of a bet that nobody took before.
LEMMA SavingBet ==
  ASSUME TypeOK, DebitedInv, ClaimInv, [Next]_vars,
         NEW r \in Replicas, betPc'[r] = "save"
  PROVE  /\ Bet(r)' = Bet(r) /\ Bet(r) \in Bets
         /\ \/ betPc[r] = "save" /\ debits[Bet(r)] > 0
            \/ DebitStake(r) /\ betPc[r] \in ValidatingLabels /\ debits[Bet(r)] = 0
<1>1. betPc[r] = "save" \/ (DebitStake(r) /\ betPc[r] = "debit")
  BY ReachesSave DEF DebitStake
<1>2. Bet(r)' = Bet(r) /\ Bet(r) \in Bets
  BY <1>1, BetStays, InHand DEF TypeOK
<1> QED
  BY <1>1, <1>2 DEF DebitedInv, ClaimInv, ValidatingLabels

LEMMA SavingStep ==
  TypeOK /\ DebitedInv /\ ClaimInv /\ SavingInv /\ [Next]_vars => SavingInv'
<1> SUFFICES ASSUME TypeOK, DebitedInv, ClaimInv, SavingInv, [Next]_vars PROVE SavingInv'
  OBVIOUS
<1>1. ASSUME NEW r \in Replicas, betPc'[r] = "save", NEW b, b = Bet(r)
      PROVE  status'[b] = "NONE"
  <2>1. b \in Bets
    BY <1>1, SavingBet
  <2>2. status[b] = "NONE"
    <3>1. CASE betPc[r] = "save"
      BY <1>1, <3>1 DEF SavingInv
    <3>2. CASE debits[b] = 0
      BY <2>1, <3>2 DEF DebitedInv, PersistedWasDebited
    <3> QED
      BY <1>1, <3>1, <3>2, SavingBet
  <2>3. ASSUME NEW q \in Replicas, SaveBet(q), b = Bet(q) PROVE FALSE
    <3>0. betPc \in [Replicas -> BetLabels \cup {"fetch", "commit"}]
      BY DEF TypeOK, StoreTypeOK, BetsReader!ConsumerTypeOK
    <3>1. betPc[q] = "save" /\ betPc'[q] # "save"
      BY <2>3, <3>0 DEF SaveBet, BetsReader!Goto, BetsReader!ReturnError
    <3>2. debits[b] > 0
      BY <2>3, <3>1 DEF DebitedInv
    <3>3. betPc[r] = "save" /\ r # q
      BY <1>1, <3>1, <3>2, SavingBet
    <3> QED
      BY <1>1, <2>3, <3>1, <3>3 DEF SavingInv
  <2>4. ASSUME NEW q \in Replicas, UpdateBet(q, b) PROVE FALSE
    BY <2>2, <2>4 DEF UpdateBet, DebitedInv
  <2> QED
    BY <2>1, <2>2, <2>3, <2>4, StatusSteps
<1>2. ASSUME NEW r \in Replicas, NEW q \in Replicas, r # q,
             betPc'[r] = "save", betPc'[q] = "save"
      PROVE  Bet(r) # Bet(q)
  BY <1>2, SavingBet DEF SavingInv, ClaimInv
<1>3. \A r \in Replicas : betPc'[r] = "save" => Bet(r)' = Bet(r)
  BY SavingBet
<1>4. ASSUME NEW r \in Replicas, betPc'[r] = "save" PROVE status'[Bet(r)'] = "NONE"
  BY <1>1, <1>3, <1>4
<1> QED
  BY <1>2, <1>3, <1>4 DEF SavingInv

\* What handlers have taken or paid and not recorded yet.
StakeUnrecorded(r, u) ==
  IF betPc[r] \in {"save", "saveTx"} /\ Slip[Bet(r)].user = u THEN -Stake(Bet(r)) ELSE 0
PayoutUnrecorded(r, u) ==
  IF settlePc[r] = "saveTx" /\ Slip[Paid(r)].user = u THEN Payout(Paid(r)) ELSE 0
Unrecorded(u) == [r \in Replicas |-> StakeUnrecorded(r, u) + PayoutUnrecorded(r, u)]

\* The strengthening: a balance is the opening one, with what the audit trail in
\* Mongo says and with what is not recorded yet.
RecordedInv ==
  \A u \in Users :
    balance[u] = Opening[u] + Amounts(txs[u]) + Sum(Unrecorded(u), Picking(Replicas), Replicas)

UnrecordedTypeOK ==
  \A r \in Replicas, u \in Users :
    StakeUnrecorded(r, u) \in Int /\ PayoutUnrecorded(r, u) \in Int

LEMMA UnrecordedTypes == TypeOK => UnrecordedTypeOK
<1> SUFFICES ASSUME TypeOK, NEW r \in Replicas, NEW u \in Users
             PROVE  StakeUnrecorded(r, u) \in Int /\ PayoutUnrecorded(r, u) \in Int
  BY DEF UnrecordedTypeOK
<1>1. ASSUME betPc[r] \in {"save", "saveTx"} PROVE -Stake(Bet(r)) \in Int
  BY <1>1, InHand, SlipTypes DEF TypeOK
<1>2. ASSUME settlePc[r] = "saveTx" PROVE Payout(Paid(r)) \in Int
  BY <1>2, InHand, SlipTypes DEF TypeOK, PayingLabels
<1> QED
  BY <1>1, <1>2 DEF StakeUnrecorded, PayoutUnrecorded

LEMMA UnrecordedTypesNext == TypeOK' => UnrecordedTypeOK'
BY UnrecordedTypes, PTL

LEMMA StakesInHand ==
  ASSUME Steady, TypeOK, SavingInv, [Next]_vars, NEW r \in Replicas,
         ~DebitStake(r), ~SaveDebitTx(r), NEW u
  PROVE  StakeUnrecorded(r, u)' = StakeUnrecorded(r, u)
<1>0. betPc \in [Replicas -> BetLabels \cup {"fetch", "commit"}]
  BY DEF TypeOK, StoreTypeOK, BetsReader!ConsumerTypeOK
<1>1. betPc'[r] \in {"save", "saveTx"} <=> betPc[r] \in {"save", "saveTx"}
  <2>1. CASE SaveBet(r)
    BY <1>0, <2>1 DEF SaveBet, SavingInv, BetsReader!Goto, CallFails, Steady
  <2>2. CASE RunBets(r) /\ ~SaveBet(r)
    BY <1>0, <2>2 DEF RunBets, BetLoop, HandleBetPlaced, Check, Suspension, Odds,
       SuspensionUnknown, PublishDebitTx,
       BetsReader!Goto, BetsReader!ReturnNil, BetsReader!ReturnError,
       BetsReader!Fetch, BetsReader!Commit
  <2> QED
    BY <2>1, <2>2, BetPcWriters DEF Crash, Steady
<1>2. betPc[r] \in {"save", "saveTx"} => Bet(r)' = Bet(r)
  BY <1>1, BetStays
<1> QED
  BY <1>1, <1>2 DEF StakeUnrecorded

LEMMA PayoutsInHand ==
  ASSUME Steady, TypeOK, [Next]_vars, NEW r \in Replicas,
         ~CreditPayout(r), ~SaveCreditTx(r), NEW u
  PROVE  PayoutUnrecorded(r, u)' = PayoutUnrecorded(r, u)
<1>0. /\ settlePc \in [Replicas -> SettleLabels \cup {"fetch", "commit"}]
      /\ paying \in [Replicas -> SUBSET Bets]
  BY DEF TypeOK, StoreTypeOK, LocalsTypeOK, SettleReader!ConsumerTypeOK
<1>1. \/ UNCHANGED <<settlePc[r], paying[r]>>
      \/ settlePc[r] # "saveTx" /\ settlePc'[r] # "saveTx"
  <2>1. CASE RunSettlement(r)
    BY <1>0, <2>1 DEF RunSettlement, SettleLoop, HandleBetSettled, FindBets, UpdateBet,
       Settled, PublishCreditTx, NextBet, settleReader,
       settleLocals, SettleReader!Goto, SettleReader!ReturnNil,
       SettleReader!ReturnError, SettleReader!Fetch, SettleReader!Commit
  <2> QED
    BY <2>1, PayingWriters DEF Crash, Steady
<1>2. UNCHANGED paying[r] => Paid(r)' = Paid(r)
  BY DEF Paid
<1> QED
  BY <1>1, <1>2 DEF PayoutUnrecorded

\* While one handler takes or records, the others hold what they held.
LEMMA OtherHands ==
  ASSUME TypeOK, NEW r \in Replicas, NEW q \in Replicas, NEW u
  PROVE  /\ DebitStake(r) \/ SaveDebitTx(r) =>
              /\ q # r => StakeUnrecorded(q, u)' = StakeUnrecorded(q, u)
              /\ PayoutUnrecorded(q, u)' = PayoutUnrecorded(q, u)
         /\ CreditPayout(r) \/ SaveCreditTx(r) =>
              /\ StakeUnrecorded(q, u)' = StakeUnrecorded(q, u)
              /\ q # r => PayoutUnrecorded(q, u)' = PayoutUnrecorded(q, u)
<1>0. /\ betPc \in [Replicas -> BetLabels \cup {"fetch", "commit"}]
      /\ settlePc \in [Replicas -> SettleLabels \cup {"fetch", "commit"}]
      /\ paying \in [Replicas -> SUBSET Bets]
  BY DEF TypeOK, StoreTypeOK, LocalsTypeOK, SettleReader!ConsumerTypeOK,
         BetsReader!ConsumerTypeOK
<1>1. ASSUME DebitStake(r) \/ SaveDebitTx(r)
      PROVE  /\ UNCHANGED <<betAt, betLog, settlePc, paying>>
             /\ q # r => betPc'[q] = betPc[q]
  BY <1>0, <1>1 DEF DebitStake, DebitRefused, SaveDebitTx, ValidationFrame, settleReader,
       settleLocals, BetsReader!Goto, BetsReader!ReturnNil
<1>2. ASSUME CreditPayout(r) \/ SaveCreditTx(r)
      PROVE  /\ UNCHANGED <<betAt, betLog, betPc>>
             /\ q # r => settlePc'[q] = settlePc[q] /\ paying'[q] = paying[q]
  BY <1>0, <1>2 DEF CreditPayout, CreditIsDropped, SaveCreditTx, SettleFrame, betReader,
       settleLocals, SettleReader!Goto
<1>3. UNCHANGED <<betAt, betLog>> => Bet(q)' = Bet(q)
  BY DEF Bet, BetsReader!Current
<1>4. UNCHANGED paying[q] => Paid(q)' = Paid(q)
  BY DEF Paid
<1>5. ASSUME UNCHANGED <<betAt, betLog, betPc[q]>>
      PROVE  StakeUnrecorded(q, u)' = StakeUnrecorded(q, u)
  BY <1>3, <1>5 DEF StakeUnrecorded
<1>6. ASSUME UNCHANGED <<settlePc[q], paying[q]>>
      PROVE  PayoutUnrecorded(q, u)' = PayoutUnrecorded(q, u)
  BY <1>4, <1>6 DEF PayoutUnrecorded
<1> QED
  BY <1>1, <1>2, <1>5, <1>6

\* What one handler's taking, paying or recording does to its own share.
LEMMA StakeIsTaken ==
  ASSUME Steady, TypeOK, NEW r \in Replicas, NEW u \in Users, DebitStake(r)
  PROVE  /\ UNCHANGED txs
         /\ balance'[u] - balance[u] = StakeUnrecorded(r, u)' - StakeUnrecorded(r, u)
<1>0. /\ betPc \in [Replicas -> BetLabels \cup {"fetch", "commit"}]
      /\ balance \in [Users -> Int]
  BY DEF TypeOK, StoreTypeOK, MoneyTypeOK, BetsReader!ConsumerTypeOK
<1> DEFINE b == Bet(r)
<1>1. b \in Bets /\ Stake(b) \in Int /\ Slip[b].user \in Users
  BY InHand, SlipTypes DEF DebitStake, TypeOK
<1>2. b' = b
  BY DEF DebitStake, DebitRefused, BetsReader!Goto, BetsReader!ReturnNil, Bet,
         BetsReader!Current
<1>3. /\ betPc[r] = "debit" /\ UNCHANGED txs
      /\ \/ Debit(b) /\ betPc'[r] = "save"
         \/ UNCHANGED balance /\ betPc'[r] = "commit"
  BY <1>0 DEF DebitStake, DebitRefused, ValidationFrame, wallet, money, CallFails, Steady,
         BetsReader!Goto, BetsReader!ReturnNil
<1>4. StakeUnrecorded(r, u) = 0
  BY <1>3 DEF StakeUnrecorded
<1> HIDE DEF b
<1>5. CASE Debit(b) /\ betPc'[r] = "save"
  <2>1. StakeUnrecorded(r, u)' = IF Slip[b].user = u THEN -Stake(b) ELSE 0
    BY <1>2, <1>5 DEF StakeUnrecorded, b
  <2>2. balance'[u] = IF Slip[b].user = u THEN balance[u] - Stake(b) ELSE balance[u]
    BY <1>0, <1>1, <1>5 DEF Debit
  <2> QED
    BY <1>0, <1>1, <1>3, <1>4, <2>1, <2>2
<1>6. CASE UNCHANGED balance /\ betPc'[r] = "commit"
  BY <1>0, <1>3, <1>4, <1>6 DEF StakeUnrecorded
<1> QED
  BY <1>3, <1>5, <1>6

LEMMA PayoutIsGiven ==
  ASSUME Steady, TypeOK, NEW r \in Replicas, NEW u \in Users, CreditPayout(r)
  PROVE  /\ UNCHANGED txs
         /\ balance'[u] - balance[u] = PayoutUnrecorded(r, u)' - PayoutUnrecorded(r, u)
<1>0. /\ settlePc \in [Replicas -> SettleLabels \cup {"fetch", "commit"}]
      /\ balance \in [Users -> Int]
  BY DEF TypeOK, StoreTypeOK, MoneyTypeOK, SettleReader!ConsumerTypeOK
<1> DEFINE b == Paid(r)
<1>1. b \in Bets /\ Payout(b) \in Int /\ Slip[b].user \in Users
  BY InHand, SlipTypes DEF CreditPayout, TypeOK, PayingLabels
<1>2. /\ settlePc[r] = "credit" /\ UNCHANGED <<txs, paying>>
      /\ Credit(b) /\ settlePc'[r] = "saveTx"
  BY <1>0 DEF CreditPayout, wallet, CallFails, Steady, SettleReader!Goto
<1>3. b' = b
  BY <1>2 DEF Paid
<1>4. PayoutUnrecorded(r, u) = 0
  BY <1>2 DEF PayoutUnrecorded
<1> HIDE DEF b
<1>5. PayoutUnrecorded(r, u)' = IF Slip[b].user = u THEN Payout(b) ELSE 0
  BY <1>2, <1>3 DEF PayoutUnrecorded, b
<1>6. balance'[u] = IF Slip[b].user = u THEN balance[u] + Payout(b) ELSE balance[u]
  BY <1>0, <1>1, <1>2 DEF Credit
<1> QED
  BY <1>0, <1>1, <1>2, <1>4, <1>5, <1>6

\* One transaction more in a trail.
LEMMA RecordAdds ==
  ASSUME TypeOK, NEW u \in Users, NEW b \in Bets, NEW type \in {"BET_PLACED", "BET_WON"},
         NEW amount \in Int, NEW after \in Int
  PROVE  /\ Amounts(txs[u]) \in Int
         /\ Amounts(Record(txs, 1, b, type, amount, after)[u])
              = Amounts(txs[u]) + IF Slip[b].user = u THEN amount ELSE 0
<1> DEFINE tx == [ref |-> b, type |-> type, amount |-> amount, after |-> after]
           more == Record(txs, 1, b, type, amount, after)
<1>0. txs \in [Users -> Seq(Transaction)] /\ txs[u] \in Seq(Transaction)
  BY DEF TypeOK, StoreTypeOK, TrailTypeOK
<1>1. tx \in Transaction /\ tx.amount = amount
  BY DEF Transaction
<1>2. more[u] = IF Slip[b].user = u THEN txs[u] \o Copies(1, tx) ELSE txs[u]
  BY <1>0 DEF Record
<1> HIDE DEF tx, more
<1>3. /\ Amounts(txs[u]) \in Int
      /\ Amounts(txs[u] \o Copies(1, tx)) = Amounts(txs[u]) + amount
  BY <1>0, <1>1, AmountsAdd
<1> QED
  BY <1>2, <1>3 DEF more

LEMMA StakeIsRecorded ==
  ASSUME Steady, TypeOK, NEW r \in Replicas, NEW u \in Users, SaveDebitTx(r)
  PROVE  /\ UNCHANGED balance
         /\ Amounts(txs'[u]) - Amounts(txs[u])
              = StakeUnrecorded(r, u) - StakeUnrecorded(r, u)'
<1>0. betPc \in [Replicas -> BetLabels \cup {"fetch", "commit"}]
  BY DEF TypeOK, StoreTypeOK, BetsReader!ConsumerTypeOK
<1> DEFINE b == Bet(r)
<1>1. b \in Bets /\ -Stake(b) \in Int /\ betAfter[r] \in Int
  BY InHand, SlipTypes DEF SaveDebitTx, TypeOK, StoreTypeOK, LocalsTypeOK
<1>2. /\ betPc[r] = "saveTx" /\ betPc'[r] = "publishTx" /\ UNCHANGED balance
      /\ txs' = Record(txs, 1, b, "BET_PLACED", -Stake(b), betAfter[r])
  BY <1>0 DEF SaveDebitTx, SaveTx, CallFails, Steady, BetsReader!Goto, money
<1>3. /\ StakeUnrecorded(r, u) = IF Slip[b].user = u THEN -Stake(b) ELSE 0
      /\ StakeUnrecorded(r, u)' = 0
  BY <1>2 DEF StakeUnrecorded
<1> HIDE DEF b
<1>4. /\ Amounts(txs[u]) \in Int
      /\ Amounts(txs'[u]) = Amounts(txs[u]) + IF Slip[b].user = u THEN -Stake(b) ELSE 0
  BY <1>1, <1>2, RecordAdds
<1> QED
  BY <1>1, <1>2, <1>3, <1>4

LEMMA PayoutIsRecorded ==
  ASSUME Steady, TypeOK, NEW r \in Replicas, NEW u \in Users, SaveCreditTx(r)
  PROVE  /\ UNCHANGED balance
         /\ Amounts(txs'[u]) - Amounts(txs[u])
              = PayoutUnrecorded(r, u) - PayoutUnrecorded(r, u)'
<1>0. settlePc \in [Replicas -> SettleLabels \cup {"fetch", "commit"}]
  BY DEF TypeOK, StoreTypeOK, SettleReader!ConsumerTypeOK
<1> DEFINE b == Paid(r)
<1>1. b \in Bets /\ Payout(b) \in Int /\ paidAfter[r] \in Int
  BY InHand, SlipTypes DEF SaveCreditTx, TypeOK, StoreTypeOK, LocalsTypeOK, PayingLabels
<1>2. /\ settlePc[r] = "saveTx" /\ settlePc'[r] = "publishTx" /\ UNCHANGED balance
      /\ txs' = Record(txs, 1, b, "BET_WON", Payout(b), paidAfter[r])
  BY <1>0 DEF SaveCreditTx, SaveTx, CallFails, Steady, SettleReader!Goto, money
<1>3. /\ PayoutUnrecorded(r, u) = IF Slip[b].user = u THEN Payout(b) ELSE 0
      /\ PayoutUnrecorded(r, u)' = 0
  BY <1>2 DEF PayoutUnrecorded
<1> HIDE DEF b
<1>4. /\ Amounts(txs[u]) \in Int
      /\ Amounts(txs'[u]) = Amounts(txs[u]) + IF Slip[b].user = u THEN Payout(b) ELSE 0
  BY <1>1, <1>2, RecordAdds
<1> QED
  BY <1>1, <1>2, <1>3, <1>4

\* What changes the share of one handler, and that only, changes the sum by it.
LEMMA OneShareChanges ==
  ASSUME IsFiniteSet(Replicas), TypeOK, TypeOK', NEW u \in Users, NEW r \in Replicas,
         \A q \in Replicas : q # r => Unrecorded(u)'[q] = Unrecorded(u)[q]
  PROVE  /\ Sum(Unrecorded(u), Picking(Replicas), Replicas) \in Int
         /\ Sum(Unrecorded(u)', Picking(Replicas), Replicas)
              = Sum(Unrecorded(u), Picking(Replicas), Replicas)
                  + (Unrecorded(u)'[r] - Unrecorded(u)[r])
<1> DEFINE f == Unrecorded(u)
           g == f'
<1>1. \A q \in Replicas : f[q] \in Int
  BY UnrecordedTypes DEF Unrecorded, UnrecordedTypeOK
<1>2. \A q \in Replicas : g[q] \in Int
  <2>1. UnrecordedTypeOK'
    BY UnrecordedTypesNext
  <2> QED
    BY <2>1 DEF Unrecorded, UnrecordedTypeOK
<1>3. Picks(Picking(Replicas), Replicas)
  BY AnyPicks
<1>4. \A q \in Replicas : q # r => f[q] = g[q]
  OBVIOUS
<1> HIDE DEF f, g
<1>5. Sum(f, Picking(Replicas), Replicas) \in Int
  BY <1>1, <1>3, SumOfNumbers
<1>6. Sum(g, Picking(Replicas), Replicas) = Sum(f, Picking(Replicas), Replicas) + (g[r] - f[r])
  BY <1>1, <1>2, <1>3, <1>4, SumChanges
<1> QED
  BY <1>5, <1>6 DEF f, g

LEMMA AmountsAreNumbers ==
  ASSUME NEW trail \in Seq(Transaction)
  PROVE  Amounts(trail) \in Int
<1>1. \A i \in 1..Len(trail) : trail[i] \in Transaction
  BY ElementOfSeq
<1>2. \A i \in 1..Len(trail) : AmountsOf(trail)[i] \in Int
  BY <1>1 DEF AmountsOf, Transaction
<1>3. /\ Picks(Picking(Nat), 1..Len(trail)) /\ IsFiniteSet(1..Len(trail))
      /\ DOMAIN trail = 1..Len(trail)
  BY AnyPicks, FS_Interval
<1> QED
  BY <1>2, <1>3, AmountsAreSums, SumOfNumbers

LEMMA StillAddsUp ==
  ASSUME NEW opening \in Int, NEW before \in Int, NEW after \in Int,
         NEW said \in Int, NEW said1 \in Int, NEW total \in Int, NEW total1,
         NEW share \in Int, NEW share1 \in Int,
         before = opening + said + total, total1 = total + (share1 - share),
         after - before = (said1 - said) + (share1 - share)
  PROVE  after = opening + said1 + total1
OBVIOUS

LEMMA RecordedStep ==
  ASSUME Steady, IsFiniteSet(Replicas), TypeOK, SavingInv, RecordedInv, [Next]_vars
  PROVE  RecordedInv'
<1> SUFFICES ASSUME NEW u \in Users
             PROVE  balance'[u] = Opening[u] + Amounts(txs'[u])
                                    + Sum(Unrecorded(u)', Picking(Replicas), Replicas)
  BY DEF RecordedInv
<1> DEFINE total == Sum(Unrecorded(u), Picking(Replicas), Replicas)
           total1 == Sum(Unrecorded(u)', Picking(Replicas), Replicas)
<1>0. /\ balance[u] \in Int /\ balance'[u] \in Int /\ Opening[u] \in Int
      /\ TypeOK' /\ txs[u] \in Seq(Transaction) /\ txs'[u] \in Seq(Transaction)
  BY TypeStep, OpeningAssumption DEF TypeOK, StoreTypeOK, MoneyTypeOK, TrailTypeOK
<1>1. Amounts(txs[u]) \in Int /\ Amounts(txs'[u]) \in Int
  BY <1>0, AmountsAreNumbers
<1>2. balance[u] = Opening[u] + Amounts(txs[u]) + total
  BY DEF RecordedInv
<1>3. \A q \in Replicas :
        /\ Unrecorded(u)[q] = StakeUnrecorded(q, u) + PayoutUnrecorded(q, u)
        /\ Unrecorded(u)'[q] = StakeUnrecorded(q, u)' + PayoutUnrecorded(q, u)'
        /\ StakeUnrecorded(q, u) \in Int /\ PayoutUnrecorded(q, u) \in Int
        /\ StakeUnrecorded(q, u)' \in Int /\ PayoutUnrecorded(q, u)' \in Int
  BY <1>0, UnrecordedTypes, UnrecordedTypesNext DEF Unrecorded, UnrecordedTypeOK
<1>4. ASSUME NEW r \in Replicas,
             \A q \in Replicas : q # r => Unrecorded(u)'[q] = Unrecorded(u)[q],
             balance'[u] - balance[u] = (Amounts(txs'[u]) - Amounts(txs[u]))
                                          + (Unrecorded(u)'[r] - Unrecorded(u)[r])
      PROVE  balance'[u] = Opening[u] + Amounts(txs'[u]) + total1
  <2>1. /\ total \in Int
        /\ total1 = total + (Unrecorded(u)'[r] - Unrecorded(u)[r])
    BY <1>0, <1>4, OneShareChanges
  <2> DEFINE share == Unrecorded(u)[r]
             share1 == Unrecorded(u)'[r]
             said == Amounts(txs[u])
             said1 == Amounts(txs'[u])
  <2>0. balance[u] \in Int /\ balance'[u] \in Int /\ Opening[u] \in Int
    BY <1>0
  <2>2. share \in Int /\ share1 \in Int /\ said \in Int /\ said1 \in Int
    BY <1>1, <1>3
  <2>3. balance'[u] - balance[u] = (said1 - said) + (share1 - share)
    BY <1>4
  <2>4. total \in Int /\ total1 = total + (share1 - share)
    BY <2>1
  <2>5. balance[u] = Opening[u] + said + total
    BY <1>2
  <2> HIDE DEF total, total1, share, share1, said, said1
  <2>6. balance'[u] = Opening[u] + said1 + total1
    BY <2>0, <2>2, <2>3, <2>4, <2>5, StillAddsUp
  <2> QED
    BY <2>6 DEF said1
<1>5. ASSUME NEW r \in Replicas, DebitStake(r)
      PROVE  balance'[u] = Opening[u] + Amounts(txs'[u]) + total1
  <2>1. \A q \in Replicas : /\ q # r => StakeUnrecorded(q, u)' = StakeUnrecorded(q, u)
                            /\ PayoutUnrecorded(q, u)' = PayoutUnrecorded(q, u)
    BY <1>5, OtherHands
  <2>2. /\ UNCHANGED txs
        /\ balance'[u] - balance[u] = StakeUnrecorded(r, u)' - StakeUnrecorded(r, u)
    BY <1>5, StakeIsTaken
  <2> QED
    BY <1>0, <1>1, <1>3, <1>4, <2>1, <2>2
<1>6. ASSUME NEW r \in Replicas, SaveDebitTx(r)
      PROVE  balance'[u] = Opening[u] + Amounts(txs'[u]) + total1
  <2>1. \A q \in Replicas : /\ q # r => StakeUnrecorded(q, u)' = StakeUnrecorded(q, u)
                            /\ PayoutUnrecorded(q, u)' = PayoutUnrecorded(q, u)
    BY <1>6, OtherHands
  <2>2. /\ UNCHANGED balance
        /\ Amounts(txs'[u]) - Amounts(txs[u])
             = StakeUnrecorded(r, u) - StakeUnrecorded(r, u)'
    BY <1>6, StakeIsRecorded
  <2> QED
    BY <1>0, <1>1, <1>3, <1>4, <2>1, <2>2
<1>7. ASSUME NEW r \in Replicas, CreditPayout(r)
      PROVE  balance'[u] = Opening[u] + Amounts(txs'[u]) + total1
  <2>1. \A q \in Replicas : /\ StakeUnrecorded(q, u)' = StakeUnrecorded(q, u)
                            /\ q # r => PayoutUnrecorded(q, u)' = PayoutUnrecorded(q, u)
    BY <1>7, OtherHands
  <2>2. /\ UNCHANGED txs
        /\ balance'[u] - balance[u] = PayoutUnrecorded(r, u)' - PayoutUnrecorded(r, u)
    BY <1>7, PayoutIsGiven
  <2> QED
    BY <1>0, <1>1, <1>3, <1>4, <2>1, <2>2
<1>8. ASSUME NEW r \in Replicas, SaveCreditTx(r)
      PROVE  balance'[u] = Opening[u] + Amounts(txs'[u]) + total1
  <2>1. \A q \in Replicas : /\ StakeUnrecorded(q, u)' = StakeUnrecorded(q, u)
                            /\ q # r => PayoutUnrecorded(q, u)' = PayoutUnrecorded(q, u)
    BY <1>8, OtherHands
  <2>2. /\ UNCHANGED balance
        /\ Amounts(txs'[u]) - Amounts(txs[u])
             = PayoutUnrecorded(r, u) - PayoutUnrecorded(r, u)'
    BY <1>8, PayoutIsRecorded
  <2> QED
    BY <1>0, <1>1, <1>3, <1>4, <2>1, <2>2
<1>9. ASSUME \A r \in Replicas : /\ ~DebitStake(r) /\ ~SaveDebitTx(r)
                                 /\ ~CreditPayout(r) /\ ~SaveCreditTx(r)
      PROVE  balance'[u] = Opening[u] + Amounts(txs'[u]) + total1
  <2>1. UNCHANGED <<balance, txs>>
    BY <1>9, MoneyWriters, TrailWriters DEF money, wallet, PublishDebitTx, PublishCreditTx
  <2>2. \A q \in Replicas : /\ StakeUnrecorded(q, u)' = StakeUnrecorded(q, u)
                            /\ PayoutUnrecorded(q, u)' = PayoutUnrecorded(q, u)
    BY <1>9, StakesInHand, PayoutsInHand
  <2>3. Unrecorded(u)' = Unrecorded(u)
    BY <2>2 DEF Unrecorded
  <2> QED
    BY <1>2, <2>1, <2>3
<1> QED
  BY <1>5, <1>6, <1>7, <1>8, <1>9

LEMMA SumOfZeros ==
  ASSUME NEW S, IsFiniteSet(S), NEW f, \A x \in S : f[x] = 0, NEW pick, Picks(pick, S)
  PROVE  Sum(f, pick, S) = 0
<1>1. PICK sum : SumsUp(sum, f, pick, S) /\ Sum(f, pick, S) = sum[S]
  BY SumAddsUp
<1> DEFINE zeros == [s \in SUBSET S |-> 0]
<1>2. SumsUp(zeros, f, pick, S)
  <2>1. \A s \in SUBSET S : s # {} => pick[s] \in S /\ s \ {pick[s]} \in SUBSET S
    BY DEF Picks
  <2>2. \A s \in SUBSET S : (IF s = {} THEN 0 ELSE f[pick[s]] + zeros[s \ {pick[s]}]) = 0
    BY <2>1
  <2> QED
    BY <2>2 DEF SumsUp
<1>3. S \in SUBSET S
  OBVIOUS
<1>4. zeros[S] = 0
  BY <1>3
<1> HIDE DEF zeros
<1>5. sum[S] = zeros[S]
  BY <1>1, <1>2, <1>3, SumsAgree
<1> QED
  BY <1>1, <1>4, <1>5

LEMMA NothingUnrecorded ==
  ASSUME IsFiniteSet(Replicas), NEW u,
         \A r \in Replicas : betPc[r] = "fetch" /\ settlePc[r] = "fetch"
  PROVE  Sum(Unrecorded(u), Picking(Replicas), Replicas) = 0
<1>1. \A r \in Replicas : Unrecorded(u)[r] = 0
  BY DEF Unrecorded, StakeUnrecorded, PayoutUnrecorded
<1>2. Picks(Picking(Replicas), Replicas)
  BY AnyPicks
<1> QED
  BY <1>1, <1>2, SumOfZeros

LEMMA RecordedInit ==
  ASSUME IsFiniteSet(Replicas), Init
  PROVE  SavingInv /\ RecordedInv
<1>1. \A r \in Replicas : betPc[r] = "fetch" /\ settlePc[r] = "fetch"
  BY DEF Init, StoreInit, BetsReader!ConsumerInit, SettleReader!ConsumerInit
<1>2. SavingInv
  BY <1>1 DEF SavingInv
<1>3. ASSUME NEW u \in Users
      PROVE  balance[u] = Opening[u] + Amounts(txs[u])
                            + Sum(Unrecorded(u), Picking(Replicas), Replicas)
  <2>1. balance[u] = Opening[u] /\ Opening[u] \in Int /\ txs[u] = <<>>
    BY OpeningAssumption DEF Init, StoreInit
  <2>2. Sum(Unrecorded(u), Picking(Replicas), Replicas) = 0
    BY <1>1, NothingUnrecorded
  <2> QED
    BY <2>1, <2>2, NoAmounts
<1> QED
  BY <1>2, <1>3 DEF RecordedInv

-----------------------------------------------------------------------------
\* The topic tells what Mongo tells.

\* The transactions that are in Mongo and not yet, or not for certain, published.
DebitTx(r) == [ref |-> Bet(r), type |-> "BET_PLACED", amount |-> -Stake(Bet(r)),
               after |-> betAfter[r]]
CreditTx(r) == [ref |-> Paid(r), type |-> "BET_WON", amount |-> Payout(Paid(r)),
                after |-> paidAfter[r]]
DebitInFlight(r, u) ==
  IF betPc[r] = "publishTx" /\ Slip[Bet(r)].user = u THEN {DebitTx(r)} ELSE {}
CreditInFlight(r, u) ==
  IF settlePc[r] = "publishTx" /\ Slip[Paid(r)].user = u THEN {CreditTx(r)} ELSE {}

\* The strengthening: what Mongo has and the topic has not is in flight, and what
\* the topic has or is in flight is in Mongo.
InFlight(u) == UNION {DebitInFlight(r, u) \cup CreditInFlight(r, u) : r \in Replicas}
PublishedInv ==
  \A u \in Users : ToSet(txs[u]) = ToSet(walletLog[u]) \cup InFlight(u)

LEMMA CopiesTell ==
  ASSUME NEW old \in Seq(Transaction), NEW tx \in Transaction, NEW n \in 1..2
  PROVE  ToSet(old \o Copies(n, tx)) = ToSet(old) \cup {tx}
<1> DEFINE last == Copies(n, tx)
           both == old \o last
<1>1. n \in Nat /\ Len(last) = n /\ \A i \in 1..n : last[i] = tx
  BY DEF Copies
<1>2. last \in Seq(Transaction)
  BY <1>1, CopiesType
<1> HIDE DEF last
<1>3. /\ both \in Seq(Transaction) /\ Len(both) = Len(old) + n
      /\ \A i \in 1..(Len(old) + n) :
           both[i] = IF i <= Len(old) THEN old[i] ELSE last[i - Len(old)]
  BY <1>1, <1>2, ConcatProperties
<1> HIDE DEF both
<1>4. Len(old) \in Nat /\ DOMAIN old = 1..Len(old) /\ DOMAIN both = 1..(Len(old) + n)
  BY <1>3
<1>5. \A i \in 1..Len(old) : both[i] = old[i]
  BY <1>1, <1>3, <1>4
<1>6. \A i \in (Len(old) + 1)..(Len(old) + n) : both[i] = tx
  BY <1>1, <1>3, <1>4
<1>7. ToSet(both) \subseteq ToSet(old) \cup {tx}
  BY <1>1, <1>4, <1>5, <1>6 DEF ToSet
<1>8. ToSet(old) \subseteq ToSet(both)
  BY <1>1, <1>4, <1>5 DEF ToSet
<1>9. tx \in ToSet(both)
  <2>1. Len(old) + 1 \in DOMAIN both /\ both[Len(old) + 1] = tx
    BY <1>4, <1>6
  <2> QED
    BY <2>1 DEF ToSet
<1>10. ToSet(both) = ToSet(old) \cup {tx}
  BY <1>7, <1>8, <1>9
<1> QED
  BY <1>10 DEF both, last

LEMMA InFlightStays ==
  ASSUME Steady, TypeOK, [Next]_vars, NEW r \in Replicas, NEW u
  PROVE  /\ ~SaveDebitTx(r) /\ ~PublishDebitTx(r) => DebitInFlight(r, u)' = DebitInFlight(r, u)
         /\ ~SaveCreditTx(r) /\ ~PublishCreditTx(r) => CreditInFlight(r, u)' = CreditInFlight(r, u)
<1>0. /\ betPc \in [Replicas -> BetLabels \cup {"fetch", "commit"}]
      /\ settlePc \in [Replicas -> SettleLabels \cup {"fetch", "commit"}]
      /\ betAfter \in [Replicas -> Int] /\ paidAfter \in [Replicas -> Int]
      /\ paying \in [Replicas -> SUBSET Bets]
  BY DEF TypeOK, StoreTypeOK, LocalsTypeOK, BetsReader!ConsumerTypeOK,
         SettleReader!ConsumerTypeOK
<1>1. ASSUME ~SaveDebitTx(r), ~PublishDebitTx(r)
      PROVE  DebitInFlight(r, u)' = DebitInFlight(r, u)
  <2>1. betPc'[r] = "publishTx" <=> betPc[r] = "publishTx"
    <3>1. CASE RunBets(r)
      BY <1>0, <1>1, <3>1 DEF RunBets, BetLoop, HandleBetPlaced, Check, Suspension, Odds,
         SuspensionUnknown, DebitStake, DebitRefused, SaveBet,
         BetsReader!Goto, BetsReader!ReturnNil, BetsReader!ReturnError,
         BetsReader!Fetch, BetsReader!Commit
    <3> QED
      BY <3>1, BetPcWriters DEF Crash, Steady
  <2>2. betPc[r] = "publishTx" => Bet(r)' = Bet(r)
    BY <2>1, BetStays
  <2>3. betPc[r] = "publishTx" => betAfter'[r] = betAfter[r]
    <3>1. ASSUME NEW q \in Replicas, HandleBetPlaced(q), betPc[r] = "publishTx"
          PROVE  betAfter'[r] = betAfter[r]
      BY <1>0, <1>1, <3>1 DEF HandleBetPlaced, Check, Suspension, Odds, DebitStake,
         DebitRefused, SaveBet, SaveDebitTx, PublishDebitTx, betLocals
    <3> QED
      BY <3>1, BetLocalsWriters DEF betLocals, Crash, Steady
  <2> QED
    BY <2>1, <2>2, <2>3 DEF DebitInFlight, DebitTx
<1>2. ASSUME ~SaveCreditTx(r), ~PublishCreditTx(r)
      PROVE  CreditInFlight(r, u)' = CreditInFlight(r, u)
  <2>1. \/ UNCHANGED <<settlePc[r], paying[r]>>
        \/ settlePc[r] # "publishTx" /\ settlePc'[r] # "publishTx"
    <3>1. CASE RunSettlement(r)
      BY <1>0, <1>2, <3>1 DEF RunSettlement, SettleLoop, HandleBetSettled, FindBets,
         UpdateBet, Settled, CreditPayout, CreditIsDropped, settleReader,
         settleLocals, SettleReader!Goto, SettleReader!ReturnNil,
         SettleReader!ReturnError, SettleReader!Fetch, SettleReader!Commit
    <3> QED
      BY <3>1, PayingWriters DEF Crash, Steady
  <2>2. UNCHANGED paying[r] => Paid(r)' = Paid(r)
    BY DEF Paid
  <2>3. settlePc[r] = "publishTx" => paidAfter'[r] = paidAfter[r]
    <3>1. ASSUME NEW q \in Replicas, RunSettlement(q), settlePc[r] = "publishTx"
          PROVE  paidAfter'[r] = paidAfter[r]
      BY <1>0, <1>2, <3>1 DEF RunSettlement, SettleLoop, HandleBetSettled, FindBets,
         UpdateBet, Settled, CreditPayout, CreditIsDropped, SaveCreditTx,
         PublishCreditTx, settleLocals
    <3> QED
      BY <3>1, SettleWriters DEF settleLocals, Crash, Steady
  <2> QED
    BY <2>1, <2>2, <2>3 DEF CreditInFlight, CreditTx
<1> QED
  BY <1>1, <1>2

LEMMA OtherFlights ==
  ASSUME TypeOK, NEW r \in Replicas, NEW q \in Replicas, NEW u
  PROVE  /\ SaveDebitTx(r) \/ PublishDebitTx(r) =>
              /\ q # r => DebitInFlight(q, u)' = DebitInFlight(q, u)
              /\ CreditInFlight(q, u)' = CreditInFlight(q, u)
         /\ SaveCreditTx(r) \/ PublishCreditTx(r) =>
              /\ DebitInFlight(q, u)' = DebitInFlight(q, u)
              /\ q # r => CreditInFlight(q, u)' = CreditInFlight(q, u)
<1>0. /\ betPc \in [Replicas -> BetLabels \cup {"fetch", "commit"}]
      /\ settlePc \in [Replicas -> SettleLabels \cup {"fetch", "commit"}]
      /\ betAfter \in [Replicas -> Int] /\ paidAfter \in [Replicas -> Int]
      /\ paying \in [Replicas -> SUBSET Bets]
  BY DEF TypeOK, StoreTypeOK, LocalsTypeOK, BetsReader!ConsumerTypeOK,
         SettleReader!ConsumerTypeOK
<1>1. ASSUME SaveDebitTx(r) \/ PublishDebitTx(r)
      PROVE  /\ UNCHANGED <<betAt, betLog, settlePc, paying, paidAfter>>
             /\ q # r => UNCHANGED <<betPc[q], betAfter[q]>>
  BY <1>0, <1>1 DEF SaveDebitTx, PublishDebitTx, settleReader, betLocals,
       settleLocals, BetsReader!Goto, BetsReader!ReturnNil
<1>2. ASSUME SaveCreditTx(r) \/ PublishCreditTx(r)
      PROVE  /\ UNCHANGED <<betAt, betLog, betPc, betAfter>>
             /\ q # r => UNCHANGED <<settlePc[q], paying[q], paidAfter[q]>>
  BY <1>0, <1>2 DEF SaveCreditTx, PublishCreditTx, NextBet, SettleFrame, betReader, betLocals,
       settleLocals, SettleReader!Goto
<1>3. UNCHANGED <<betAt, betLog>> => Bet(q)' = Bet(q)
  BY DEF Bet, BetsReader!Current
<1>4. UNCHANGED paying[q] => Paid(q)' = Paid(q)
  BY DEF Paid
<1>5. ASSUME UNCHANGED <<betAt, betLog, betPc[q], betAfter[q]>>
      PROVE  DebitInFlight(q, u)' = DebitInFlight(q, u)
  BY <1>3, <1>5 DEF DebitInFlight, DebitTx
<1>6. ASSUME UNCHANGED <<settlePc[q], paying[q], paidAfter[q]>>
      PROVE  CreditInFlight(q, u)' = CreditInFlight(q, u)
  BY <1>4, <1>6 DEF CreditInFlight, CreditTx
<1> QED
  BY <1>1, <1>2, <1>5, <1>6

\* A transaction is recorded by the handler that then has it in flight, and is
\* published, once or again, before it is not.
LEMMA TakesOff ==
  ASSUME Steady, TypeOK, NEW r \in Replicas, NEW u \in Users
  PROVE  /\ SaveDebitTx(r) =>
              /\ DebitInFlight(r, u) = {} /\ UNCHANGED walletLog
              /\ ToSet(txs'[u]) = ToSet(txs[u]) \cup DebitInFlight(r, u)'
         /\ SaveCreditTx(r) =>
              /\ CreditInFlight(r, u) = {} /\ UNCHANGED walletLog
              /\ ToSet(txs'[u]) = ToSet(txs[u]) \cup CreditInFlight(r, u)'
<1>0. /\ betPc \in [Replicas -> BetLabels \cup {"fetch", "commit"}]
      /\ settlePc \in [Replicas -> SettleLabels \cup {"fetch", "commit"}]
      /\ betAfter[r] \in Int /\ paidAfter[r] \in Int
      /\ txs \in [Users -> Seq(Transaction)]
  BY DEF TypeOK, StoreTypeOK, LocalsTypeOK, TrailTypeOK, BetsReader!ConsumerTypeOK,
         SettleReader!ConsumerTypeOK
<1>1. ASSUME SaveDebitTx(r)
      PROVE  /\ DebitInFlight(r, u) = {} /\ UNCHANGED walletLog
             /\ ToSet(txs'[u]) = ToSet(txs[u]) \cup DebitInFlight(r, u)'
  <2>1. /\ betPc[r] = "saveTx" /\ betPc'[r] = "publishTx"
        /\ UNCHANGED <<walletLog, betAt, betLog, betAfter>>
        /\ txs' = Record(txs, 1, Bet(r), "BET_PLACED", -Stake(Bet(r)), betAfter[r])
    BY <1>0, <1>1 DEF SaveDebitTx, SaveTx, CallFails, Steady, BetsReader!Goto, betLocals
  <2>2. Bet(r)' = Bet(r)
    BY <2>1 DEF Bet, BetsReader!Current
  <2>3. Bet(r) \in Bets /\ -Stake(Bet(r)) \in Int
    BY <2>1, InHand, SlipTypes DEF TypeOK
  <2>4. DebitInFlight(r, u)' = IF Slip[Bet(r)].user = u THEN {DebitTx(r)} ELSE {}
    BY <2>1, <2>2 DEF DebitInFlight, DebitTx
  <2>5. ToSet(txs'[u]) = ToSet(txs[u])
                           \cup IF Slip[Bet(r)].user = u THEN {DebitTx(r)} ELSE {}
    <3> DEFINE tx == DebitTx(r)
               old == txs[u]
    <3>1. tx \in Transaction
      BY <1>0, <2>3 DEF DebitTx, Transaction
    <3>2. old \in Seq(Transaction) /\ 1 \in 1..2
      BY <1>0
    <3>3. txs'[u] = IF Slip[Bet(r)].user = u THEN old \o Copies(1, tx) ELSE old
      BY <1>0, <2>1 DEF Record, DebitTx
    <3> HIDE DEF tx, old
    <3>4. ToSet(old \o Copies(1, tx)) = ToSet(old) \cup {tx}
      BY <3>1, <3>2, CopiesTell
    <3>5. ToSet(txs'[u]) = ToSet(old) \cup IF Slip[Bet(r)].user = u THEN {tx} ELSE {}
      BY <3>3, <3>4
    <3> QED
      BY <3>5 DEF tx, old
  <2> QED
    BY <2>1, <2>4, <2>5 DEF DebitInFlight
<1>2. ASSUME SaveCreditTx(r)
      PROVE  /\ CreditInFlight(r, u) = {} /\ UNCHANGED walletLog
             /\ ToSet(txs'[u]) = ToSet(txs[u]) \cup CreditInFlight(r, u)'
  <2>1. /\ settlePc[r] = "saveTx" /\ settlePc'[r] = "publishTx"
        /\ UNCHANGED <<walletLog, paying, paidAfter>>
        /\ txs' = Record(txs, 1, Paid(r), "BET_WON", Payout(Paid(r)), paidAfter[r])
    BY <1>0, <1>2 DEF SaveCreditTx, SaveTx, CallFails, Steady, SettleReader!Goto, settleLocals
  <2>2. Paid(r)' = Paid(r)
    BY <2>1 DEF Paid
  <2>3. Paid(r) \in Bets /\ Payout(Paid(r)) \in Int
    BY <2>1, InHand, SlipTypes DEF TypeOK, PayingLabels
  <2>4. CreditInFlight(r, u)' = IF Slip[Paid(r)].user = u THEN {CreditTx(r)} ELSE {}
    BY <2>1, <2>2 DEF CreditInFlight, CreditTx
  <2>5. ToSet(txs'[u]) = ToSet(txs[u])
                           \cup IF Slip[Paid(r)].user = u THEN {CreditTx(r)} ELSE {}
    <3> DEFINE tx == CreditTx(r)
               old == txs[u]
    <3>1. tx \in Transaction
      BY <1>0, <2>3 DEF CreditTx, Transaction
    <3>2. old \in Seq(Transaction) /\ 1 \in 1..2
      BY <1>0
    <3>3. txs'[u] = IF Slip[Paid(r)].user = u THEN old \o Copies(1, tx) ELSE old
      BY <1>0, <2>1 DEF Record, CreditTx
    <3> HIDE DEF tx, old
    <3>4. ToSet(old \o Copies(1, tx)) = ToSet(old) \cup {tx}
      BY <3>1, <3>2, CopiesTell
    <3>5. ToSet(txs'[u]) = ToSet(old) \cup IF Slip[Paid(r)].user = u THEN {tx} ELSE {}
      BY <3>3, <3>4
    <3> QED
      BY <3>5 DEF tx, old
  <2> QED
    BY <2>1, <2>4, <2>5 DEF CreditInFlight
<1> QED
  BY <1>1, <1>2

LEMMA Lands ==
  ASSUME Steady, TypeOK, NEW r \in Replicas, NEW u \in Users
  PROVE  /\ PublishDebitTx(r) =>
              /\ DebitInFlight(r, u)' = {} /\ UNCHANGED txs
              /\ ToSet(walletLog'[u]) = ToSet(walletLog[u]) \cup DebitInFlight(r, u)
         /\ PublishCreditTx(r) =>
              /\ CreditInFlight(r, u)' = {} /\ UNCHANGED txs
              /\ ToSet(walletLog'[u]) = ToSet(walletLog[u]) \cup CreditInFlight(r, u)
<1>0. /\ betPc \in [Replicas -> BetLabels \cup {"fetch", "commit"}]
      /\ settlePc \in [Replicas -> SettleLabels \cup {"fetch", "commit"}]
      /\ betAfter[r] \in Int /\ paidAfter[r] \in Int
      /\ walletLog \in [Users -> Seq(Transaction)]
  BY DEF TypeOK, StoreTypeOK, LocalsTypeOK, TrailTypeOK, BetsReader!ConsumerTypeOK,
         SettleReader!ConsumerTypeOK
<1>1. ASSUME PublishDebitTx(r)
      PROVE  /\ DebitInFlight(r, u)' = {} /\ UNCHANGED txs
             /\ ToSet(walletLog'[u]) = ToSet(walletLog[u]) \cup DebitInFlight(r, u)
  <2>1. /\ betPc[r] = "publishTx" /\ betPc'[r] = "commit" /\ UNCHANGED txs
        /\ PublishTx(Bet(r), "BET_PLACED", -Stake(Bet(r)), betAfter[r])
    BY <1>0, <1>1 DEF PublishDebitTx, BetsReader!Goto, BetsReader!ReturnNil
  <2>2. PICK n \in 1..2 :
          walletLog' = Record(walletLog, n, Bet(r), "BET_PLACED", -Stake(Bet(r)), betAfter[r])
    BY <2>1 DEF PublishTx, Written, CallFails, Steady
  <2>3. Bet(r) \in Bets /\ -Stake(Bet(r)) \in Int
    BY <2>1, InHand, SlipTypes DEF TypeOK
  <2>4. ToSet(walletLog'[u]) = ToSet(walletLog[u])
                                 \cup IF Slip[Bet(r)].user = u THEN {DebitTx(r)} ELSE {}
    <3> DEFINE tx == DebitTx(r)
               old == walletLog[u]
    <3>1. tx \in Transaction
      BY <1>0, <2>3 DEF DebitTx, Transaction
    <3>2. old \in Seq(Transaction) /\ n \in 1..2
      BY <1>0
    <3>3. walletLog'[u] = IF Slip[Bet(r)].user = u THEN old \o Copies(n, tx) ELSE old
      BY <1>0, <2>2 DEF Record, DebitTx
    <3> HIDE DEF tx, old
    <3>4. ToSet(old \o Copies(n, tx)) = ToSet(old) \cup {tx}
      BY <3>1, <3>2, CopiesTell
    <3>5. ToSet(walletLog'[u]) = ToSet(old) \cup IF Slip[Bet(r)].user = u THEN {tx} ELSE {}
      BY <3>3, <3>4
    <3> QED
      BY <3>5 DEF tx, old
  <2> QED
    BY <2>1, <2>4 DEF DebitInFlight
<1>2. ASSUME PublishCreditTx(r)
      PROVE  /\ CreditInFlight(r, u)' = {} /\ UNCHANGED txs
             /\ ToSet(walletLog'[u]) = ToSet(walletLog[u]) \cup CreditInFlight(r, u)
  <2>1. /\ settlePc[r] = "publishTx" /\ settlePc'[r] = "next" /\ UNCHANGED txs
        /\ PublishTx(Paid(r), "BET_WON", Payout(Paid(r)), paidAfter[r])
    BY <1>0, <1>2 DEF PublishCreditTx, NextBet, SettleReader!Goto
  <2>2. PICK n \in 1..2 :
          walletLog' = Record(walletLog, n, Paid(r), "BET_WON", Payout(Paid(r)), paidAfter[r])
    BY <2>1 DEF PublishTx, Written, CallFails, Steady
  <2>3. Paid(r) \in Bets /\ Payout(Paid(r)) \in Int
    BY <2>1, InHand, SlipTypes DEF TypeOK, PayingLabels
  <2>4. ToSet(walletLog'[u]) = ToSet(walletLog[u])
                                 \cup IF Slip[Paid(r)].user = u THEN {CreditTx(r)} ELSE {}
    <3> DEFINE tx == CreditTx(r)
               old == walletLog[u]
    <3>1. tx \in Transaction
      BY <1>0, <2>3 DEF CreditTx, Transaction
    <3>2. old \in Seq(Transaction) /\ n \in 1..2
      BY <1>0
    <3>3. walletLog'[u] = IF Slip[Paid(r)].user = u THEN old \o Copies(n, tx) ELSE old
      BY <1>0, <2>2 DEF Record, CreditTx
    <3> HIDE DEF tx, old
    <3>4. ToSet(old \o Copies(n, tx)) = ToSet(old) \cup {tx}
      BY <3>1, <3>2, CopiesTell
    <3>5. ToSet(walletLog'[u]) = ToSet(old) \cup IF Slip[Paid(r)].user = u THEN {tx} ELSE {}
      BY <3>3, <3>4
    <3> QED
      BY <3>5 DEF tx, old
  <2> QED
    BY <2>1, <2>4 DEF CreditInFlight
<1> QED
  BY <1>1, <1>2

LEMMA OneFlightChanges ==
  ASSUME NEW r \in Replicas, NEW u,
         \A q \in Replicas : q # r => /\ DebitInFlight(q, u)' = DebitInFlight(q, u)
                                      /\ CreditInFlight(q, u)' = CreditInFlight(q, u)
  PROVE  /\ CreditInFlight(r, u)' = CreditInFlight(r, u) =>
              /\ DebitInFlight(r, u) = {} => InFlight(u)' = InFlight(u) \cup DebitInFlight(r, u)'
              /\ DebitInFlight(r, u)' = {} => InFlight(u) = InFlight(u)' \cup DebitInFlight(r, u)
         /\ DebitInFlight(r, u)' = DebitInFlight(r, u) =>
              /\ CreditInFlight(r, u) = {} => InFlight(u)' = InFlight(u) \cup CreditInFlight(r, u)'
              /\ CreditInFlight(r, u)' = {} => InFlight(u) = InFlight(u)' \cup CreditInFlight(r, u)
BY DEF InFlight

LEMMA PublishedStep ==
  ASSUME Steady, TypeOK, PublishedInv, [Next]_vars
  PROVE  PublishedInv'
<1> SUFFICES ASSUME NEW u \in Users
             PROVE  ToSet(txs'[u]) = ToSet(walletLog'[u]) \cup InFlight(u)'
  BY DEF PublishedInv
<1>1. ToSet(txs[u]) = ToSet(walletLog[u]) \cup InFlight(u)
  BY DEF PublishedInv
<1> DEFINE recorded == ToSet(txs[u])
           told == ToSet(walletLog[u])
           flying == InFlight(u)
           recorded1 == ToSet(txs'[u])
           told1 == ToSet(walletLog'[u])
           flying1 == InFlight(u)'
<1>2. ASSUME NEW r \in Replicas, SaveDebitTx(r) PROVE recorded1 = told1 \cup flying1
  <2>1. /\ DebitInFlight(r, u) = {} /\ told1 = told
        /\ recorded1 = recorded \cup DebitInFlight(r, u)'
    BY <1>2, TakesOff
  <2>2. \A q \in Replicas : /\ q # r => DebitInFlight(q, u)' = DebitInFlight(q, u)
                            /\ CreditInFlight(q, u)' = CreditInFlight(q, u)
    BY <1>2, OtherFlights
  <2>3. flying1 = flying \cup DebitInFlight(r, u)'
    BY <2>1, <2>2, OneFlightChanges
  <2> QED
    BY <1>1, <2>1, <2>3
<1>3. ASSUME NEW r \in Replicas, SaveCreditTx(r) PROVE recorded1 = told1 \cup flying1
  <2>1. /\ CreditInFlight(r, u) = {} /\ told1 = told
        /\ recorded1 = recorded \cup CreditInFlight(r, u)'
    BY <1>3, TakesOff
  <2>2. \A q \in Replicas : /\ DebitInFlight(q, u)' = DebitInFlight(q, u)
                            /\ q # r => CreditInFlight(q, u)' = CreditInFlight(q, u)
    BY <1>3, OtherFlights
  <2>3. flying1 = flying \cup CreditInFlight(r, u)'
    BY <2>1, <2>2, OneFlightChanges
  <2> QED
    BY <1>1, <2>1, <2>3
<1>4. ASSUME NEW r \in Replicas, PublishDebitTx(r) PROVE recorded1 = told1 \cup flying1
  <2>1. /\ DebitInFlight(r, u)' = {} /\ recorded1 = recorded
        /\ told1 = told \cup DebitInFlight(r, u)
    BY <1>4, Lands
  <2>2. \A q \in Replicas : /\ q # r => DebitInFlight(q, u)' = DebitInFlight(q, u)
                            /\ CreditInFlight(q, u)' = CreditInFlight(q, u)
    BY <1>4, OtherFlights
  <2>3. flying = flying1 \cup DebitInFlight(r, u)
    BY <2>1, <2>2, OneFlightChanges
  <2> QED
    BY <1>1, <2>1, <2>3
<1>5. ASSUME NEW r \in Replicas, PublishCreditTx(r) PROVE recorded1 = told1 \cup flying1
  <2>1. /\ CreditInFlight(r, u)' = {} /\ recorded1 = recorded
        /\ told1 = told \cup CreditInFlight(r, u)
    BY <1>5, Lands
  <2>2. \A q \in Replicas : /\ DebitInFlight(q, u)' = DebitInFlight(q, u)
                            /\ q # r => CreditInFlight(q, u)' = CreditInFlight(q, u)
    BY <1>5, OtherFlights
  <2>3. flying = flying1 \cup CreditInFlight(r, u)
    BY <2>1, <2>2, OneFlightChanges
  <2> QED
    BY <1>1, <2>1, <2>3
<1>6. ASSUME \A r \in Replicas : /\ ~SaveDebitTx(r) /\ ~SaveCreditTx(r)
                                 /\ ~PublishDebitTx(r) /\ ~PublishCreditTx(r)
      PROVE  recorded1 = told1 \cup flying1
  <2>1. UNCHANGED wallet
    BY <1>6, TrailWriters
  <2>2. \A r \in Replicas : /\ DebitInFlight(r, u)' = DebitInFlight(r, u)
                            /\ CreditInFlight(r, u)' = CreditInFlight(r, u)
    BY <1>6, InFlightStays
  <2>3. flying1 = flying
    BY <2>2 DEF InFlight
  <2> QED
    BY <1>1, <2>1, <2>3 DEF wallet
<1> QED
  BY <1>2, <1>3, <1>4, <1>5, <1>6

LEMMA PublishedInit == Init => PublishedInv
<1> SUFFICES ASSUME Init, NEW u \in Users
             PROVE  ToSet(txs[u]) = ToSet(walletLog[u]) \cup InFlight(u)
  BY DEF PublishedInv
<1>1. txs[u] = <<>> /\ walletLog[u] = <<>>
  BY DEF Init, StoreInit
<1>2. \A r \in Replicas : DebitInFlight(r, u) = {} /\ CreditInFlight(r, u) = {}
  BY DEF Init, StoreInit, BetsReader!ConsumerInit, SettleReader!ConsumerInit,
         DebitInFlight, CreditInFlight
<1>3. InFlight(u) = {}
  BY <1>2 DEF InFlight
<1> QED
  BY <1>1, <1>3

\* While calls succeed, processes live and keys last, any number of processes,
\* rebalances and duplicates leave every balance explained by the transactions in
\* Mongo, and the topic wallet.transactions with the same ones.
THEOREM TrailExplainsBalances ==
  ASSUME Steady, IsFiniteSet(Replicas)
  PROVE  Spec => []WalletReconciles
<1> DEFINE Inv == /\ TypeOK /\ DebitedInv /\ ClaimInv /\ SavingInv /\ RecordedInv
                  /\ PublishedInv
<1>1. Init => Inv
  BY TypeInit, DebitedInit, ClaimInit, RecordedInit, PublishedInit
<1>2. Inv /\ [Next]_vars => Inv'
  BY SteadyKeys, TypeStep, DebitedStep, ClaimStep, SavingStep, RecordedStep, PublishedStep
<1>3. Inv => WalletReconciles
  <2> SUFFICES ASSUME Inv, AtRest, NEW u \in Users
               PROVE  /\ balance[u] = Opening[u] + Amounts(txs[u])
                      /\ ToSet(txs[u]) = ToSet(walletLog[u])
    BY DEF WalletReconciles
  <2>1. \A r \in Replicas : betPc[r] = "fetch" /\ settlePc[r] = "fetch"
    BY DEF AtRest
  <2>2. Sum(Unrecorded(u), Picking(Replicas), Replicas) = 0
    BY <2>1, NothingUnrecorded
  <2>3. balance[u] = Opening[u] + Amounts(txs[u]) + 0
    BY <2>2 DEF RecordedInv
  <2>4. Opening[u] \in Int /\ Amounts(txs[u]) \in Int
    <3>1. Opening[u] \in Int /\ txs[u] \in Seq(Transaction)
      BY OpeningAssumption DEF TypeOK, StoreTypeOK, TrailTypeOK
    <3> QED
      BY <3>1, AmountsAreNumbers
  <2>5. InFlight(u) = {}
    BY <2>1 DEF InFlight, DebitInFlight, CreditInFlight
  <2>6. ToSet(txs[u]) = ToSet(walletLog[u]) \cup InFlight(u)
    BY DEF PublishedInv
  <2>7. balance[u] = Opening[u] + Amounts(txs[u])
    BY <2>3, <2>4
  <2> QED
    BY <2>5, <2>6, <2>7
<1> QED
  BY <1>1, <1>2, <1>3, PTL DEF Spec
=============================================================================
