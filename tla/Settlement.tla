----------------------------- MODULE Settlement -----------------------------
(***************************************************************************)
(* HandleBetSettled: find the market's pending bets, then for each of them *)
(* update its status and, if it won, credit the payout and record it.  The *)
(* bets are taken in any order, the one Mongo's cursor yields.             *)
(***************************************************************************)
EXTENDS BetStore

\* The announcement replica r has in hand, and the bet it is paying.
Announced(r) == SettleReader!Current(r)
Paid(r) == CHOOSE b \in paying[r] : TRUE

SettleFrame == UNCHANGED <<betReader, redis, betLocals>>

\* Mutants of FindByMarket: the filter without the status, or the market, or
\* with the status negated.
EveryBetIn(m) == {b \in Bets : Slip[b].market = m /\ status[b] # "NONE"}
EveryPending(m) == {b \in Bets : status[b] = "PENDING"}
NotPendingIn(m) == {b \in Bets : Slip[b].market = m /\ status[b] \in {"WON", "LOST"}}

\* bets.find({market_id, status: PENDING})
FindByMarket(m) == {b \in Bets : Slip[b].market = m /\ status[b] = "PENDING"}

FindBets(r) ==
  /\ settlePc[r] = "find"
  /\ \/ /\ found' = [found EXCEPT ![r] = FindByMarket(Announced(r).market)]
        /\ todo' = [todo EXCEPT ![r] = FindByMarket(Announced(r).market)]
        /\ CallOK /\ SettleReader!Goto(r, "next")
     \/ CallFails /\ SettleReader!ReturnError(r) /\ UNCHANGED <<found, todo>>
  /\ UNCHANGED <<wallet, money, status, paying, paidAfter>>
  /\ SettleFrame

\* Mutants of IsPaid: the comparison is wrong.
NothingIsPaid(result) == FALSE
EverythingIsPaid(result) == TRUE

\* Which results are paid out.
IsPaid(result) == result = "WON"

\* The next bet of the loop: its status is set whatever it is by now.  When
\* the update fails, with or without effect, the loop goes on.
UpdateBet(r, b) ==
  LET result == Result(b, Announced(r).winner) IN
  /\ settlePc[r] = "next"
  /\ b \in todo[r]
  /\ todo' = [todo EXCEPT ![r] = @ \ {b}]
  /\ \/ /\ status' = [status EXCEPT ![b] = result]
        /\ CallOK
        /\ \/ /\ IsPaid(result)
              /\ paying' = [paying EXCEPT ![r] = {b}]
              /\ SettleReader!Goto(r, "credit")
           \/ /\ ~IsPaid(result)
              /\ UNCHANGED <<settleReader, paying>>
     \/ /\ status' \in {status, [status EXCEPT ![b] = result]}
        /\ CallFails
        /\ UNCHANGED <<settleReader, paying>>
  /\ UNCHANGED <<wallet, money, found, paidAfter>>
  /\ SettleFrame

\* The loop is over: the handler returns nil.
Settled(r) ==
  /\ settlePc[r] = "next"
  /\ todo[r] = {}
  /\ found' = [found EXCEPT ![r] = {}]
  /\ SettleReader!ReturnNil(r)
  /\ CallOK
  /\ UNCHANGED <<wallet, money, status, todo, paying, paidAfter>>
  /\ SettleFrame

\* Mutant of CreditIsDropped: the credit is tried until it succeeds.
CreditIsRetried(r) == UNCHANGED <<settleReader, paying, paidAfter>>

\* A failed credit is not tried again.
CreditIsDropped(r) ==
  /\ paying' = [paying EXCEPT ![r] = {}]
  /\ SettleReader!Goto(r, "next")
  /\ UNCHANGED paidAfter

\* users.UpdateBalance(user, payout): when it fails the bet stays WON and the
\* loop goes on.
CreditPayout(r) ==
  LET b == Paid(r) IN
  /\ settlePc[r] = "credit"
  /\ \/ /\ Credit(b)
        /\ paidAfter' = [paidAfter EXCEPT ![r] = balance[Slip[b].user] + Payout(b)]
        /\ CallOK /\ SettleReader!Goto(r, "saveTx") /\ UNCHANGED paying
     \/ /\ UNCHANGED money \/ Credit(b)
        /\ CallFails /\ CreditIsDropped(r)
  /\ UNCHANGED <<wallet, status, found, todo>>
  /\ SettleFrame

SaveCreditTx(r) ==
  LET b == Paid(r) IN
  /\ settlePc[r] = "saveTx"
  /\ SaveTx(b, "BET_WON", Payout(b), paidAfter[r])
  /\ SettleReader!Goto(r, "publishTx")
  /\ UNCHANGED <<walletLog, money, status, settleLocals>>
  /\ SettleFrame

\* Mutant of NextBet: the loop is left after the first payout.
LoopIsLeft(r) == SettleReader!ReturnNil(r)

\* A bet that has been paid is not the last one.
NextBet(r) == SettleReader!Goto(r, "next")

PublishCreditTx(r) ==
  LET b == Paid(r) IN
  /\ settlePc[r] = "publishTx"
  /\ PublishTx(b, "BET_WON", Payout(b), paidAfter[r])
  /\ paying' = [paying EXCEPT ![r] = {}]
  /\ paidAfter' = [paidAfter EXCEPT ![r] = 0]
  /\ NextBet(r)
  /\ UNCHANGED <<txs, money, status, found, todo>>
  /\ SettleFrame

HandleBetSettled(r) ==
  \/ FindBets(r) \/ Settled(r) \/ CreditPayout(r)
  \/ SaveCreditTx(r) \/ PublishCreditTx(r)
  \/ \E b \in Bets : UpdateBet(r, b)

\* The loop of settlementConsumer around the handler.
SettleLoop(r) ==
  \/ HandleBetSettled(r)
  \/ /\ \/ SettleReader!Fetch(r) /\ CallOK
        \/ SettleReader!Commit(r, TRUE) /\ CallOK
        \/ SettleReader!Commit(r, FALSE) /\ CallFails
     /\ UNCHANGED <<betReader, redis, wallet, money, status, betLocals,
                    settleLocals>>
=============================================================================
