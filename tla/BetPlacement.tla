---------------------------- MODULE BetPlacement ----------------------------
(***************************************************************************)
(* HandleBetPlaced: one step per call it makes.  The bet comes from the    *)
(* topic bets.placed; each step ends the way its call ends, and a handler  *)
(* that returns goes through the consumer loop's commit or error path.     *)
(***************************************************************************)
EXTENDS BetStore

\* The bet of the message replica r has in hand.
Bet(r) == BetsReader!Current(r)

Reject(b, reason) == rejected' = [rejected EXCEPT ![b] = @ \cup {reason}]

\* Mutants of Claim: the key is looked for and not set; it names the user, not the bet.
ClaimNothing(b) == UNCHANGED keys
ClaimForUser(b) == keys' = keys \cup {c \in Bets : Slip[c].user = Slip[b].user}

\* The key is set by the call that looks for it.
Claim(b) == keys' = keys \cup {b}

\* SETNX idempotency:<key>, held by the key for 60 seconds.  A failing call
\* may have set it; the client's own retry may then find it set.
Check(r) ==
  LET b == Bet(r) IN
  /\ betPc[r] = "check"
  /\ \/ /\ b \notin keys
        /\ Claim(b)
        /\ CallOK /\ BetsReader!Goto(r, "suspension") /\ UNCHANGED rejected
     \/ /\ b \in keys
        /\ Reject(b, "duplicate")
        /\ CallOK /\ BetsReader!ReturnNil(r) /\ UNCHANGED keys
     \/ /\ CallFails
        /\ UNCHANGED keys \/ Claim(b)
        /\ BetsReader!ReturnError(r) /\ UNCHANGED rejected
     \/ /\ CallFails
        /\ Claim(b)
        /\ Reject(b, "duplicate")
        /\ BetsReader!ReturnNil(r)
  /\ UNCHANGED <<settleReader, suspended, cachedOdds, wallet, money, status,
                 betAfter, settleLocals>>

\* What the two validations and the debit leave alone.
ValidationFrame == UNCHANGED <<settleReader, redis, wallet, status, settleLocals>>

\* Mutant of SuspensionUnknown: no answer is taken for no suspension.
NotSuspendedThen(r) == BetsReader!Goto(r, "odds")

\* Redis did not answer: the bet is not handled.
SuspensionUnknown(r) == BetsReader!ReturnError(r)

\* EXISTS market_suspended:<market>
Suspension(r) ==
  LET b == Bet(r) IN
  /\ betPc[r] = "suspension"
  /\ \/ /\ IsSuspended(Slip[b].market)
        /\ Reject(b, "market_suspended")
        /\ CallOK /\ BetsReader!ReturnNil(r)
     \/ /\ ~IsSuspended(Slip[b].market)
        /\ CallOK /\ BetsReader!Goto(r, "odds") /\ UNCHANGED rejected
     \/ CallFails /\ SuspensionUnknown(r) /\ UNCHANGED rejected
  /\ UNCHANGED <<money, betAfter>>
  /\ ValidationFrame

\* GET odds:<outcome>, compared with the odds of the slip.
Odds(r) ==
  LET b == Bet(r) IN
  /\ betPc[r] = "odds"
  /\ \/ /\ Drifted(b, GetOdds(Slip[b].outcome))
        /\ Reject(b, "odds_changed")
        /\ CallOK /\ BetsReader!ReturnNil(r)
     \/ /\ WithinTolerance(b, GetOdds(Slip[b].outcome))
        /\ CallOK /\ BetsReader!Goto(r, "debit") /\ UNCHANGED rejected
     \/ CallFails /\ BetsReader!ReturnError(r) /\ UNCHANGED rejected
  /\ UNCHANGED <<money, betAfter>>
  /\ ValidationFrame

\* Mutant of DebitRefused: the early return is missing.
DebitRefusedGoesOn(r, b) ==
  /\ BetsReader!Goto(r, "save")
  /\ UNCHANGED <<betAfter, rejected>>

\* The branch of a failed debit.
DebitRefused(r, b) ==
  /\ Reject(b, "insufficient_balance")
  /\ BetsReader!ReturnNil(r)
  /\ UNCHANGED betAfter

\* users.UpdateBalance(user, -stake): every error, a lost reply included, is
\* taken for an insufficient balance and the message is done.
DebitStake(r) ==
  LET b == Bet(r)
      u == Slip[b].user
  IN
  /\ betPc[r] = "debit"
  /\ \/ /\ Covers(u, -Stake(b))
        /\ Debit(b)
        /\ betAfter' = [betAfter EXCEPT ![r] = balance[u] - Stake(b)]
        /\ CallOK /\ BetsReader!Goto(r, "save") /\ UNCHANGED rejected
     \/ /\ \/ ~Covers(u, -Stake(b)) /\ UNCHANGED money /\ CallOK
           \/ UNCHANGED money /\ CallFails
           \/ Covers(u, -Stake(b)) /\ Debit(b) /\ CallFails
        /\ DebitRefused(r, b)
  /\ ValidationFrame

\* bets.InsertOne: the bet's uuid is the document's _id.
SaveBet(r) ==
  LET b == Bet(r) IN
  /\ betPc[r] = "save"
  /\ \/ /\ status[b] = "NONE"
        /\ status' = [status EXCEPT ![b] = "PENDING"]
        /\ CallOK /\ BetsReader!Goto(r, "saveTx") /\ UNCHANGED betAfter
     \/ /\ \/ status[b] # "NONE" /\ UNCHANGED status /\ CallOK
           \/ UNCHANGED status /\ CallFails
           \/ /\ status[b] = "NONE"
              /\ status' = [status EXCEPT ![b] = "PENDING"]
              /\ CallFails
        /\ betAfter' = [betAfter EXCEPT ![r] = 0]
        /\ BetsReader!ReturnError(r)
  /\ UNCHANGED <<settleReader, redis, wallet, money, rejected, settleLocals>>

\* Mutant of SaveDebitTx: the stake without its sign.
SaveDebitTxUnsigned(r) ==
  LET b == Bet(r) IN
  /\ betPc[r] = "saveTx"
  /\ SaveTx(b, "BET_PLACED", Stake(b), betAfter[r])
  /\ BetsReader!Goto(r, "publishTx")
  /\ UNCHANGED <<settleReader, redis, walletLog, money, status, betLocals,
                 settleLocals>>

\* txs.Save, then PublishWalletTransaction: the debit is a negative amount.
SaveDebitTx(r) ==
  LET b == Bet(r) IN
  /\ betPc[r] = "saveTx"
  /\ SaveTx(b, "BET_PLACED", -Stake(b), betAfter[r])
  /\ BetsReader!Goto(r, "publishTx")
  /\ UNCHANGED <<settleReader, redis, walletLog, money, status, betLocals,
                 settleLocals>>

PublishDebitTx(r) ==
  LET b == Bet(r) IN
  /\ betPc[r] = "publishTx"
  /\ PublishTx(b, "BET_PLACED", -Stake(b), betAfter[r])
  /\ betAfter' = [betAfter EXCEPT ![r] = 0]
  /\ BetsReader!ReturnNil(r)
  /\ UNCHANGED <<settleReader, redis, txs, money, status, rejected,
                 settleLocals>>

HandleBetPlaced(r) ==
  \/ Check(r) \/ Suspension(r) \/ Odds(r) \/ DebitStake(r) \/ SaveBet(r)
  \/ SaveDebitTx(r) \/ PublishDebitTx(r)

\* The loop of betsConsumer around the handler.
BetLoop(r) ==
  \/ HandleBetPlaced(r)
  \/ /\ \/ BetsReader!Fetch(r) /\ CallOK
        \/ BetsReader!Commit(r, TRUE) /\ CallOK
        \/ BetsReader!Commit(r, FALSE) /\ CallFails
     /\ UNCHANGED <<settleReader, redis, wallet, money, status, betLocals,
                    settleLocals>>
=============================================================================
