------------------------------ MODULE Bookmaker ------------------------------
(***************************************************************************)
(* What the betting platform promises about money, with no queues, caches, *)
(* handlers or failures: a bet's stake is taken once and from a balance    *)
(* that covers it, before the bet is on the books; a bet on the books is   *)
(* decided once; a won bet is paid once.  Any of these steps may also      *)
(* never happen.                                                           *)
(***************************************************************************)
EXTENDS Betting

VARIABLES balance,  \* balance[u]: the money of user u
          status,   \* status[b]: what the books say of bet b
          debits,   \* debits[b]: how often b's stake was taken
          credits   \* credits[b]: how often b's payout was given

bookVars == <<balance, status, debits, credits>>

BookInit ==
  /\ balance = Opening
  /\ status = [b \in Bets |-> "NONE"]
  /\ debits = [b \in Bets |-> 0]
  /\ credits = [b \in Bets |-> 0]

TakeStake(b) ==
  /\ debits[b] = 0
  /\ status[b] = "NONE"
  /\ balance[Slip[b].user] >= Stake(b)
  /\ balance' = [balance EXCEPT ![Slip[b].user] = @ - Stake(b)]
  /\ debits' = [debits EXCEPT ![b] = 1]
  /\ UNCHANGED <<status, credits>>

OpenBet(b) ==
  /\ debits[b] = 1
  /\ status[b] = "NONE"
  /\ status' = [status EXCEPT ![b] = "PENDING"]
  /\ UNCHANGED <<balance, debits, credits>>

Decide(b) ==
  /\ status[b] = "PENDING"
  /\ \E o \in Outcomes : status' = [status EXCEPT ![b] = Result(b, o)]
  /\ UNCHANGED <<balance, debits, credits>>

PayOut(b) ==
  /\ status[b] = "WON"
  /\ credits[b] = 0
  /\ balance' = [balance EXCEPT ![Slip[b].user] = @ + Payout(b)]
  /\ credits' = [credits EXCEPT ![b] = 1]
  /\ UNCHANGED <<status, debits>>

BookNext == \E b \in Bets : TakeStake(b) \/ OpenBet(b) \/ Decide(b) \/ PayOut(b)

BookSpec == BookInit /\ [][BookNext]_bookVars
=============================================================================
