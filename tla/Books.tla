-------------------------------- MODULE Books --------------------------------
(***************************************************************************)
(* The money path seen by an auditor: sums over bets and over the audit    *)
(* trails of the wallets (the transactions collection, the topic           *)
(* wallet.transactions) compared with the balances.                        *)
(***************************************************************************)
EXTENDS BetProcessor, FiniteSetsExt, SequencesExt

BetsOf(u) == {b \in Bets : Slip[b].user = u}
OnTheBooks == {b \in Bets : status[b] # "NONE"}
WonBets == {b \in Bets : status[b] = "WON"}

\* No money comes out of nowhere: a user never has more than the opening
\* balance, less the stakes of the bets on the books, plus the payouts of the
\* bets that won.
NoMoneyCreated ==
  \A u \in Users :
    balance[u] <= Opening[u] - MapThenSumSet(Stake, BetsOf(u) \cap OnTheBooks)
                             + MapThenSumSet(Payout, BetsOf(u) \cap WonBets)

\* Bets some process is about to save, or about to pay.
BeingSaved == {Bet(r) : r \in {q \in Replicas : betPc[q] = "save"}}
BeingPaid == UNION {paying[r] : r \in Replicas}

\* Each stake taken for a bet that is not on the books costs one crash, rebalance or
\* failing call, and so does each won bet that was not paid: the handlers lose money
\* only to faults.  One crash may cost a stake and a payout, because it stops both
\* loops of its process, and no more than that.
LossesNeedFaults ==
  /\ Cardinality({b \in Bets \ (OnTheBooks \cup BeingSaved) : debits[b] > 0}) <= faults
  /\ Cardinality({b \in WonBets \ BeingPaid : credits[b] = 0}) <= faults

\* Every message of both topics has been fetched and no handler is running.
AtRest ==
  /\ \A r \in Replicas : betPc[r] = "fetch" /\ settlePc[r] = "fetch"
  /\ \A p \in BetPartitions : betPos[p] = Len(betLog[p])
  /\ \A p \in SettlePartitions : settlePos[p] = Len(settleLog[p])

Amounts(trail) == MapThenSumSet(LAMBDA i : trail[i].amount, DOMAIN trail)

\* As long as no call fails and no process dies, whenever the processor has
\* nothing left to do the audit trail in Mongo explains every balance, and the
\* topic tells the same story, with entries it may repeat.
WalletReconciles ==
  AtRest => \A u \in Users : /\ balance[u] = Opening[u] + Amounts(txs[u])
                             /\ ToSet(txs[u]) = ToSet(walletLog[u])

\* Bets of which their client was told that they are accepted, and that are neither on
\* the books nor refused; being skipped as a duplicate is no answer.
Silent == {b \in Bets : reply[b] = "accepted" /\ status[b] = "NONE" /\ Refusals(b) = {}}

\* The key is set before the work (bet_processor.go:59): a process that dies in between,
\* or a call that fails, leaves a bet that every redelivery takes for a duplicate.  Each
\* bet that is still without an answer when everything has been read costs a fault of
\* its own: a crash or an error silences the bet in hand, and none behind it.
SilenceNeedsFaults == AtRest => Cardinality(Silent) <= faults

\* README.md:195, "Duplicate messages are handled": whenever the processor has
\* nothing left to do an accepted bet is either on the books or refused - being
\* skipped as a duplicate is no answer - and a stake is kept for the former only.
ReadBetIsAnswered ==
  AtRest => \A b \in Bets : reply[b] = "accepted" =>
    /\ status[b] # "NONE" <=> Refusals(b) = {}
    /\ debits[b] = (IF status[b] = "NONE" THEN 0 ELSE 1)
=============================================================================
