---------------------------- MODULE BetProcessor ----------------------------
(***************************************************************************)
(* The money path of the platform: the API, the two consumer loops of each *)
(* cmd/bet-processor process, and what happens around them - a group       *)
(* rebalancing, processes dying, keys expiring, the odds-consumer writing  *)
(* suspensions and odds.                                                   *)
(***************************************************************************)
EXTENDS BetPlacement, Settlement, Api, FiniteSets

CONSTANT OddsValues    \* the odds the odds-consumer may write

ASSUME OddsAssumption == OddsValues \subseteq Nat \ {0}

vars == <<betReader, settleReader, redis, money, status, wallet, betLocals,
          settleLocals, api, faults>>

Init == StoreInit /\ ApiInit

-----------------------------------------------------------------------------
\* What happens around the handlers.

\* What a step of the odds-consumer or of a Redis TTL leaves alone.
RedisFrame == UNCHANGED <<betReader, settleReader, money, status, wallet,
                          betLocals, settleLocals, api, faults>>

\* The key's 60 seconds are over.
KeyExpires(b) ==
  /\ "ttl" \in Env
  /\ b \in keys
  /\ keys' = keys \ {b}
  /\ UNCHANGED <<suspended, cachedOdds>>
  /\ RedisFrame

\* The odds-consumer suspends a market; the key lapses after 30 seconds.
SuspendMarket(m) ==
  /\ "suspend" \in Env
  /\ m \notin suspended
  /\ suspended' = suspended \cup {m}
  /\ UNCHANGED <<keys, cachedOdds>>
  /\ RedisFrame
SuspensionLapses(m) ==
  /\ m \in suspended
  /\ suspended' = suspended \ {m}
  /\ UNCHANGED <<keys, cachedOdds>>
  /\ RedisFrame

\* The odds-consumer writes an outcome's odds; the key lapses after 5 minutes.
OddsWritten(o, v) ==
  /\ "odds" \in Env
  /\ cachedOdds[o] # v
  /\ cachedOdds' = [cachedOdds EXCEPT ![o] = v]
  /\ UNCHANGED <<keys, suspended>>
  /\ RedisFrame
OddsExpire(o) ==
  /\ cachedOdds[o] # 0
  /\ cachedOdds' = [cachedOdds EXCEPT ![o] = 0]
  /\ UNCHANGED <<keys, suspended>>
  /\ RedisFrame

\* Both readers of every process are members of the group "bet-processor".
Rebalance ==
  /\ "rebalance" \in Env
  /\ Fault
  /\ BetsReader!Rebalance
  /\ SettleReader!Rebalance
  /\ UNCHANGED <<redis, money, status, wallet, betLocals, settleLocals, api>>

\* A process dies with both its loops and is started again.
Crash(r) ==
  /\ "crash" \in Env
  /\ Fault
  /\ BetsReader!Crash(r)
  /\ SettleReader!Crash(r)
  /\ betAfter' = [betAfter EXCEPT ![r] = 0]
  /\ found' = [found EXCEPT ![r] = {}]
  /\ todo' = [todo EXCEPT ![r] = {}]
  /\ paying' = [paying EXCEPT ![r] = {}]
  /\ paidAfter' = [paidAfter EXCEPT ![r] = 0]
  /\ UNCHANGED <<redis, money, status, wallet, rejected, api>>

-----------------------------------------------------------------------------
RunBets(r) == BetLoop(r) /\ UNCHANGED api
RunSettlement(r) == SettleLoop(r) /\ UNCHANGED api

Next ==
  \/ \E r \in Replicas : RunBets(r) \/ RunSettlement(r) \/ Crash(r)
  \/ \E b \in Bets : PlaceBet(b) \/ KeyExpires(b)
  \/ \E m \in Markets : \/ \E w \in Outcomes : SettleMarket(m, w)
                        \/ MarkSettled(m)
                        \/ SuspendMarket(m) \/ SuspensionLapses(m)
  \/ \E o \in Outcomes : (\E v \in OddsValues : OddsWritten(o, v)) \/ OddsExpire(o)
  \/ Rebalance

Spec == Init /\ [][Next]_vars

\* A process that is up keeps both its loops running.
FairSpec == Spec /\ \A r \in Replicas :
                      WF_vars(RunBets(r)) /\ WF_vars(RunSettlement(r))

-----------------------------------------------------------------------------
TypeOK == StoreTypeOK /\ ApiTypeOK

\* A balance never goes below zero (README.md:198), although stakes and payouts
\* of one user are booked by different loops and processes at once.
NoOverdraft == \A u \in Users : balance[u] >= 0

\* A bet's stake is taken at most once, although its message may be delivered
\* again after any step of its handling.
AtMostOneDebit == \A b \in Bets : debits[b] <= 1

\* README.md:195, keys "with TTL": a redelivery that comes later than the 60 seconds
\* debits again, and nothing in the code limits that but what it takes to deliver a
\* bet again.  Each copy of it on the topic costs at most one stake, and one more for
\* each fault: no handler debits twice for one delivery, and no message comes back
\* by itself.
CopiesOf(b) ==
  LET p == BetPartition[Slip[b].user] IN {i \in DOMAIN betLog[p] : betLog[p][i] = b}
DebitsNeedFaults ==
  \A b \in Bets : debits[b] <= Cardinality(CopiesOf(b)) * (1 + faults)

\* A bet is on the books only when its stake was taken.
PersistedWasDebited == \A b \in Bets : status[b] # "NONE" => debits[b] > 0

\* A bet is paid at most once, and only when it has been decided won, although
\* announcements are delivered again and may contradict each other.
PaidOnlyOnce ==
  \A b \in Bets : /\ credits[b] <= 1
                  /\ credits[b] > 0 => status[b] = "WON"

\* A bet refused for its market or its odds stays refused, whatever is delivered
\* again after the suspension or the drift is over.
RefusedTakesNothing ==
  \A b \in Bets : rejected[b] \cap {"market_suspended", "odds_changed"} # {}
                   => debits[b] = 0 /\ status[b] = "NONE"

\* README.md:201, "All bets on suspended markets are rejected", as far as the code
\* keeps it: bets whose checks are behind them get through, no others.  From the
\* moment a market is suspended, or the cache holds odds the slip is too far from,
\* no other bet gets past that check until this is over, whatever is redelivered,
\* and whatever calls fail.
Through(b, labels) == debits[b] > 0 \/ \E r \in Replicas : betPc[r] \in labels /\ Bet(r) = b
SuspensionHolds(b) == Slip[b].market \in suspended /\ ~Through(b, {"odds", "debit"})
DriftHolds(b) == ~WithinTolerance(b, cachedOdds[Slip[b].outcome]) /\ ~Through(b, {"debit"})
ChecksHold ==
  [][\A b \in Bets :
       /\ SuspensionHolds(b) /\ Slip[b].market \in suspended' => SuspensionHolds(b)'
       /\ DriftHolds(b) /\ ~WithinTolerance(b, cachedOdds'[Slip[b].outcome]) => DriftHolds(b)']_vars

\* A bet is decided the way some announcement for its market says.
DecidedAsAnnounced ==
  \A b \in Bets : status[b] \in {"WON", "LOST"} =>
    \E i \in DOMAIN settleLog[SettlePartition[Slip[b].market]] :
      LET a == settleLog[SettlePartition[Slip[b].market]][i]
      IN a.market = Slip[b].market /\ status[b] = Result(b, a.winner)

\* Some winner of m is on the partition that holds m's announcements.
IsAnnounced(m) ==
  \E i \in DOMAIN settleLog[SettlePartition[m]] :
    settleLog[SettlePartition[m]][i].market = m

\* A market is SETTLED in Mongo only when its settlement is on the topic
\* (admin_handler.go: publish first, then write the status).
SettledMarketAnnounced == \A m \in Markets : marketStatus[m] = "SETTLED" => IsAnnounced(m)

\* The other direction, as far as the code keeps it (admin_handler.go:39-48): each
\* market that is announced, and OPEN in Mongo with no request left to mark it,
\* costs a publication that reported an error or an update that did, however many
\* requests settle it at once.
UnmarkedNeedFaults ==
  Cardinality({m \in Markets : /\ IsAnnounced(m) /\ settling[m] = 0
                               /\ marketStatus[m] = "OPEN"}) <= faults

\* A decision is final: no later announcement reopens or reverses it.
DecisionIsFinal ==
  [][\A b \in Bets : status[b] \in {"WON", "LOST"} => status'[b] = status[b]]_vars

\* A settlement that is done has decided every bet it found: each one it leaves
\* pending cost a failing call (bet_processor.go:176-179).
FoundBetsAreDecided ==
  [][\A r \in Replicas : settlePc[r] # "commit" /\ settlePc'[r] = "commit" =>
       Cardinality({b \in found[r] : status[b] = "PENDING"}) <= faults]_vars

\* The whole money path keeps the promises of the abstract Bookmaker.
Book == INSTANCE Bookmaker
BooksKept == Book!BookSpec

\* Why a bet was refused; being skipped as a duplicate is not a refusal.
Refusals(b) == rejected[b] \ {"duplicate"}

\* An accepted bet is put on the books or refused in the end, however often it
\* is delivered.
AcceptedBetIsAnswered ==
  \A b \in Bets : reply[b] = "accepted" ~> (status[b] # "NONE" \/ Refusals(b) # {})

\* The i-th message of a partition of bets.settled is still to be read, and will
\* be: nothing committed covers it, and no process holds it or a later one, whose
\* commit would.
ToBeRead(p, i) ==
  /\ i \in DOMAIN settleLog[p] /\ i > settlePos[p] /\ i > settleCommitted[p]
  /\ \A r \in Replicas : settleAt[r] # NoMessage =>
       settleAt[r][1] # p \/ settleAt[r][2] < i

\* A bet that is on the books when a settlement of its market is still to be
\* read is decided in the end.
PendingBetIsDecided ==
  \A b \in Bets : \A i \in 1..MaxAnnouncements :
    LET p == SettlePartition[Slip[b].market] IN
    (/\ status[b] = "PENDING" /\ ToBeRead(p, i)
     /\ settleLog[p][i].market = Slip[b].market)
      ~> status[b] \in {"WON", "LOST"}
=============================================================================
