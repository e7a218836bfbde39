---------------------------- MODULE FraudDetector ----------------------------
(***************************************************************************)
(* cmd/fraud-detector: a second consumer group on bets.placed.  For every  *)
(* bet it reads the user's sliding window from Redis, lets three rules     *)
(* look at it, publishes their alerts and then adds the bet to the window. *)
(* It only observes: nothing it writes is read by another service.         *)
(*                                                                         *)
(* Time is a discrete clock that all processes share.                      *)
(***************************************************************************)
EXTENDS Betting, Faults, FiniteSetsExt

CONSTANTS MatchOf,        \* MatchOf[m]: the event that market m belongs to
          Detectors,      \* fraud-detector processes
          BetPartitions,  \* partitions of bets.placed
          BetPartition,   \* where kafkago.Hash puts the key user_id
          NoMessage,      \* no message in hand
          Window,         \* how far back a bet looks: 5 minutes
          RateWindow,     \* how far back the rate limit looks: 60 seconds
          KeyLife,        \* how long a user's key lives: 10 minutes
          RateLimit,      \* how many bets are not too many: 5
          MinBets,        \* how many bets make an average: 3
          Threshold,      \* how many times the average is suspicious: 10
          MaxTime         \* bound on the clock

ASSUME WindowAssumption ==
  /\ {Window, RateWindow, KeyLife, RateLimit, MinBets, Threshold, MaxTime} \subseteq Nat
  /\ RateWindow <= Window /\ Window < KeyLife /\ MinBets > 0
ASSUME DetectorAssumption ==
  /\ BetPartition \in [Users -> BetPartitions]
  /\ NoMessage \notin BetPartitions \X Nat

VARIABLES
  \* bets.placed and its reader
  betLog, fraudCommitted, fraudPos, fraudOwner, fraudAt, fraudPc,
  \* the clock; the stamp of each bet on the topic (0: none)
  now, placed,
  \* Redis, user_bets:<user>: the sorted set, and when the key expires (0: there
  \* is no key, or no TTL on it)
  window, expires,
  \* locals: when the window was read, and what was found
  recent,
  \* fraud.alerts, as a set
  alerts,
  \* history: the rules that were checked, and the messages in whose handling a
  \* call failed
  checked, spoiled

BetsReader == INSTANCE Consumer WITH
  Replicas <- Detectors, Partitions <- BetPartitions, Entry <- "recent",
  log <- betLog, committed <- fraudCommitted, pos <- fraudPos,
  owner <- fraudOwner, at <- fraudAt, pc <- fraudPc

reader == <<fraudCommitted, fraudPos, fraudOwner, fraudAt, fraudPc>>
redis == <<window, expires>>
verdicts == <<alerts, checked>>
vars == <<betLog, reader, now, placed, redis, recent, verdicts, spoiled>>

Rules == {"RATE_LIMIT", "OPPOSITE_BETS", "SUSPICIOUS_PATTERN"}
NothingRead == [at |-> 0, bets |-> {}]

Init ==
  /\ BetsReader!ConsumerInit
  /\ now = 1
  /\ placed = [b \in Bets |-> 0]
  /\ window = [u \in Users |-> {}]
  /\ expires = [u \in Users |-> 0]
  /\ recent = [d \in Detectors |-> NothingRead]
  /\ alerts = {} /\ checked = {} /\ spoiled = {}
  /\ faults = 0

-----------------------------------------------------------------------------
\* What happens around the detector.

\* POST /bets: the bet is stamped with the time of the request and published under
\* its user's key, or never.  Requests run at once and may be slow, so the topic may
\* hold bets in another order than their stamps.
PlaceBet(b) ==
  /\ placed[b] = 0
  /\ \E time \in 1..now : placed' = [placed EXCEPT ![b] = time]
  /\ \E n \in 1..2, answered \in BOOLEAN :
       /\ Written(n, answered)
       /\ BetsReader!Produce(BetPartition[Slip[b].user], Copies(n, b))
  /\ UNCHANGED <<reader, now, redis, recent, verdicts, spoiled>>

\* Time passes, and Redis drops the keys whose time has come.
Tick ==
  /\ now < MaxTime
  /\ now' = now + 1
  /\ LET dead == {u \in Users : expires[u] = now'} IN
       /\ window' = [u \in Users |-> IF u \in dead THEN {} ELSE window[u]]
       /\ expires' = [u \in Users |-> IF u \in dead THEN 0 ELSE expires[u]]
  /\ UNCHANGED <<betLog, reader, placed, recent, verdicts, spoiled, faults>>

\* The group "fraud-detector" rebalances on its own; a process dies and is
\* started again.
Rebalance ==
  /\ "rebalance" \in Env
  /\ Fault
  /\ BetsReader!Rebalance
  /\ UNCHANGED <<now, placed, redis, recent, verdicts, spoiled>>
Crash(d) ==
  /\ "crash" \in Env
  /\ Fault
  /\ BetsReader!Crash(d)
  /\ recent' = [recent EXCEPT ![d] = NothingRead]
  /\ UNCHANGED <<now, placed, redis, verdicts, spoiled>>

-----------------------------------------------------------------------------
\* HandleBetPlaced.

\* The bet detector d has in hand.
Bet(d) == BetsReader!Current(d)
Spoil(d) == CallFails /\ spoiled' = spoiled \cup {fraudAt[d]}
Unspoiled == CallOK /\ UNCHANGED spoiled

\* Mutant of PlacedAt: with the time of its handling.
ProcessedAt(b) == now

\* A bet is remembered with the time in its message.
PlacedAt(b) == placed[b]

RecentBet(b) == [bet |-> b, placed |-> PlacedAt(b)]

\* ZRANGEBYSCORE from 5 minutes ago to now: what the rules will look at.  An error
\* ends the handler.
GetRecentBets(d) ==
  /\ fraudPc[d] = "recent"
  /\ \/ /\ recent' = [recent EXCEPT ![d] =
                        [at |-> now, bets |-> {x \in window[Slip[Bet(d)].user] :
                                                 x.placed \in (now - Window)..now}]]
        /\ BetsReader!Goto(d, "RATE_LIMIT") /\ Unspoiled
     \/ BetsReader!ReturnError(d) /\ Spoil(d) /\ UNCHANGED recent
  /\ UNCHANGED <<now, placed, redis, verdicts>>

\* Whether a rule objects to bet b, at the time `time`, given the bets found.
TooMany(found, time) == Cardinality({x \in found : x.placed > time - RateWindow}) > RateLimit
Opposed(b, found) ==
  \E x \in found : /\ MatchOf[Slip[x.bet].market] = MatchOf[Slip[b].market]
                   /\ Slip[x.bet].outcome # Slip[b].outcome
Outsized(b, found) ==
  /\ Cardinality(found) >= MinBets
  /\ Slip[b].stake * Cardinality(found)
       > Threshold * MapThenSumSet(LAMBDA x : Slip[x.bet].stake, found)
Objects(rule, b, found, time) ==
  \/ rule = "RATE_LIMIT" /\ TooMany(found, time)
  \/ rule = "OPPOSITE_BETS" /\ Opposed(b, found)
  \/ rule = "SUSPICIOUS_PATTERN" /\ Outsized(b, found)

\* The rules run in this order, and the bet is added after them.
After(rule) == CASE rule = "RATE_LIMIT" -> "OPPOSITE_BETS"
                 [] rule = "OPPOSITE_BETS" -> "SUSPICIOUS_PATTERN"
                 [] rule = "SUSPICIOUS_PATTERN" -> "add"

\* rule.Check and the publication of its alert, whose failure is logged only.
\* The rate limit reads the clock again.
CheckRule(d, rule) ==
  LET time == IF rule = "RATE_LIMIT" THEN now ELSE recent[d].at
      verdict == [rule |-> rule, msg |-> fraudAt[d], at |-> time]
  IN
  /\ fraudPc[d] = rule
  /\ IF Objects(rule, Bet(d), recent[d].bets, time)
       THEN \/ alerts' = alerts \cup {verdict} /\ Unspoiled
            \/ alerts' \in {alerts, alerts \cup {verdict}} /\ Spoil(d)
       ELSE UNCHANGED alerts /\ Unspoiled
  /\ checked' = checked \cup {verdict}
  /\ BetsReader!Goto(d, After(rule))
  /\ UNCHANGED <<now, placed, redis, recent>>

\* Mutant of Expiry: the rate limit's window instead.
ExpiryOfRateWindow == now + RateWindow

\* EXPIRE, after every addition.
Expiry == now + KeyLife

\* ZADD and EXPIRE in one pipeline; an error, after either, is logged only.
ZAdd(u, b) == window' = [window EXCEPT ![u] = @ \cup {RecentBet(b)}]
Expire(u) == expires' = [expires EXCEPT ![u] = Expiry]
AddBet(d) ==
  LET u == Slip[Bet(d)].user IN
  /\ fraudPc[d] = "add"
  /\ \/ ZAdd(u, Bet(d)) /\ Expire(u) /\ Unspoiled
     \/ /\ \/ UNCHANGED redis
           \/ ZAdd(u, Bet(d)) /\ (UNCHANGED expires \/ Expire(u))
        /\ Spoil(d)
  /\ recent' = [recent EXCEPT ![d] = NothingRead]
  /\ BetsReader!ReturnNil(d)
  /\ UNCHANGED <<now, placed, verdicts>>

HandleBetPlaced(d) ==
  GetRecentBets(d) \/ (\E rule \in Rules : CheckRule(d, rule)) \/ AddBet(d)

\* The consumer loop of cmd/fraud-detector around the handler.
DetectorLoop(d) ==
  \/ HandleBetPlaced(d)
  \/ /\ \/ BetsReader!Fetch(d) /\ CallOK
        \/ BetsReader!Commit(d, TRUE) /\ CallOK
        \/ BetsReader!Commit(d, FALSE) /\ CallFails
     /\ UNCHANGED <<now, placed, redis, recent, verdicts, spoiled>>

Next ==
  \/ \E b \in Bets : PlaceBet(b)
  \/ \E d \in Detectors : DetectorLoop(d) \/ Crash(d)
  \/ Tick \/ Rebalance

Spec == Init /\ [][Next]_<<vars, faults>>

-----------------------------------------------------------------------------
WindowEntry == [bet: Bets, placed: Nat]
Verdict == [rule: Rules, msg: BetPartitions \X Nat, at: Nat]
TypeOK ==
  /\ BetsReader!ConsumerTypeOK(Bets, Rules \cup {"recent", "add"})
  /\ now \in 1..(MaxTime + 1) /\ placed \in [Bets -> Nat]
  /\ window \in [Users -> SUBSET WindowEntry]
  /\ expires \in [Users -> Nat]
  /\ recent \in [Detectors -> [at: Nat, bets: SUBSET WindowEntry]]
  /\ alerts \subseteq checked /\ checked \subseteq Verdict
  /\ spoiled \subseteq BetPartitions \X Nat
  /\ faults \in Nat

BetAt(msg) == betLog[msg[1]][msg[2]]

\* The bets a user placed in the window before `time`, each of them once.
PlacedBefore(u, time) ==
  {[bet |-> b, placed |-> placed[b]] :
     b \in {c \in Bets : /\ Slip[c].user = u /\ placed[c] # 0
                         /\ placed[c] \in (time - Window)..time}}

\* No alert without its bets: whatever is written or delivered twice, each alert
\* is explained by bets its user really placed in the window, counted once each.
AlertsAreDeserved ==
  \A a \in alerts : LET b == BetAt(a.msg) IN
    \E found \in SUBSET PlacedBefore(Slip[b].user, a.at) : Objects(a.rule, b, found, a.at)

\* What the window must hold when message msg is checked: the bets of the earlier
\* messages of its user, except those in whose handling a call failed.
Earlier(msg, time) ==
  {x \in PlacedBefore(Slip[BetAt(msg)].user, time) :
     \E i \in 1..(msg[2] - 1) : /\ betLog[msg[1]][i] = x.bet
                                /\ <<msg[1], i>> \notin spoiled}

\* README.md:205-206: no burst and no pair of opposite bets that lies in the
\* window when the later bet is checked goes without an alert, whatever crashes
\* and rebalances there are, unless a call failed in handling one of its bets.
EscapesNeedFailures ==
  \A c \in checked \ alerts :
    c.rule # "SUSPICIOUS_PATTERN" /\ c.msg \notin spoiled
      => ~Objects(c.rule, BetAt(c.msg), Earlier(c.msg, c.at), c.at)

\* Every message has been fetched and no handler is running.
AtRest ==
  /\ \A d \in Detectors : fraudPc[d] = "fetch"
  /\ \A p \in BetPartitions : fraudPos[p] = Len(betLog[p])

\* No bet slips by: whenever the detector has nothing left to do, every message of
\* the topic was checked by all three rules, or a call failed in its handling.
EveryBetIsScreened ==
  AtRest => \A p \in BetPartitions : \A i \in DOMAIN betLog[p] :
    \/ <<p, i>> \in spoiled
    \/ \A rule \in Rules : \E c \in checked : c.rule = rule /\ c.msg = <<p, i>>
=============================================================================
