----------------------------- MODULE OddsPipeline -----------------------------
(***************************************************************************)
(* From a game event to the odds a bet is compared with: the feed          *)
(* publishes on game.events, the odds-engine recalculates and publishes on *)
(* odds.updated, the odds-consumer writes Redis.                           *)
(***************************************************************************)
EXTENDS DataFeed, OddsEngine, OddsConsumer

vars == <<gameReader, oddsReader, board, open, notices, engineLocals, feed,
          faults>>

-----------------------------------------------------------------------------
\* What the API, Redis and the broker do.

\* The API settles a market.
MarketSettled(m) ==
  /\ "settle" \in Env
  /\ m \in open
  /\ open' = open \ {m}
  /\ UNCHANGED <<gameReader, oddsReader, board, notices, engineLocals, feed, faults>>

\* An outcome's odds are 5 minutes old; a suspension is 30 seconds old.
OddsExpire(o) ==
  /\ "ttl" \in Env
  /\ cachedOdds[o] # 0
  /\ cachedOdds' = [cachedOdds EXCEPT ![o] = 0]
  /\ UNCHANGED <<gameReader, oddsReader, history, suspended, open, notices,
                 engineLocals, feed, faults>>
SuspensionLapses(m) ==
  /\ "ttl" \in Env
  /\ m \in suspended
  /\ suspended' = suspended \ {m}
  /\ UNCHANGED <<gameReader, oddsReader, cachedOdds, history, open, notices,
                 engineLocals, feed, faults>>

\* The groups "odds-engine" and "odds-cache-updater" rebalance on their own.
RebalanceEngines ==
  /\ "rebalance" \in Env
  /\ Fault
  /\ GameReader!Rebalance
  /\ UNCHANGED <<oddsReader, board, open, notices, engineLocals, feed>>
RebalanceUpdaters ==
  /\ "rebalance" \in Env
  /\ Fault
  /\ OddsReader!Rebalance
  /\ UNCHANGED <<gameReader, board, open, notices, engineLocals, feed>>

\* A process dies and is started again.
CrashEngine(e) ==
  /\ "crash" \in Env
  /\ Fault
  /\ GameReader!Crash(e)
  /\ todo' = [todo EXCEPT ![e] = {}]
  /\ oldOdds' = [oldOdds EXCEPT ![e] = 0]
  /\ UNCHANGED <<oddsReader, board, open, notices, feed>>
CrashUpdater(u) ==
  /\ "crash" \in Env
  /\ Fault
  /\ OddsReader!Crash(u)
  /\ UNCHANGED <<gameReader, board, open, notices, engineLocals, feed>>

-----------------------------------------------------------------------------
Next ==
  \/ \E match \in Matches :
       \/ \E type \in GameEventTypes, team \in FedTeams : PlayMatch(match, type, team)
       \/ UpdateEventStatus(match)
  \/ CrashFeed
  \/ \E e \in Engines : EngineLoop(e) \/ CrashEngine(e)
  \/ \E u \in Updaters : UpdaterLoop(u) \/ CrashUpdater(u)
  \/ \E m \in Markets : MarketSettled(m) \/ SuspensionLapses(m)
  \/ \E o \in Outcomes : OddsExpire(o)
  \/ RebalanceEngines \/ RebalanceUpdaters

Spec == OddsInit /\ [][Next]_vars

\* A process that is up keeps its loop running.
FairSpec == /\ Spec
            /\ \A e \in Engines : WF_vars(EngineLoop(e))
            /\ \A u \in Updaters : WF_vars(UpdaterLoop(u))

-----------------------------------------------------------------------------
TypeOK == OddsTypeOK

\* Where the updates of an outcome are on the topic, and the odds the last one left.
Topic(o) == oddsLog[OddsPartition[o]]
UpdatesOf(o) == {i \in DOMAIN Topic(o) : Topic(o)[i].outcome = o}
LastOdds(o) ==
  IF UpdatesOf(o) = {} THEN InitialOdds[o] ELSE Topic(o)[Max(UpdatesOf(o))].new

\* Every message of both topics has been fetched and no handler is running.
AtRest ==
  /\ \A e \in Engines : gamePc[e] = "fetch"
  /\ \A u \in Updaters : oddsPc[u] = "fetch"
  /\ \A p \in GamePartitions : gamePos[p] = Len(gameLog[p])
  /\ \A p \in OddsPartitions : oddsPos[p] = Len(oddsLog[p])

\* Where the events of a match are on the topic, and whether one may come after
\* another.
Course(match) == gameLog[GamePartition[match]]
EventsOf(match) == {i \in DOMAIN Course(match) : Course(match)[i].match = match}
MayFollow(later, earlier) ==
  CASE earlier.type = "FULL_TIME"   -> later.type = "FULL_TIME"
    [] earlier.type = "SECOND_HALF" -> later.type # "HALFTIME"
    [] OTHER                        -> TRUE

\* A match goes forward on the topic - no half-time after the second half has
\* begun, nothing but the final whistle after the final whistle - whatever
\* publications fail or are repeated, as long as the feed is not restarted.
MatchGoesForward ==
  restarts = 0 => \A match \in Matches : \A i, j \in EventsOf(match) :
                    i < j => MayFollow(Course(match)[j], Course(match)[i])

\* The score counts a goal before it is published (main.go:120, 88): each goal
\* that the score has and the topic has not costs a failed publication, and each
\* one that only the topic has a repeated publication or a restart of the feed.
ScoreIsPublished ==
  \A match \in Matches :
    LET goals == Cardinality({i \in EventsOf(match) : Course(match)[i].type = "GOAL"}) IN
    /\ score[match] <= goals + faults
    /\ restarts = 0 => goals <= score[match] + faults

\* No update is computed from odds that nobody offered: it starts from the
\* outcome's initial odds, or from what an earlier update of the same outcome
\* led to, however stale the cache is.
OldOddsWereOffered ==
  \A o \in Outcomes : \A i \in UpdatesOf(o) :
    \/ Topic(o)[i].old = InitialOdds[o]
    \/ \E j \in UpdatesOf(o) : j < i /\ Topic(o)[j].new = Topic(o)[i].old

\* README.md:37, "Updates Redis cache with latest odds": when everything has
\* been read the cache holds an outcome's last odds or none, and each exception
\* costs a fault of its own (a SET that failed is not tried again).  This is about
\* the single odds-consumer of docker-compose.yml: with three, one rebalance may let
\* two of them finish an old update after the third has written a new one.
StaleOddsNeedFaults ==
  AtRest => Cardinality({o \in Outcomes : cachedOdds[o] \notin {0, LastOdds(o)}})
              <= faults

\* What the bet-processor reads is what the abstract board promises: one market or
\* one outcome at a time, and no odds below 1.01.
Board == INSTANCE OddsBoard WITH OddsValues <- OfferableOdds
BoardServed == Board!BoardSpec

\* Only goals and red cards move the odds enough to suspend a market: as long as
\* there are none, no whistle, jitter, duplicate, redelivery or stale cache does it.
QuietMarketsStayOpen ==
  (\A p \in GamePartitions : \A i \in DOMAIN gameLog[p] :
     gameLog[p][i].type \notin {"GOAL", "RED_CARD"})
    => suspended = {} /\ \A m \in Markets : notices[m] = 0

\* In the end the cache is never behind: what it holds of an outcome is the odds of
\* the outcome's last update, or nothing once the 5 minutes of its SET are over
\* (odds_cache.go:33), whatever crashes, rebalances, repeated writes and keys that
\* lapse there are on the way.  No key has to lapse, so an update that nobody applies
\* is not excused by its predecessor's TTL.
CacheCatchesUp == <>[](\A o \in Outcomes : cachedOdds[o] \in {0, LastOdds(o)})

\* README.md:201: once an update has made its outcome volatile, a market that has
\* not been announced as suspended yet gets suspended, unless the outcome calms
\* down first; neither a crash between the writes to Redis nor a rebalance
\* prevents it.
VolatileMarketIsSuspended ==
  \A u \in Updaters, o \in Outcomes :
    (/\ oddsPc[u] = "velocity" /\ Updated(u).outcome = o
     /\ Volatile(history[o]) /\ notices[MarketOf[o]] = 0)
      ~> (MarketOf[o] \in suspended \/ ~Volatile(history[o]))

\* odds_engine.go:83, "goals make "over" more likely": when everything has been
\* read after a goal, the odds of over are below the initial ones.
GoalShortensOver ==
  AtRest /\ (\E p \in GamePartitions : \E i \in DOMAIN gameLog[p] : gameLog[p][i].type = "GOAL") =>
    \A o \in Outcomes :
      MarketType[MarketOf[o]] = "OVER_UNDER" /\ "Over" \in Name[o]
        => LastOdds(o) < InitialOdds[o]

\* odds_engine.go:109, "team scored, their win odds decrease", for matches whose
\* first outcome is the win of the home team: when only the home team has scored,
\* that outcome's odds were never raised by a goal.
ScoringTeamShortens ==
  (\A p \in GamePartitions : \A i \in DOMAIN gameLog[p] : gameLog[p][i].team = "home")
    => \A match \in Matches : LET o == Head(OutcomesOf[match]) IN
         MarketType[MarketOf[o]] = "MATCH_WINNER" =>
           \A i \in UpdatesOf(o) :
             Topic(o)[i].trigger = "GOAL" => Topic(o)[i].new < Topic(o)[i].old
=============================================================================
