------------------------------- MODULE OddsStore -------------------------------
(***************************************************************************)
(* What the odds services share: the topics game.events and odds.updated   *)
(* with their readers, the matches in Mongo, the odds, their history and   *)
(* the suspended markets in Redis, the topic markets.suspended.            *)
(***************************************************************************)
EXTENDS OddsMath, Faults, FiniteSets

CONSTANTS Matches,         \* the events of Mongo; "event" is taken
          Markets,         \* their markets
          Outcomes,        \* their outcomes
          OutcomesOf,      \* OutcomesOf[e]: the outcomes of match e, in order
          MarketOf,        \* MarketOf[o]: the market of outcome o
          MarketType,      \* MarketType[m]: the type of market m
          Name,            \* Name[o]: the words in the name of o
          InitialOdds,     \* InitialOdds[o]: what the seeder gave o
          Engines,         \* odds-engine processes
          Updaters,        \* odds-consumer processes
          GamePartitions,  \* partitions of game.events
          OddsPartitions,  \* partitions of odds.updated
          GamePartition,   \* where kafkago.Hash puts the key event_id
          OddsPartition,   \* where it puts the key outcome_id
          NoMessage        \* no message in hand

GameEvent == [match: Matches, type: GameEventTypes, team: Teams]

\* The odds a bookmaker can offer.
OfferableOdds == Nat \ 0..(LowestOdds - 1)

OddsUpdate == [outcome: Outcomes, old: OfferableOdds, new: OfferableOdds,
               trigger: GameEventTypes]

ASSUME OddsStoreAssumption ==
  /\ OutcomesOf \in [Matches -> Seq(Outcomes)]
  /\ MarketOf \in [Outcomes -> Markets]
  /\ MarketType \in [Markets -> MarketTypes]
  /\ Name \in [Outcomes -> SUBSET Words]
  /\ InitialOdds \in [Outcomes -> OfferableOdds]
  /\ GamePartition \in [Matches -> GamePartitions]
  /\ OddsPartition \in [Outcomes -> OddsPartitions]
ASSUME NoOddsMessageAssumption ==
  NoMessage \notin (GamePartitions \cup OddsPartitions) \X Nat

VARIABLES
  \* game.events and its reader
  gameLog, gameCommitted, gamePos, gameOwner, gameAt, gamePc,
  \* odds.updated and its reader
  oddsLog, oddsCommitted, oddsPos, oddsOwner, oddsAt, oddsPc,
  \* Mongo: the markets that are OPEN
  open,
  \* Redis: odds (0: no key), odds_history, market_suspended keys
  cachedOdds, history, suspended,
  \* markets.suspended: how many messages for each market
  notices,
  \* locals of HandleGameEvent: the outcomes left, by their places in OutcomesOf,
  \* and oldOdds of the first of them
  todo, oldOdds,
  \* Mongo: the matches that are LIVE; the feed's memory of each: the phase its
  \* minute is in, the goals of its score
  live, phase, score,
  \* history: how often the feed was restarted
  restarts

GameReader == INSTANCE Consumer WITH
  Replicas <- Engines, Partitions <- GamePartitions, Entry <- "find",
  log <- gameLog, committed <- gameCommitted, pos <- gamePos,
  owner <- gameOwner, at <- gameAt, pc <- gamePc

OddsReader == INSTANCE Consumer WITH
  Replicas <- Updaters, Partitions <- OddsPartitions, Entry <- "set",
  log <- oddsLog, committed <- oddsCommitted, pos <- oddsPos,
  owner <- oddsOwner, at <- oddsAt, pc <- oddsPc

gameReader == <<gameLog, gameCommitted, gamePos, gameOwner, gameAt, gamePc>>
oddsReader == <<oddsLog, oddsCommitted, oddsPos, oddsOwner, oddsAt, oddsPc>>
board == <<cachedOdds, history, suspended>>
engineLocals == <<todo, oldOdds>>
feed == <<live, phase, score, restarts>>

\* The seeder writes the initial odds to Redis.
OddsInit ==
  /\ GameReader!ConsumerInit
  /\ OddsReader!ConsumerInit
  /\ open = Markets
  /\ cachedOdds = InitialOdds
  /\ history = [o \in Outcomes |-> <<>>]
  /\ suspended = {}
  /\ notices = [m \in Markets |-> 0]
  /\ todo = [e \in Engines |-> {}]
  /\ oldOdds = [e \in Engines |-> 0]
  /\ live = Matches
  /\ phase = [match \in Matches |-> "first"]
  /\ score = [match \in Matches |-> 0]
  /\ restarts = 0
  /\ faults = 0

EngineLabels == {"find", "read", "publish"}
UpdaterLabels == {"set", "push", "velocity", "suspend", "notify"}

Phases == {"first", "half", "restart", "second", "full"}

BoardTypeOK ==
  /\ cachedOdds \in [Outcomes -> OfferableOdds \cup {0}]
  /\ history \in [Outcomes -> Seq(Nat)]
  /\ \A o \in Outcomes : Len(history[o]) <= HistoryLength
  /\ suspended \subseteq Markets
EngineTypeOK ==
  /\ todo \in [Engines -> SUBSET Nat]
  /\ oldOdds \in [Engines -> OfferableOdds \cup {0}]
  /\ \A e \in Engines :
       /\ gamePc[e] \in {"read", "publish"}
            => todo[e] \subseteq DOMAIN OutcomesOf[GameReader!Current(e).match]
       /\ gamePc[e] = "publish" => todo[e] # {} /\ oldOdds[e] # 0

OddsTypeOK ==
  /\ GameReader!ConsumerTypeOK(GameEvent, EngineLabels)
  /\ OddsReader!ConsumerTypeOK(OddsUpdate, UpdaterLabels)
  /\ open \subseteq Markets
  /\ BoardTypeOK /\ EngineTypeOK
  /\ notices \in [Markets -> Nat]
  /\ live \subseteq Matches
  /\ phase \in [Matches -> Phases]
  /\ score \in [Matches -> Nat]
  /\ restarts \in Nat /\ faults \in Nat
=============================================================================
