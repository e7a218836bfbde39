------------------------- MODULE OddsPipeline_proofs -------------------------
(***************************************************************************)
(* The odds pipeline for every number of matches, outcomes, processes and  *)
(* partitions, every sample of the jitter and every length of the history. *)
(***************************************************************************)
EXTENDS OddsPipeline, SequenceTheorems, Sums_proofs

-----------------------------------------------------------------------------
\* What Consumer_proofs proves of a reader, for the readers of the two topics.

GameLemmas == INSTANCE Consumer_proofs WITH
  Replicas <- Engines, Partitions <- GamePartitions, Entry <- "find",
  log <- gameLog, committed <- gameCommitted, pos <- gamePos,
  owner <- gameOwner, at <- gameAt, pc <- gamePc

OddsLemmas == INSTANCE Consumer_proofs WITH
  Replicas <- Updaters, Partitions <- OddsPartitions, Entry <- "set",
  log <- oddsLog, committed <- oddsCommitted, pos <- oddsPos,
  owner <- oddsOwner, at <- oddsAt, pc <- oddsPc

GameTyped == GameReader!ConsumerTypeOK(GameEvent, EngineLabels)
GameSteps == GameReader!ReaderStep(GameEvent, EngineLabels)
OddsTyped == OddsReader!ConsumerTypeOK(OddsUpdate, UpdaterLabels)
OddsSteps == OddsReader!ReaderStep(OddsUpdate, UpdaterLabels)

LEMMA SameGameReader ==
  /\ GameTyped => GameLemmas!ConsumerTypeOK(GameEvent, EngineLabels)
  /\ GameLemmas!ConsumerTypeOK(GameEvent, EngineLabels)' => GameTyped'
  /\ GameSteps => GameLemmas!ReaderStep(GameEvent, EngineLabels)
<1>1. GameTyped => GameLemmas!ConsumerTypeOK(GameEvent, EngineLabels)
  BY DEF GameLemmas!ConsumerTypeOK, GameReader!ConsumerTypeOK, GameTyped
<1>2. GameLemmas!ConsumerTypeOK(GameEvent, EngineLabels)' => GameTyped'
  BY DEF GameLemmas!ConsumerTypeOK, GameReader!ConsumerTypeOK, GameTyped
<1>3. GameSteps => GameLemmas!ReaderStep(GameEvent, EngineLabels)
  BY DEF GameReader!ReaderStep, GameLemmas!ReaderStep, GameSteps,
         GameReader!Produce, GameLemmas!Produce, GameReader!Fetch, GameLemmas!Fetch,
         GameReader!ReturnError, GameLemmas!ReturnError,
         GameReader!Crash, GameLemmas!Crash, GameReader!Resume, GameLemmas!Resume,
         GameReader!Goto, GameLemmas!Goto, GameReader!Commit, GameLemmas!Commit,
         GameReader!Offset, GameLemmas!Offset, GameReader!Rebalance, GameLemmas!Rebalance,
         GameReader!consumerVars, GameLemmas!consumerVars
<1> QED
  BY <1>1, <1>2, <1>3

LEMMA SameOddsReader ==
  /\ OddsTyped => OddsLemmas!ConsumerTypeOK(OddsUpdate, UpdaterLabels)
  /\ OddsLemmas!ConsumerTypeOK(OddsUpdate, UpdaterLabels)' => OddsTyped'
  /\ OddsSteps => OddsLemmas!ReaderStep(OddsUpdate, UpdaterLabels)
<1>1. OddsTyped => OddsLemmas!ConsumerTypeOK(OddsUpdate, UpdaterLabels)
  BY DEF OddsLemmas!ConsumerTypeOK, OddsReader!ConsumerTypeOK, OddsTyped
<1>2. OddsLemmas!ConsumerTypeOK(OddsUpdate, UpdaterLabels)' => OddsTyped'
  BY DEF OddsLemmas!ConsumerTypeOK, OddsReader!ConsumerTypeOK, OddsTyped
<1>3. OddsSteps => OddsLemmas!ReaderStep(OddsUpdate, UpdaterLabels)
  BY DEF OddsReader!ReaderStep, OddsLemmas!ReaderStep, OddsSteps,
         OddsReader!Produce, OddsLemmas!Produce, OddsReader!Fetch, OddsLemmas!Fetch,
         OddsReader!ReturnError, OddsLemmas!ReturnError,
         OddsReader!Crash, OddsLemmas!Crash, OddsReader!Resume, OddsLemmas!Resume,
         OddsReader!Goto, OddsLemmas!Goto, OddsReader!Commit, OddsLemmas!Commit,
         OddsReader!Offset, OddsLemmas!Offset, OddsReader!Rebalance, OddsLemmas!Rebalance,
         OddsReader!consumerVars, OddsLemmas!consumerVars
<1> QED
  BY <1>1, <1>2, <1>3

LEMMA ReadersStayTyped ==
  /\ GameTyped /\ GameSteps => GameTyped'
  /\ OddsTyped /\ OddsSteps => OddsTyped'
<1>1. ASSUME GameTyped, GameSteps PROVE GameTyped'
  <2>1. "find" \in EngineLabels
    BY DEF EngineLabels
  <2>2. GameLemmas!ConsumerTypeOK(GameEvent, EngineLabels)'
    BY <1>1, <2>1, SameGameReader, GameLemmas!ReaderTypes
  <2> QED
    BY <2>2, SameGameReader
<1>2. ASSUME OddsTyped, OddsSteps PROVE OddsTyped'
  <2>1. "set" \in UpdaterLabels
    BY DEF UpdaterLabels
  <2>2. OddsLemmas!ConsumerTypeOK(OddsUpdate, UpdaterLabels)'
    BY <1>2, <2>1, SameOddsReader, OddsLemmas!ReaderTypes
  <2> QED
    BY <2>2, SameOddsReader
<1> QED
  BY <1>1, <1>2

\* What is on a topic stays there.
LEMMA GameLogGrows ==
  ASSUME GameTyped, GameSteps, NEW p \in GamePartitions
  PROVE  /\ Len(gameLog[p]) \in Nat /\ Len(gameLog'[p]) \in Nat
         /\ Len(gameLog[p]) <= Len(gameLog'[p])
         /\ \A i \in 1..Len(gameLog[p]) : gameLog'[p][i] = gameLog[p][i]
BY SameGameReader, GameLemmas!LogOnlyGrows

LEMMA OddsLogGrows ==
  ASSUME OddsTyped, OddsSteps, NEW p \in OddsPartitions
  PROVE  /\ Len(oddsLog[p]) \in Nat /\ Len(oddsLog'[p]) \in Nat
         /\ Len(oddsLog[p]) <= Len(oddsLog'[p])
         /\ \A i \in 1..Len(oddsLog[p]) : oddsLog'[p][i] = oddsLog[p][i]
BY SameOddsReader, OddsLemmas!LogOnlyGrows

LEMMA HappenedTypes ==
  ASSUME GameTyped, NEW e \in Engines, gamePc[e] # "fetch"
  PROVE  /\ Happened(e) \in GameEvent /\ Happened(e).match \in Matches
         /\ Happened(e).type \in GameEventTypes /\ Happened(e).team \in Teams
<1>1. Happened(e) \in GameEvent
  BY ElementOfSeq DEF GameTyped, GameReader!ConsumerTypeOK, GameReader!Current, Happened
<1> QED
  BY <1>1 DEF GameEvent

LEMMA UpdatedTypes ==
  ASSUME OddsTyped, NEW u \in Updaters, oddsPc[u] # "fetch"
  PROVE  /\ Updated(u) \in OddsUpdate /\ Updated(u).outcome \in Outcomes
         /\ Updated(u).old \in OfferableOdds /\ Updated(u).new \in OfferableOdds
         /\ UpdatedMarket(u) \in Markets
<1>1. Updated(u) \in OddsUpdate
  BY ElementOfSeq DEF OddsTyped, OddsReader!ConsumerTypeOK, OddsReader!Current, Updated
<1> QED
  BY <1>1, OddsStoreAssumption DEF OddsUpdate, UpdatedMarket

\* The odds that can be offered: at least 1.01.
LEMMA Offerable == \A x : x \in OfferableOdds <=> x \in Nat /\ x >= LowestOdds
BY DEF OfferableOdds, LowestOdds

-----------------------------------------------------------------------------
\* The arithmetic of the odds.

LEMMA NatMin ==
  ASSUME NEW S \in SUBSET Nat, S # {}
  PROVE  Min(S) \in S /\ \A x \in S : Min(S) <= x
<1> DEFINE Below == OpToRel(<, Nat)
<1>1. IsWellFoundedOn(Below, Nat)
  BY NatLessThanWellFounded
<1>2. \A x, y \in S : x < y => <<x, y>> \in Below
  BY DEF OpToRel
<1> HIDE DEF Below
<1>3. PICK m \in S : \A x \in S : ~(<<x, m>> \in Below)
  BY <1>1, WFMin
<1>4. \A x \in S : m <= x
  <2>1. \A x \in S : ~(x < m)
    BY <1>2, <1>3, Zenon
  <2> QED
    BY <2>1
<1>5. \E y \in S : \A x \in S : y <= x
  BY <1>4
<1>6. Min(S) = CHOOSE y \in S : \A x \in S : y <= x
  BY DEF Min
<1> QED
  BY <1>5, <1>6, Zenon

LEMMA FactorTypes ==
  ASSUME NEW ge \in GameEvent, NEW marketType \in MarketTypes, NEW name, NEW j \in Jitters
  PROVE  Factor(ge, marketType, name, j) \in Int
<1>1. j \in Int
  BY JitterAssumption
<1>2. /\ GoalImpact(ge.team, name) \in Int /\ RedCardImpact(ge.team, name) \in Int
      /\ OverUnderImpact(name) \in Int
  BY DEF GoalImpact, RedCardImpact, OverUnderImpact
<1>3. \A n \in Int : Percent(n) \in Int
  BY DEF Percent
<1>4. ge.type \in GameEventTypes /\ marketType \in {"MATCH_WINNER", "OVER_UNDER"}
  BY DEF GameEvent, MarketTypes
<1>5. \A a, k \in Int : a + k * j \in Int
  BY <1>1
<1>6. \A n, k \in Int : Percent(n) + k * j \in Int
  BY <1>3, <1>5
<1> QED
  BY <1>2, <1>3, <1>4, <1>6 DEF Factor, GameEventTypes

LEMMA RecalculatedTypes ==
  ASSUME NEW odds \in OfferableOdds, NEW factor \in Int
  PROVE  Recalculated(odds, factor) \in OfferableOdds
<1>1. Rounded(odds, factor) \in Int
  BY DEF Rounded, OfferableOdds
<1> QED
  BY <1>1, Offerable DEF Recalculated, LowestOdds

LEMMA ChangeTypes ==
  ASSUME NEW old \in OfferableOdds, NEW new \in OfferableOdds
  PROVE  Change(old, new) \in Nat
<1> DEFINE moved == IF new >= old THEN new - old ELSE old - new
<1>1. old \in Nat /\ new \in Nat /\ old > 0
  BY Offerable DEF LowestOdds
<1>2. moved \in Nat
  BY <1>1
<1>3. 10000 * moved + old \div 2 \in Nat
  BY <1>1, <1>2
<1>4. \A n \in Nat : n \div old \in Nat
  BY <1>1
<1> QED
  BY <1>3, <1>4 DEF Change

LEMMA PushedTypes ==
  ASSUME NEW changes \in Seq(Nat), NEW change \in Nat
  PROVE  Pushed(changes, change) \in Seq(Nat) /\ Len(Pushed(changes, change)) <= HistoryLength
<1> DEFINE longer == <<change>> \o changes
           kept == Min({Len(changes) + 1, HistoryLength})
<1>1. longer \in Seq(Nat) /\ Len(longer) = Len(changes) + 1 /\ Len(changes) \in Nat
  BY ConcatProperties, LenProperties
<1>2. kept \in Nat /\ kept <= Len(longer) /\ kept <= HistoryLength /\ kept >= 1
  BY <1>1, NatMin, HistoryLengthAssumption
<1> HIDE DEF longer, kept
<1>3. \A i \in 1..kept : longer[i] \in Nat
  BY <1>1, <1>2, ElementOfSeq
<1>4. SubSeq(longer, 1, kept) \in Seq(Nat) /\ Len(SubSeq(longer, 1, kept)) = kept
  BY <1>2, <1>3, SubSeqProperties
<1> QED
  BY <1>2, <1>4 DEF Pushed, longer, kept

-----------------------------------------------------------------------------
\* Every step of the pipeline is a step of each of its two readers.

LEMMA CopiesTypes ==
  ASSUME NEW T, NEW m \in T, NEW n \in 0..2
  PROVE  /\ Copies(n, m) \in Seq(T) /\ Len(Copies(n, m)) = n
         /\ \A i \in 1..n : Copies(n, m)[i] = m
BY DEF Copies

LEMMA EngineSteps ==
  ASSUME NEW e \in Engines, HandleGameEvent(e)
  PROVE  \/ /\ gamePc[e] \in EngineLabels
            /\ \E label \in EngineLabels \cup {"commit"} : GameReader!Goto(e, label)
            /\ UNCHANGED oddsReader
         \/ PublishOdds(e)
BY DEF HandleGameEvent, FindEvent, ReadOdds, AllPublished, EngineLabels, GameReader!ReturnNil

LEMMA UpdaterSteps ==
  ASSUME NEW u \in Updaters, HandleOddsUpdated(u)
  PROVE  /\ oddsPc[u] \in UpdaterLabels /\ UNCHANGED gameReader
         /\ \/ \E label \in UpdaterLabels \cup {"commit"} : OddsReader!Goto(u, label)
            \/ OddsReader!ReturnError(u)
<1>1. CASE SetOdds(u)
  BY <1>1 DEF SetOdds, UpdaterLabels, UpdaterFrame
<1>2. CASE PushOddsHistory(u)
  BY <1>2 DEF PushOddsHistory, UpdaterLabels, UpdaterFrame
<1>3. CASE GetOddsVelocity(u)
  BY <1>3 DEF GetOddsVelocity, UpdaterLabels, OddsReader!ReturnNil, UpdaterFrame
<1>4. CASE Suspend(u)
  BY <1>4 DEF Suspend, UpdaterLabels, UpdaterFrame
<1>5. CASE PublishMarketSuspended(u)
  BY <1>5 DEF PublishMarketSuspended, UpdaterLabels, OddsReader!ReturnNil, UpdaterFrame
<1> QED
  BY <1>1, <1>2, <1>3, <1>4, <1>5 DEF HandleOddsUpdated

LEMMA StepOfGameReader == [Next]_vars => GameSteps
<1> SUFFICES ASSUME [Next]_vars PROVE GameSteps
  OBVIOUS
<1> USE DEF GameSteps
<1>0. ASSUME UNCHANGED gameReader PROVE GameSteps
  BY <1>0 DEF gameReader, GameReader!ReaderStep, GameReader!consumerVars
<1>1. ASSUME NEW match \in Matches, NEW type \in GameEventTypes, NEW team \in FedTeams,
             PlayMatch(match, type, team)
      PROVE  GameSteps
  <2> DEFINE ge == [match |-> match, type |-> type, team |-> team]
  <2>1. PICK n \in 0..2 : GameReader!Produce(GamePartition[match], Copies(n, ge))
    BY <1>1 DEF PlayMatch
  <2>2. ge \in GameEvent /\ GamePartition[match] \in GamePartitions
    BY FeedAssumption, OddsStoreAssumption DEF GameEvent
  <2>3. Copies(n, ge) \in Seq(GameEvent)
    BY <2>2, CopiesTypes
  <2> QED
    BY <1>1, <2>1, <2>2, <2>3 DEF PlayMatch, FeedFrame, GameReader!ReaderStep
<1>2. ASSUME NEW match \in Matches, UpdateEventStatus(match) PROVE GameSteps
  BY <1>0, <1>2 DEF UpdateEventStatus, FeedFrame, gameReader
<1>3. CASE CrashFeed
  BY <1>0, <1>3 DEF CrashFeed, FeedFrame, gameReader
<1>4. ASSUME NEW e \in Engines, HandleGameEvent(e) PROVE GameSteps
  <2>1. CASE PublishOdds(e)
    BY <2>1 DEF PublishOdds, EngineLabels, GameReader!ReaderStep
  <2> QED
    BY <1>4, <2>1, EngineSteps DEF EngineLabels, GameReader!ReaderStep
<1>5. ASSUME NEW e \in Engines, EngineLoop(e) PROVE GameSteps
  BY <1>4, <1>5 DEF EngineLoop, GameReader!ReaderStep
<1>6. ASSUME NEW e \in Engines, CrashEngine(e) PROVE GameSteps
  BY <1>6 DEF CrashEngine, GameReader!ReaderStep
<1>7. ASSUME NEW u \in Updaters, UpdaterLoop(u) PROVE GameSteps
  BY <1>0, <1>7, UpdaterSteps DEF UpdaterLoop, UpdaterFrame
<1>8. CASE RebalanceEngines
  BY <1>8 DEF RebalanceEngines, GameReader!ReaderStep
<1>9. ASSUME \/ \E u \in Updaters : CrashUpdater(u)
             \/ \E m \in Markets : MarketSettled(m) \/ SuspensionLapses(m)
             \/ \E o \in Outcomes : OddsExpire(o)
             \/ RebalanceUpdaters \/ UNCHANGED vars
      PROVE  GameSteps
  BY <1>0, <1>9 DEF CrashUpdater, MarketSettled, SuspensionLapses, OddsExpire,
                    RebalanceUpdaters, vars
<1> QED
  BY <1>1, <1>2, <1>3, <1>5, <1>6, <1>7, <1>8, <1>9 DEF Next

\* The outcome an engine has come to.
LEMMA OutcomeTypes ==
  ASSUME EngineTypeOK, GameTyped, NEW e \in Engines,
         gamePc[e] \in {"read", "publish"}, todo[e] # {}
  PROVE  Outcome(e) \in Outcomes /\ todo[e] \in SUBSET Nat /\ Min(todo[e]) \in todo[e]
<1>1. todo[e] \in SUBSET Nat /\ todo[e] \subseteq DOMAIN OutcomesOf[Happened(e).match]
  BY DEF EngineTypeOK, Happened
<1>2. Min(todo[e]) \in todo[e]
  BY <1>1, NatMin
<1>3. OutcomesOf[Happened(e).match] \in Seq(Outcomes)
  BY HappenedTypes, OddsStoreAssumption
<1> QED
  BY <1>1, <1>2, <1>3 DEF Outcome

\* The update leads to where the event in the engine's hands moves the odds.
Moved(e, update) ==
  LET o == Outcome(e) IN
  \E j \in Jitters :
    update.new = Recalculated(update.old, Factor(Happened(e), MarketType[MarketOf[o]], Name[o], j))

\* What an engine publishes.
LEMMA Published ==
  ASSUME EngineTypeOK, GameTyped, NEW e \in Engines, PublishOdds(e)
  PROVE  /\ Outcome(e) \in Outcomes /\ OddsPartition[Outcome(e)] \in OddsPartitions
         /\ \E n \in 0..2, update \in OddsUpdate :
              /\ update.outcome = Outcome(e) /\ update.old = oldOdds[e] /\ Moved(e, update)
              /\ OddsReader!Produce(OddsPartition[Outcome(e)], Copies(n, update))
<1> DEFINE o == Outcome(e)
           ge == Happened(e)
           NewOdds(j) == Recalculated(oldOdds[e], Factor(ge, MarketType[MarketOf[o]], Name[o], j))
           Update(j) == [outcome |-> o, old |-> oldOdds[e], new |-> NewOdds(j),
                         trigger |-> ge.type]
<1>1. gamePc[e] = "publish" /\ todo[e] # {} /\ oldOdds[e] \in OfferableOdds
  BY DEF PublishOdds, EngineTypeOK
<1>2. o \in Outcomes /\ MarketType[MarketOf[o]] \in MarketTypes
      /\ OddsPartition[o] \in OddsPartitions
  BY <1>1, OutcomeTypes, OddsStoreAssumption
<1>3. PICK j \in Jitters, n \in 0..2 :
        OddsReader!Produce(OddsPartition[o], Copies(n, Update(j)))
  BY DEF PublishOdds
<1>4. ge \in GameEvent /\ ge.type \in GameEventTypes
  BY <1>1, HappenedTypes
<1> HIDE DEF o, ge
<1>5. NewOdds(j) \in OfferableOdds
  BY <1>1, <1>2, <1>4, FactorTypes, RecalculatedTypes
<1>8. \A update : update.old = oldOdds[e] /\ update.new = NewOdds(j) => Moved(e, update)
  BY Zenon DEF Moved, o, ge
<1> HIDE DEF NewOdds
<1>6. /\ Update(j) \in OddsUpdate
      /\ Update(j).outcome = o /\ Update(j).old = oldOdds[e] /\ Update(j).new = NewOdds(j)
  BY <1>1, <1>2, <1>4, <1>5 DEF OddsUpdate
<1> HIDE DEF Update
<1>7. \E update \in OddsUpdate :
        /\ update.outcome = o /\ update.old = oldOdds[e] /\ Moved(e, update)
        /\ OddsReader!Produce(OddsPartition[o], Copies(n, update))
  BY <1>3, <1>6, <1>8
<1> QED
  BY <1>2, <1>7 DEF o

LEMMA StepOfOddsReader ==
  EngineTypeOK /\ GameTyped /\ [Next]_vars => OddsSteps
<1> SUFFICES ASSUME EngineTypeOK, GameTyped, [Next]_vars PROVE OddsSteps
  OBVIOUS
<1> USE DEF OddsSteps
<1>0. ASSUME UNCHANGED oddsReader PROVE OddsSteps
  BY <1>0 DEF oddsReader, OddsReader!ReaderStep, OddsReader!consumerVars
<1>1. ASSUME NEW e \in Engines, PublishOdds(e) PROVE OddsSteps
  <2>1. PICK n \in 0..2, update \in OddsUpdate :
          OddsReader!Produce(OddsPartition[Outcome(e)], Copies(n, update))
    BY <1>1, Published
  <2>2. Copies(n, update) \in Seq(OddsUpdate)
    BY CopiesTypes
  <2>3. UNCHANGED <<oddsCommitted, oddsPos, oddsOwner, oddsAt, oddsPc>>
    BY <1>1 DEF PublishOdds
  <2> QED
    BY <1>1, <2>1, <2>2, <2>3, Published DEF OddsReader!ReaderStep
<1>2. ASSUME NEW e \in Engines, EngineLoop(e) PROVE OddsSteps
  BY <1>0, <1>1, <1>2, EngineSteps DEF EngineLoop
<1>3. ASSUME NEW u \in Updaters, HandleOddsUpdated(u) PROVE OddsSteps
  BY <1>3, UpdaterSteps DEF UpdaterLabels, OddsReader!ReaderStep
<1>4. ASSUME NEW u \in Updaters, UpdaterLoop(u) PROVE OddsSteps
  BY <1>3, <1>4 DEF UpdaterLoop, OddsReader!ReaderStep
<1>5. ASSUME NEW u \in Updaters, CrashUpdater(u) PROVE OddsSteps
  BY <1>5 DEF CrashUpdater, OddsReader!ReaderStep
<1>6. CASE RebalanceUpdaters
  BY <1>6 DEF RebalanceUpdaters, OddsReader!ReaderStep
<1>7. ASSUME \/ \E match \in Matches :
                  \/ \E type \in GameEventTypes, team \in FedTeams : PlayMatch(match, type, team)
                  \/ UpdateEventStatus(match)
             \/ CrashFeed \/ \E e \in Engines : CrashEngine(e)
      PROVE  OddsSteps
  BY <1>0, <1>7 DEF PlayMatch, UpdateEventStatus, CrashFeed, FeedFrame, CrashEngine
<1>8. ASSUME \/ \E m \in Markets : MarketSettled(m) \/ SuspensionLapses(m)
             \/ \E o \in Outcomes : OddsExpire(o)
             \/ RebalanceEngines \/ UNCHANGED vars
      PROVE  OddsSteps
  BY <1>0, <1>8 DEF MarketSettled, SuspensionLapses, OddsExpire, RebalanceEngines, vars
<1> QED
  BY <1>2, <1>4, <1>5, <1>6, <1>7, <1>8 DEF Next

-----------------------------------------------------------------------------
\* Types.

LEMMA TypeInit == OddsInit => TypeOK
<1> SUFFICES ASSUME OddsInit PROVE TypeOK
  OBVIOUS
<1>1. GameTyped
  BY DEF OddsInit, GameTyped, GameReader!ConsumerInit, GameReader!ConsumerTypeOK
<1>2. OddsTyped
  BY DEF OddsInit, OddsTyped, OddsReader!ConsumerInit, OddsReader!ConsumerTypeOK
<1>3. BoardTypeOK
  BY OddsStoreAssumption, HistoryLengthAssumption DEF OddsInit, BoardTypeOK
<1>4. EngineTypeOK
  BY DEF OddsInit, EngineTypeOK, GameReader!ConsumerInit
<1> QED
  BY <1>1, <1>2, <1>3, <1>4 DEF OddsInit, TypeOK, OddsTypeOK, GameTyped, OddsTyped, Phases

\* Two ends of one call.
LEMMA FaultTypes ==
  ASSUME faults \in Nat, CallOK \/ CallFails \/ Fault
  PROVE  faults' \in Nat /\ faults <= faults'
BY DEF CallOK, CallFails, Fault

LEMMA WrittenTypes ==
  ASSUME faults \in Nat, NEW n, NEW answered, Written(n, answered)
  PROVE  faults' \in Nat /\ faults <= faults'
BY FaultTypes DEF Written

\* The faults are counted.
LEMMA FaultsGrow == faults \in Nat /\ [Next]_vars => faults' \in Nat /\ faults <= faults'
<1> SUFFICES ASSUME faults \in Nat, [Next]_vars PROVE faults' \in Nat /\ faults <= faults'
  OBVIOUS
<1>1. CallOK \/ CallFails \/ Fault \/ \E n, answered : Written(n, answered)
  BY DEF Next, PlayMatch, UpdateEventStatus, CrashFeed, EngineLoop, HandleGameEvent,
         FindEvent, ReadOdds, PublishOdds, AllPublished, CrashEngine, UpdaterLoop,
         HandleOddsUpdated, SetOdds, PushOddsHistory, GetOddsVelocity, Suspend,
         PublishMarketSuspended, CrashUpdater, MarketSettled, SuspensionLapses,
         OddsExpire, RebalanceEngines, RebalanceUpdaters, CallOK, vars
<1> QED
  BY <1>1, FaultTypes, WrittenTypes

\* A handler that is running after a step was running before it, unless its
\* message was just fetched.
LEMMA HappenedStays ==
  ASSUME GameTyped, GameSteps, NEW e \in Engines, gamePc[e] # "fetch", gamePc'[e] # "fetch"
  PROVE  Happened(e)' = Happened(e)
<1>1. /\ gameAt[e] \in GamePartitions \X Nat /\ gameAt[e][1] \in GamePartitions
      /\ gameAt[e][2] \in 1..Len(gameLog[gameAt[e][1]])
  BY DEF GameTyped, GameReader!ConsumerTypeOK
<1>2. /\ gamePc \in [Engines -> EngineLabels \cup {"fetch", "commit"}]
      /\ gameAt \in [Engines -> (GamePartitions \X Nat) \cup {NoMessage}]
  BY DEF GameTyped, GameReader!ConsumerTypeOK
<1>3. gameAt'[e] = gameAt[e]
  BY <1>2 DEF GameSteps, GameReader!ReaderStep, GameReader!Fetch, GameReader!ReturnError,
         GameReader!Crash, GameReader!Goto, GameReader!Commit, GameReader!Rebalance,
         GameReader!consumerVars
<1> QED
  BY <1>1, <1>3, GameLogGrows DEF Happened, GameReader!Current

LEMMA UpdatedStays ==
  ASSUME OddsTyped, OddsSteps, NEW u \in Updaters, oddsPc[u] # "fetch", oddsPc'[u] # "fetch"
  PROVE  Updated(u)' = Updated(u) /\ oddsAt'[u] = oddsAt[u]
<1>1. /\ oddsAt[u] \in OddsPartitions \X Nat /\ oddsAt[u][1] \in OddsPartitions
      /\ oddsAt[u][2] \in 1..Len(oddsLog[oddsAt[u][1]])
  BY DEF OddsTyped, OddsReader!ConsumerTypeOK
<1>2. /\ oddsPc \in [Updaters -> UpdaterLabels \cup {"fetch", "commit"}]
      /\ oddsAt \in [Updaters -> (OddsPartitions \X Nat) \cup {NoMessage}]
  BY DEF OddsTyped, OddsReader!ConsumerTypeOK
<1>3. oddsAt'[u] = oddsAt[u]
  BY <1>2 DEF OddsSteps, OddsReader!ReaderStep, OddsReader!Fetch, OddsReader!ReturnError,
         OddsReader!Crash, OddsReader!Goto, OddsReader!Commit, OddsReader!Rebalance,
         OddsReader!consumerVars
<1> QED
  BY <1>1, <1>3, OddsLogGrows DEF Updated, OddsReader!Current

LEMMA ReadTypes ==
  ASSUME BoardTypeOK, NEW o \in Outcomes
  PROVE  InitialOdds[o] \in OfferableOdds /\ OrInitial(o, cachedOdds[o]) \in OfferableOdds
BY OddsStoreAssumption DEF BoardTypeOK, OrInitial

LEMMA EngineStep ==
  ASSUME GameTyped, BoardTypeOK, EngineTypeOK, [Next]_vars
  PROVE  EngineTypeOK'
<1> DEFINE In(e) == /\ gamePc[e] \in {"read", "publish"}
                         => todo[e] \subseteq DOMAIN OutcomesOf[Happened(e).match]
                    /\ gamePc[e] = "publish" => todo[e] # {} /\ oldOdds[e] # 0
           Kept == EngineTypeOK'
<1>0. /\ GameSteps /\ gamePc \in [Engines -> EngineLabels \cup {"fetch", "commit"}]
      /\ 0 \notin OfferableOdds
  BY StepOfGameReader, Offerable DEF GameTyped, GameReader!ConsumerTypeOK, LowestOdds
<1>1. /\ todo \in [Engines -> SUBSET Nat] /\ oldOdds \in [Engines -> OfferableOdds \cup {0}]
      /\ \A e \in Engines : In(e)
  BY DEF EngineTypeOK, Happened
<1>S. ASSUME /\ todo' \in [Engines -> SUBSET Nat]
             /\ oldOdds' \in [Engines -> OfferableOdds \cup {0}]
             /\ \A e \in Engines : In(e)'
      PROVE  Kept
  BY <1>S DEF EngineTypeOK, Happened
<1>O. ASSUME NEW x \in Engines, gamePc'[x] \in {gamePc[x], "fetch", "find", "commit"},
             todo'[x] = todo[x], oldOdds'[x] = oldOdds[x]
      PROVE  In(x)'
  BY <1>0, <1>1, <1>O, HappenedStays
<1>2. ASSUME UNCHANGED <<gamePc, engineLocals>> PROVE Kept
  <2>1. \A x \in Engines : In(x)'
    BY <1>O, <1>2 DEF engineLocals
  <2> QED
    BY <1>1, <1>2, <2>1, <1>S DEF engineLocals
<1>3. ASSUME NEW e \in Engines, NEW label, GameReader!Goto(e, label),
             todo' = [todo EXCEPT ![e] = todo'[e]],
             oldOdds' = [oldOdds EXCEPT ![e] = oldOdds'[e]],
             todo'[e] \in SUBSET Nat, oldOdds'[e] \in OfferableOdds \cup {0},
             In(e)'
      PROVE  Kept
  <2>1. gamePc' = [gamePc EXCEPT ![e] = label]
    BY <1>3 DEF GameReader!Goto
  <2>2. \A x \in Engines : x # e => In(x)'
    BY <1>0, <1>1, <1>3, <1>O, <2>1
  <2>3. /\ todo' \in [Engines -> SUBSET Nat]
        /\ oldOdds' \in [Engines -> OfferableOdds \cup {0}]
    BY <1>1, <1>3
  <2> QED
    BY <1>3, <1>S, <2>2, <2>3
<1>4. ASSUME NEW e \in Engines, FindEvent(e) PROVE Kept
  <2>1. UNCHANGED <<gameLog, oldOdds>> /\ gamePc[e] = "find"
    BY <1>4 DEF FindEvent, GameReader!Goto, GameReader!ReturnNil
  <2>2. CASE GameReader!Goto(e, "commit") /\ UNCHANGED todo
    <3>1. In(e)'
      BY <1>0, <2>2 DEF GameReader!Goto
    <3> QED
      BY <1>1, <1>3, <2>1, <2>2, <3>1
  <2>3. CASE /\ GameReader!Goto(e, "read")
             /\ todo' = [todo EXCEPT ![e] = OpenOutcomes(Happened(e).match)]
    <3>1. OutcomesOf[Happened(e).match] \in Seq(Outcomes)
      BY <2>1, HappenedTypes, OddsStoreAssumption
    <3>2. /\ OpenOutcomes(Happened(e).match) \subseteq DOMAIN OutcomesOf[Happened(e).match]
          /\ OpenOutcomes(Happened(e).match) \in SUBSET Nat
      BY <3>1, LenProperties DEF OpenOutcomes
    <3>3. Happened(e)' = Happened(e)
      BY <1>0, <2>1, <2>3, HappenedStays DEF GameReader!Goto
    <3>4. In(e)'
      BY <1>0, <1>1, <2>3, <3>2, <3>3 DEF GameReader!Goto
    <3> QED
      BY <1>1, <1>3, <2>1, <2>3, <3>2, <3>4
  <2> QED
    BY <1>4, <2>2, <2>3 DEF FindEvent, GameReader!ReturnNil
<1>5. ASSUME NEW e \in Engines, ReadOdds(e) PROVE Kept
  <2>1. /\ gamePc[e] = "read" /\ todo[e] # {} /\ UNCHANGED todo
        /\ GameReader!Goto(e, "publish")
    BY <1>5 DEF ReadOdds
  <2>2. Outcome(e) \in Outcomes
    BY <2>1, OutcomeTypes
  <2>3. PICK odds \in OfferableOdds : oldOdds' = [oldOdds EXCEPT ![e] = odds]
    BY <1>5, <2>2, ReadTypes DEF ReadOdds
  <2>4. Happened(e)' = Happened(e)
    BY <1>0, <2>1, HappenedStays DEF GameReader!Goto
  <2>5. In(e)'
    BY <1>0, <1>1, <2>1, <2>3, <2>4
  <2> QED
    BY <1>1, <1>3, <2>1, <2>3, <2>5
<1>6. ASSUME NEW e \in Engines, PublishOdds(e) PROVE Kept
  <2>1. /\ gamePc[e] = "publish" /\ GameReader!Goto(e, "read")
        /\ todo' = [todo EXCEPT ![e] = @ \ {Min(@)}]
        /\ oldOdds' = [oldOdds EXCEPT ![e] = 0]
    BY <1>6 DEF PublishOdds
  <2>2. Happened(e)' = Happened(e)
    BY <1>0, <2>1, HappenedStays DEF GameReader!Goto
  <2>3. In(e)'
    BY <1>0, <1>1, <2>1, <2>2 DEF GameReader!Goto
  <2> QED
    BY <1>1, <1>3, <2>1, <2>3
<1>7. ASSUME NEW e \in Engines, AllPublished(e) PROVE Kept
  <2>1. GameReader!Goto(e, "commit") /\ UNCHANGED <<todo, oldOdds>>
    BY <1>7 DEF AllPublished, GameReader!ReturnNil, engineLocals
  <2>2. In(e)'
    BY <1>0, <2>1 DEF GameReader!Goto
  <2> QED
    BY <1>1, <1>3, <2>1, <2>2
<1>8. ASSUME NEW e \in Engines, EngineLoop(e), ~HandleGameEvent(e) PROVE Kept
  <2>1. UNCHANGED <<todo, oldOdds>>
    BY <1>8 DEF EngineLoop, engineLocals
  <2>2. \A x \in Engines : gamePc'[x] \in {gamePc[x], "find", "fetch"}
    BY <1>0, <1>8 DEF EngineLoop, GameReader!Fetch, GameReader!Commit
  <2>3. \A x \in Engines : In(x)'
    BY <1>O, <2>1, <2>2
  <2> QED
    BY <1>1, <1>S, <2>1, <2>3
<1>9. ASSUME NEW e \in Engines, CrashEngine(e) PROVE Kept
  <2>1. /\ gamePc' = [gamePc EXCEPT ![e] = "fetch"]
        /\ todo' = [todo EXCEPT ![e] = {}]
        /\ oldOdds' = [oldOdds EXCEPT ![e] = 0]
    BY <1>9 DEF CrashEngine, GameReader!Crash
  <2>2. In(e)'
    BY <1>0, <2>1
  <2>3. \A x \in Engines : x # e => In(x)'
    BY <1>O, <1>0, <1>1, <2>1
  <2> QED
    BY <1>1, <1>S, <2>1, <2>2, <2>3
<1>10. ASSUME \/ \E match \in Matches :
                   \/ \E type \in GameEventTypes, team \in FedTeams : PlayMatch(match, type, team)
                   \/ UpdateEventStatus(match)
              \/ CrashFeed
              \/ \E u \in Updaters : UpdaterLoop(u) \/ CrashUpdater(u)
       PROVE  Kept
  BY <1>2, <1>10, UpdaterSteps DEF PlayMatch, UpdateEventStatus, CrashFeed, FeedFrame, UpdaterLoop,
         CrashUpdater, gameReader, UpdaterFrame, HandleOddsUpdated, SetOdds,
         PushOddsHistory, GetOddsVelocity, Suspend, PublishMarketSuspended
<1>11. ASSUME \/ \E m \in Markets : MarketSettled(m) \/ SuspensionLapses(m)
              \/ \E o \in Outcomes : OddsExpire(o)
              \/ RebalanceEngines \/ RebalanceUpdaters \/ UNCHANGED vars
       PROVE  Kept
  BY <1>2, <1>11 DEF MarketSettled, SuspensionLapses, OddsExpire,
         RebalanceEngines, RebalanceUpdaters, GameReader!Rebalance, gameReader, vars
<1> QED
  BY <1>4, <1>5, <1>6, <1>7, <1>8, <1>9, <1>10, <1>11 DEF Next, HandleGameEvent, EngineLoop

\* What a step may do to the odds and the suspensions in Redis: one key changes.
LEMMA KeySteps ==
  ASSUME OddsTyped, [Next]_vars
  PROVE  \/ UNCHANGED <<cachedOdds, suspended>>
         \/ /\ UNCHANGED suspended
            /\ \E o \in Outcomes, odds \in OfferableOdds \cup {0} :
                 cachedOdds' = [cachedOdds EXCEPT ![o] = odds]
         \/ /\ UNCHANGED cachedOdds
            /\ \E m \in Markets : suspended' \in {suspended \cup {m}, suspended \ {m}}
<1> DEFINE Same == UNCHANGED <<cachedOdds, suspended>>
           Written1 == /\ UNCHANGED suspended
                       /\ \E o \in Outcomes, odds \in OfferableOdds \cup {0} :
                            cachedOdds' = [cachedOdds EXCEPT ![o] = odds]
           Suspended1 == /\ UNCHANGED cachedOdds
                         /\ \E m \in Markets : suspended' \in {suspended \cup {m}, suspended \ {m}}
           Goal == Same \/ Written1 \/ Suspended1
<1>1. ASSUME NEW u \in Updaters, SetOdds(u) PROVE Goal
  <2>1. Updated(u).outcome \in Outcomes /\ Updated(u).new \in OfferableOdds
    BY <1>1, UpdatedTypes DEF SetOdds
  <2> QED
    BY <1>1, <2>1 DEF SetOdds, SetOddsOf
<1>2. ASSUME NEW u \in Updaters, Suspend(u) PROVE Goal
  <2>1. UpdatedMarket(u) \in Markets
    BY <1>2, UpdatedTypes DEF Suspend
  <2> QED
    BY <1>2, <2>1 DEF Suspend
<1>3. ASSUME NEW u \in Updaters, UpdaterLoop(u), ~SetOdds(u), ~Suspend(u) PROVE Goal
  BY <1>3 DEF UpdaterLoop, HandleOddsUpdated, PushOddsHistory, GetOddsVelocity,
              PublishMarketSuspended, board
<1>4. ASSUME NEW m \in Markets, SuspensionLapses(m) PROVE Goal
  BY <1>4 DEF SuspensionLapses
<1>5. ASSUME NEW o \in Outcomes, OddsExpire(o) PROVE Goal
  BY <1>5 DEF OddsExpire
<1>6. ASSUME NEW e \in Engines, EngineLoop(e) \/ CrashEngine(e) PROVE Goal
  BY <1>6 DEF EngineLoop, HandleGameEvent, FindEvent, ReadOdds, PublishOdds, AllPublished,
              EngineFrame, CrashEngine, board
<1>7. ASSUME \/ \E match \in Matches :
                  \/ \E type \in GameEventTypes, team \in FedTeams : PlayMatch(match, type, team)
                  \/ UpdateEventStatus(match)
             \/ CrashFeed
             \/ \E u \in Updaters : CrashUpdater(u)
             \/ \E m \in Markets : MarketSettled(m)
             \/ RebalanceEngines \/ RebalanceUpdaters \/ UNCHANGED vars
      PROVE  Goal
  BY <1>7 DEF PlayMatch, UpdateEventStatus, CrashFeed, FeedFrame, CrashUpdater,
              MarketSettled, RebalanceEngines, RebalanceUpdaters, board, vars
<1> QED
  BY <1>1, <1>2, <1>3, <1>4, <1>5, <1>6, <1>7 DEF Next, UpdaterLoop

\* Only a push touches the history.
LEMMA HistorySteps ==
  ASSUME [Next]_vars
  PROVE  UNCHANGED history \/ \E u \in Updaters : PushOddsHistory(u)
<1> DEFINE Goal == UNCHANGED history \/ \E u \in Updaters : PushOddsHistory(u)
<1>1. ASSUME NEW u \in Updaters, UpdaterLoop(u), ~PushOddsHistory(u) PROVE Goal
  BY <1>1 DEF UpdaterLoop, HandleOddsUpdated, SetOdds, GetOddsVelocity, Suspend,
              PublishMarketSuspended, board
<1>2. ASSUME NEW e \in Engines, EngineLoop(e) \/ CrashEngine(e) PROVE Goal
  BY <1>2 DEF EngineLoop, HandleGameEvent, FindEvent, ReadOdds, PublishOdds, AllPublished,
              EngineFrame, CrashEngine, board
<1>3. ASSUME \/ \E match \in Matches :
                  \/ \E type \in GameEventTypes, team \in FedTeams : PlayMatch(match, type, team)
                  \/ UpdateEventStatus(match)
             \/ CrashFeed
             \/ \E u \in Updaters : CrashUpdater(u)
             \/ \E m \in Markets : MarketSettled(m) \/ SuspensionLapses(m)
             \/ \E o \in Outcomes : OddsExpire(o)
             \/ RebalanceEngines \/ RebalanceUpdaters \/ UNCHANGED vars
      PROVE  Goal
  BY <1>3 DEF PlayMatch, UpdateEventStatus, CrashFeed, FeedFrame, CrashUpdater,
              MarketSettled, SuspensionLapses, OddsExpire, RebalanceEngines,
              RebalanceUpdaters, board, vars
<1> QED
  BY <1>1, <1>2, <1>3 DEF Next

LEMMA BoardStep ==
  ASSUME OddsTyped, BoardTypeOK, [Next]_vars PROVE BoardTypeOK'
<1>1. cachedOdds' \in [Outcomes -> OfferableOdds \cup {0}] /\ suspended' \subseteq Markets
  BY KeySteps DEF BoardTypeOK
<1>2. history' \in [Outcomes -> Seq(Nat)] /\ \A o \in Outcomes : Len(history'[o]) <= HistoryLength
  <2>1. history \in [Outcomes -> Seq(Nat)] /\ \A o \in Outcomes : Len(history[o]) <= HistoryLength
    BY DEF BoardTypeOK
  <2>2. CASE UNCHANGED history
    BY <2>1, <2>2
  <2>3. ASSUME NEW update \in OddsUpdate, NEW times \in 0..2, Push(update, times)
        PROVE  /\ history' \in [Outcomes -> Seq(Nat)]
               /\ \A o \in Outcomes : Len(history'[o]) <= HistoryLength
    <3> DEFINE change == Change(update.old, update.new)
               Once(changes) == Pushed(changes, change)
    <3>1. change \in Nat /\ update.outcome \in Outcomes
      BY ChangeTypes DEF OddsUpdate
    <3> HIDE DEF change
    <3>2. \A changes \in Seq(Nat) :
            Once(changes) \in Seq(Nat) /\ Len(Once(changes)) <= HistoryLength
      BY <3>1, PushedTypes
    <3> HIDE DEF Once
    <3> DEFINE after == CASE times = 0 -> history[update.outcome]
                          [] times = 1 -> Once(history[update.outcome])
                          [] times = 2 -> Once(Once(history[update.outcome]))
    <3>3. history' = [history EXCEPT ![update.outcome] = after]
      BY <2>3 DEF Push, Once, change
    <3>4. after \in Seq(Nat) /\ Len(after) <= HistoryLength
      <4>1. times \in {0, 1, 2}
        OBVIOUS
      <4> QED
        BY <2>1, <3>1, <3>2, <4>1
    <3> QED
      BY <2>1, <3>1, <3>3, <3>4
  <2> QED
    <3>1. ASSUME NEW u \in Updaters, PushOddsHistory(u)
          PROVE  \E update \in OddsUpdate, times \in 0..2 : Push(update, times)
      <4>1. Updated(u) \in OddsUpdate
        BY <3>1, UpdatedTypes DEF PushOddsHistory
      <4> QED
        BY <3>1, <4>1 DEF PushOddsHistory
    <3> QED
      BY <2>2, <2>3, <3>1, HistorySteps
<1> QED
  BY <1>1, <1>2 DEF BoardTypeOK

\* Only the feed touches the topic game.events and its own memory.
LEMMA FeedSteps ==
  ASSUME [Next]_vars
  PROVE  \/ UNCHANGED <<gameLog, phase, score, restarts>>
         \/ \E match \in Matches, type \in GameEventTypes, team \in FedTeams :
              PlayMatch(match, type, team)
         \/ CrashFeed
<1> DEFINE Same == UNCHANGED <<gameLog, phase, score, restarts>>
<1>1. ASSUME NEW e \in Engines, EngineLoop(e) \/ CrashEngine(e) PROVE Same
  BY <1>1 DEF EngineLoop, HandleGameEvent, FindEvent, ReadOdds, PublishOdds, AllPublished,
              EngineFrame, CrashEngine, feed, GameReader!Goto, GameReader!ReturnNil,
              GameReader!Fetch, GameReader!Commit, GameReader!Crash
<1>2. ASSUME NEW u \in Updaters, UpdaterLoop(u) \/ CrashUpdater(u) PROVE Same
  BY <1>2 DEF UpdaterLoop, HandleOddsUpdated, SetOdds, PushOddsHistory, GetOddsVelocity,
              Suspend, PublishMarketSuspended, UpdaterFrame, CrashUpdater, feed, gameReader
<1>3. ASSUME \/ \E match \in Matches : UpdateEventStatus(match)
             \/ \E m \in Markets : MarketSettled(m) \/ SuspensionLapses(m)
             \/ \E o \in Outcomes : OddsExpire(o)
             \/ RebalanceEngines \/ RebalanceUpdaters \/ UNCHANGED vars
      PROVE  Same
  BY <1>3 DEF UpdateEventStatus, MarketSettled, SuspensionLapses, OddsExpire,
              RebalanceEngines, RebalanceUpdaters, GameReader!Rebalance, feed, gameReader, vars
<1> QED
  BY <1>1, <1>2, <1>3 DEF Next

LEMMA PhasesStay ==
  \A now \in Phases : NextPhases(now) \subseteq Phases
BY DEF Phases, NextPhases

LEMMA FeedStep ==
  ASSUME phase \in [Matches -> Phases], score \in [Matches -> Nat], restarts \in Nat, [Next]_vars
  PROVE  phase' \in [Matches -> Phases] /\ score' \in [Matches -> Nat] /\ restarts' \in Nat
<1>1. ASSUME NEW match \in Matches, NEW type \in GameEventTypes, NEW team \in FedTeams,
             PlayMatch(match, type, team)
      PROVE  phase' \in [Matches -> Phases] /\ score' \in [Matches -> Nat] /\ restarts' \in Nat
  BY <1>1, PhasesStay DEF PlayMatch
<1>2. CASE CrashFeed
  BY <1>2 DEF CrashFeed, Phases
<1> QED
  BY <1>1, <1>2, FeedSteps

LEMMA OtherTypes ==
  ASSUME TypeOK, [Next]_vars
  PROVE  open' \subseteq Markets /\ live' \subseteq Matches /\ notices' \in [Markets -> Nat]
<1> DEFINE Kept == open' \subseteq Markets /\ live' \subseteq Matches /\ notices' \in [Markets -> Nat]
<1>0. /\ open \subseteq Markets /\ live \subseteq Matches /\ notices \in [Markets -> Nat]
      /\ OddsTyped
  BY DEF TypeOK, OddsTypeOK, OddsTyped
<1>1. ASSUME NEW u \in Updaters, PublishMarketSuspended(u) PROVE Kept
  <2>1. UpdatedMarket(u) \in Markets
    BY <1>0, <1>1, UpdatedTypes DEF PublishMarketSuspended
  <2> QED
    BY <1>0, <1>1, <2>1 DEF PublishMarketSuspended, UpdaterFrame, feed
<1>2. ASSUME NEW u \in Updaters, UpdaterLoop(u), ~PublishMarketSuspended(u) PROVE Kept
  BY <1>0, <1>2 DEF UpdaterLoop, HandleOddsUpdated, SetOdds, PushOddsHistory,
         GetOddsVelocity, Suspend, UpdaterFrame, feed
<1>3. ASSUME NEW e \in Engines, EngineLoop(e) \/ CrashEngine(e) PROVE Kept
  BY <1>0, <1>3 DEF EngineLoop, HandleGameEvent, FindEvent, ReadOdds, PublishOdds,
         AllPublished, EngineFrame, CrashEngine, feed
<1>4. ASSUME \/ \E match \in Matches :
                  \/ \E type \in GameEventTypes, team \in FedTeams : PlayMatch(match, type, team)
                  \/ UpdateEventStatus(match)
             \/ CrashFeed
             \/ \E u \in Updaters : CrashUpdater(u)
             \/ \E m \in Markets : MarketSettled(m) \/ SuspensionLapses(m)
             \/ \E o \in Outcomes : OddsExpire(o)
             \/ RebalanceEngines \/ RebalanceUpdaters \/ UNCHANGED vars
      PROVE  Kept
  BY <1>0, <1>4 DEF PlayMatch, UpdateEventStatus, CrashFeed, FeedFrame, CrashUpdater,
              MarketSettled, SuspensionLapses, OddsExpire, RebalanceEngines,
              RebalanceUpdaters, feed, vars
<1> QED
  BY <1>1, <1>2, <1>3, <1>4 DEF Next

LEMMA TypeStep == TypeOK /\ [Next]_vars => TypeOK'
<1> SUFFICES ASSUME TypeOK, [Next]_vars PROVE TypeOK'
  OBVIOUS
<1>1. /\ GameTyped /\ OddsTyped /\ BoardTypeOK /\ EngineTypeOK /\ faults \in Nat
      /\ phase \in [Matches -> Phases] /\ score \in [Matches -> Nat] /\ restarts \in Nat
  BY DEF TypeOK, OddsTypeOK, GameTyped, OddsTyped
<1>2. GameTyped' /\ OddsTyped'
  BY <1>1, StepOfGameReader, StepOfOddsReader, ReadersStayTyped
<1>3. BoardTypeOK' /\ EngineTypeOK'
  BY <1>1, BoardStep, EngineStep
<1>4. /\ phase' \in [Matches -> Phases] /\ score' \in [Matches -> Nat] /\ restarts' \in Nat
      /\ faults' \in Nat
  BY <1>1, FeedStep, FaultsGrow
<1> QED
  BY <1>2, <1>3, <1>4, OtherTypes DEF TypeOK, OddsTypeOK, GameTyped, OddsTyped

\* The state of the odds pipeline keeps its types: no step of any process, no
\* crash and no rebalance leaves an engine with an outcome it does not have, or
\* Redis with odds below 1.01.
THEOREM PipelineTypes == Spec => []TypeOK
<1> QED
  BY TypeInit, TypeStep, PTL DEF Spec

-----------------------------------------------------------------------------
\* The abstract board.

LEMMA BoardInitially == OddsInit => Board!BoardInit
BY OddsStoreAssumption DEF OddsInit, Board!BoardInit

LEMMA BoardSteps == TypeOK /\ [Next]_vars => [Board!BoardNext]_<<suspended, cachedOdds>>
<1> SUFFICES ASSUME TypeOK, [Next]_vars PROVE [Board!BoardNext]_<<suspended, cachedOdds>>
  OBVIOUS
<1>1. OddsTyped /\ cachedOdds \in [Outcomes -> OfferableOdds \cup {0}]
  BY DEF TypeOK, OddsTypeOK, OddsTyped, BoardTypeOK
<1>2. ASSUME NEW o \in Outcomes, NEW odds \in OfferableOdds \cup {0},
             cachedOdds' = [cachedOdds EXCEPT ![o] = odds], UNCHANGED suspended
      PROVE  Board!BoardNext
  <2>1. cachedOdds'[o] = odds
    BY <1>1, <1>2
  <2>2. Board!OddsChange(o, OfferableOdds) \/ Board!OddsChange(o, {0})
    BY <1>2, <2>1 DEF Board!OddsChange
  <2> QED
    BY <2>2 DEF Board!BoardNext
<1>3. ASSUME NEW m \in Markets, UNCHANGED cachedOdds,
             suspended' \in {suspended \cup {m}, suspended \ {m}}
      PROVE  Board!BoardNext
  <2>1. Board!SuspendMarket(m) \/ Board!SuspensionLapses(m)
    BY <1>3 DEF Board!SuspendMarket, Board!SuspensionLapses
  <2> QED
    BY <2>1 DEF Board!BoardNext
<1> QED
  BY <1>1, <1>2, <1>3, KeySteps

\* The odds services implement the board the bet-processor reads: whatever they
\* run through, they suspend one market or write one outcome's odds at a time.
THEOREM ServesTheBoard == Spec => BoardServed
<1>1. Spec => []TypeOK
  BY PipelineTypes
<1> QED
  BY <1>1, BoardInitially, BoardSteps, PTL
     DEF Spec, BoardServed, Board!BoardSpec, Board!boardVars

-----------------------------------------------------------------------------
\* The odds an update starts from.

\* What an outcome's odds were at first, or became with an update on the topic.
Offered(o, odds) ==
  odds = InitialOdds[o] \/ \E i \in UpdatesOf(o) : Topic(o)[i].new = odds

\* All odds in the cache and in the hands of the engines were offered, and every
\* update is on the partition of its outcome.
OfferInv ==
  /\ \A p \in OddsPartitions : \A i \in 1..Len(oddsLog[p]) :
       OddsPartition[oddsLog[p][i].outcome] = p
  /\ \A o \in Outcomes : cachedOdds[o] = 0 \/ Offered(o, cachedOdds[o])
  /\ \A e \in Engines : gamePc[e] = "publish" => Offered(Outcome(e), oldOdds[e])
  /\ OldOddsWereOffered

LEMMA TypeParts ==
  ASSUME TypeOK
  PROVE  /\ GameTyped /\ OddsTyped /\ BoardTypeOK /\ EngineTypeOK /\ faults \in Nat
         /\ oddsLog \in [OddsPartitions -> Seq(OddsUpdate)]
         /\ gameLog \in [GamePartitions -> Seq(GameEvent)]
         /\ gamePc \in [Engines -> EngineLabels \cup {"fetch", "commit"}]
         /\ oddsPc \in [Updaters -> UpdaterLabels \cup {"fetch", "commit"}]
         /\ cachedOdds \in [Outcomes -> OfferableOdds \cup {0}]
         /\ todo \in [Engines -> SUBSET Nat] /\ oldOdds \in [Engines -> OfferableOdds \cup {0}]
BY DEF TypeOK, OddsTypeOK, GameTyped, OddsTyped, BoardTypeOK, EngineTypeOK,
       GameReader!ConsumerTypeOK, OddsReader!ConsumerTypeOK

LEMMA StepParts ==
  ASSUME TypeOK, [Next]_vars
  PROVE  TypeOK' /\ GameSteps /\ OddsSteps
BY TypeParts, TypeStep, StepOfGameReader, StepOfOddsReader

\* The places of a topic, and those of an outcome's updates among them.
LEMMA Places ==
  ASSUME TypeOK
  PROVE  /\ \A p \in OddsPartitions : /\ oddsLog[p] \in Seq(OddsUpdate)
                                     /\ Len(oddsLog[p]) \in Nat
                                     /\ DOMAIN oddsLog[p] = 1..Len(oddsLog[p])
         /\ \A o \in Outcomes : /\ OddsPartition[o] \in OddsPartitions
                               /\ Topic(o) = oddsLog[OddsPartition[o]]
                               /\ UpdatesOf(o) \in SUBSET Nat
                               /\ UpdatesOf(o) = {i \in 1..Len(Topic(o)) :
                                                    Topic(o)[i].outcome = o}
<1>1. \A p \in OddsPartitions : /\ oddsLog[p] \in Seq(OddsUpdate)
                               /\ Len(oddsLog[p]) \in Nat
                               /\ DOMAIN oddsLog[p] = 1..Len(oddsLog[p])
  BY TypeParts, LenProperties
<1>2. \A o \in Outcomes : OddsPartition[o] \in OddsPartitions
  BY OddsStoreAssumption
<1> QED
  BY <1>1, <1>2 DEF Topic, UpdatesOf

\* Only the engines add to odds.updated, one outcome at a time.
LEMMA NewUpdates ==
  ASSUME TypeOK, NEW e \in Engines, PublishOdds(e)
  PROVE  /\ gamePc[e] = "publish" /\ Outcome(e) \in Outcomes
         /\ \E update \in OddsUpdate :
              /\ update.outcome = Outcome(e) /\ update.old = oldOdds[e] /\ Moved(e, update)
              /\ \A p \in OddsPartitions : \A i \in 1..Len(oddsLog'[p]) :
                   \/ i \in 1..Len(oddsLog[p]) /\ oddsLog'[p][i] = oddsLog[p][i]
                   \/ /\ i > Len(oddsLog[p]) /\ p = OddsPartition[Outcome(e)]
                      /\ oddsLog'[p][i] = update
<1> DEFINE q == OddsPartition[Outcome(e)]
<1>1. /\ Outcome(e) \in Outcomes /\ q \in OddsPartitions
      /\ \E n \in 0..2, update \in OddsUpdate :
           /\ update.outcome = Outcome(e) /\ update.old = oldOdds[e] /\ Moved(e, update)
           /\ OddsReader!Produce(q, Copies(n, update))
  BY TypeParts, Published
<1> HIDE DEF q
<1>2. PICK n \in 0..2, update \in OddsUpdate :
        /\ update.outcome = Outcome(e) /\ update.old = oldOdds[e] /\ Moved(e, update)
        /\ oddsLog' = [oddsLog EXCEPT ![q] = @ \o Copies(n, update)]
  BY <1>1 DEF OddsReader!Produce
<1>3. ASSUME NEW p \in OddsPartitions, NEW i \in 1..Len(oddsLog'[p])
      PROVE  \/ i \in 1..Len(oddsLog[p]) /\ oddsLog'[p][i] = oddsLog[p][i]
             \/ i > Len(oddsLog[p]) /\ p = q /\ oddsLog'[p][i] = update
  <2>1. CASE p # q
    BY <1>2, <1>3, <2>1, TypeParts
  <2>2. CASE p = q
    <3>1. oddsLog'[p] = oddsLog[p] \o Copies(n, update)
      BY <1>1, <1>2, <2>2, TypeParts
    <3>2. /\ oddsLog[p] \in Seq(OddsUpdate) /\ Copies(n, update) \in Seq(OddsUpdate)
          /\ Len(Copies(n, update)) = n /\ Len(oddsLog[p]) \in Nat
          /\ \A k \in 1..n : Copies(n, update)[k] = update
      BY Places, CopiesTypes
    <3>3. /\ Len(oddsLog'[p]) = Len(oddsLog[p]) + n
          /\ oddsLog'[p][i] = IF i <= Len(oddsLog[p]) THEN oddsLog[p][i]
                              ELSE Copies(n, update)[i - Len(oddsLog[p])]
      BY <3>1, <3>2, ConcatProperties
    <3> QED
      BY <2>2, <3>2, <3>3
  <2> QED
    BY <2>1, <2>2
<1> QED
  BY <1>1, <1>2, <1>3 DEF q, PublishOdds

LEMMA TopicSteps ==
  [Next]_vars => UNCHANGED oddsLog \/ \E e \in Engines : PublishOdds(e)
<1> SUFFICES ASSUME [Next]_vars, \A e \in Engines : ~PublishOdds(e) PROVE UNCHANGED oddsLog
  OBVIOUS
<1>1. ASSUME NEW e \in Engines, EngineLoop(e) \/ CrashEngine(e) PROVE UNCHANGED oddsLog
  BY <1>1 DEF EngineLoop, HandleGameEvent, FindEvent, ReadOdds, AllPublished, CrashEngine,
              oddsReader
<1>2. ASSUME NEW u \in Updaters, UpdaterLoop(u) \/ CrashUpdater(u) PROVE UNCHANGED oddsLog
  BY <1>2, UpdaterSteps DEF UpdaterLoop, CrashUpdater, OddsReader!Goto, OddsReader!ReturnError,
         OddsReader!Fetch, OddsReader!Commit, OddsReader!Crash
<1>3. ASSUME \/ \E match \in Matches :
                  \/ \E type \in GameEventTypes, team \in FedTeams : PlayMatch(match, type, team)
                  \/ UpdateEventStatus(match)
             \/ CrashFeed
             \/ \E m \in Markets : MarketSettled(m) \/ SuspensionLapses(m)
             \/ \E o \in Outcomes : OddsExpire(o)
             \/ RebalanceEngines \/ RebalanceUpdaters \/ UNCHANGED vars
      PROVE  UNCHANGED oddsLog
  BY <1>3 DEF PlayMatch, UpdateEventStatus, CrashFeed, FeedFrame, MarketSettled,
              SuspensionLapses, OddsExpire, RebalanceEngines, RebalanceUpdaters,
              OddsReader!Rebalance, oddsReader, vars
<1> QED
  BY <1>1, <1>2, <1>3 DEF Next

\* What was offered once stays offered.
LEMMA OffersStay ==
  ASSUME TypeOK, [Next]_vars, NEW o \in Outcomes
  PROVE  /\ \A i \in UpdatesOf(o) : i \in UpdatesOf(o)' /\ Topic(o)'[i] = Topic(o)[i]
         /\ \A odds : Offered(o, odds) => Offered(o, odds)'
<1>1. TypeOK' /\ OddsSteps /\ OddsTyped
  BY StepParts, TypeParts
<1>2. /\ Len(Topic(o)) \in Nat /\ Len(Topic(o)') \in Nat /\ Len(Topic(o)) <= Len(Topic(o)')
      /\ \A i \in 1..Len(Topic(o)) : Topic(o)'[i] = Topic(o)[i]
  BY <1>1, Places, OddsLogGrows DEF Topic
<1>3. \A i \in UpdatesOf(o) : i \in 1..Len(Topic(o)) /\ Topic(o)[i].outcome = o
  BY Places
<1>4. DOMAIN Topic(o)' = 1..Len(Topic(o)')
  BY <1>1, OddsStoreAssumption, LenProperties
     DEF TypeOK, OddsTypeOK, OddsReader!ConsumerTypeOK, Topic
<1>5. \A i \in UpdatesOf(o) : i \in UpdatesOf(o)' /\ Topic(o)'[i] = Topic(o)[i]
  BY <1>2, <1>3, <1>4 DEF UpdatesOf
<1> QED
  BY <1>5 DEF Offered

\* An outcome's odds come into the cache with a SET.
LEMMA CacheSteps ==
  ASSUME OddsTyped, [Next]_vars
  PROVE  \/ UNCHANGED cachedOdds
         \/ \E o \in Outcomes : OddsExpire(o)
         \/ \E u \in Updaters : SetOdds(u) /\ SetOddsOf(Updated(u))
<1> SUFFICES ASSUME \A o \in Outcomes : ~OddsExpire(o),
                    \A u \in Updaters : ~(SetOdds(u) /\ SetOddsOf(Updated(u)))
             PROVE  UNCHANGED cachedOdds
  OBVIOUS
<1>1. ASSUME NEW u \in Updaters, UpdaterLoop(u) PROVE UNCHANGED cachedOdds
  BY <1>1 DEF UpdaterLoop, HandleOddsUpdated, SetOdds, PushOddsHistory, GetOddsVelocity,
              Suspend, PublishMarketSuspended, board
<1>2. ASSUME NEW e \in Engines, EngineLoop(e) \/ CrashEngine(e) PROVE UNCHANGED cachedOdds
  BY <1>2 DEF EngineLoop, HandleGameEvent, FindEvent, ReadOdds, PublishOdds, AllPublished,
              EngineFrame, CrashEngine, board
<1>3. ASSUME \/ \E match \in Matches :
                  \/ \E type \in GameEventTypes, team \in FedTeams : PlayMatch(match, type, team)
                  \/ UpdateEventStatus(match)
             \/ CrashFeed
             \/ \E u \in Updaters : CrashUpdater(u)
             \/ \E m \in Markets : MarketSettled(m) \/ SuspensionLapses(m)
             \/ RebalanceEngines \/ RebalanceUpdaters \/ UNCHANGED vars
      PROVE  UNCHANGED cachedOdds
  BY <1>3 DEF PlayMatch, UpdateEventStatus, CrashFeed, FeedFrame, CrashUpdater,
              MarketSettled, SuspensionLapses, RebalanceEngines, RebalanceUpdaters, board, vars
<1> QED
  BY <1>1, <1>2, <1>3 DEF Next

\* An engine that is about to publish has just read the odds, or was about to
\* publish the same before.
LEMMA PublishSteps ==
  ASSUME TypeOK, [Next]_vars, NEW e \in Engines, gamePc'[e] = "publish"
  PROVE  /\ Outcome(e)' = Outcome(e)
         /\ \/ ReadOdds(e)
            \/ gamePc[e] = "publish" /\ oldOdds'[e] = oldOdds[e]
<1>1. /\ gamePc \in [Engines -> EngineLabels \cup {"fetch", "commit"}]
      /\ todo \in [Engines -> SUBSET Nat] /\ oldOdds \in [Engines -> OfferableOdds \cup {0}]
      /\ GameTyped /\ GameSteps
  BY TypeParts, StepParts
<1>2. ASSUME gamePc[e] # "fetch", todo'[e] = todo[e] PROVE Outcome(e)' = Outcome(e)
  BY <1>1, <1>2, HappenedStays DEF Outcome
<1> DEFINE Still == gamePc[e] = "publish" /\ oldOdds'[e] = oldOdds[e] /\ todo'[e] = todo[e]
           Reading == ReadOdds(e) /\ gamePc[e] = "read" /\ todo'[e] = todo[e]
<1>3. ASSUME NEW x \in Engines, HandleGameEvent(x) PROVE Still \/ Reading
  <2>1. CASE FindEvent(x)
    BY <1>1, <2>1 DEF FindEvent, GameReader!Goto, GameReader!ReturnNil
  <2>2. CASE ReadOdds(x)
    BY <1>1, <2>2 DEF ReadOdds, GameReader!Goto
  <2>3. CASE PublishOdds(x)
    BY <1>1, <2>3 DEF PublishOdds, GameReader!Goto
  <2>4. CASE AllPublished(x)
    BY <1>1, <2>4 DEF AllPublished, GameReader!ReturnNil, GameReader!Goto, engineLocals
  <2> QED
    BY <1>3, <2>1, <2>2, <2>3, <2>4 DEF HandleGameEvent
<1>4. ASSUME NEW x \in Engines, EngineLoop(x), ~HandleGameEvent(x) PROVE Still
  BY <1>1, <1>4 DEF EngineLoop, engineLocals, GameReader!Fetch, GameReader!Commit
<1>5. ASSUME NEW x \in Engines, CrashEngine(x) PROVE Still
  BY <1>1, <1>5 DEF CrashEngine, GameReader!Crash
<1>6. ASSUME \/ \E match \in Matches :
                  \/ \E type \in GameEventTypes, team \in FedTeams : PlayMatch(match, type, team)
                  \/ UpdateEventStatus(match)
             \/ CrashFeed
             \/ \E u \in Updaters : UpdaterLoop(u) \/ CrashUpdater(u)
      PROVE  Still
  BY <1>6, UpdaterSteps DEF PlayMatch, UpdateEventStatus, CrashFeed, FeedFrame, UpdaterLoop,
         CrashUpdater, gameReader, UpdaterFrame, HandleOddsUpdated, SetOdds, engineLocals,
         PushOddsHistory, GetOddsVelocity, Suspend, PublishMarketSuspended
<1>7. ASSUME \/ \E m \in Markets : MarketSettled(m) \/ SuspensionLapses(m)
             \/ \E o \in Outcomes : OddsExpire(o)
             \/ RebalanceEngines \/ RebalanceUpdaters \/ UNCHANGED vars
      PROVE  Still
  BY <1>7 DEF MarketSettled, SuspensionLapses, OddsExpire, engineLocals,
         RebalanceEngines, RebalanceUpdaters, GameReader!Rebalance, gameReader, vars
<1>8. CASE Still
  BY <1>2, <1>8
<1>9. CASE Reading
  BY <1>2, <1>9
<1>10. Still \/ Reading
  BY <1>3, <1>4, <1>5, <1>6, <1>7 DEF Next
<1> QED
  BY <1>8, <1>9, <1>10

\* An update that is new on the topic comes from an engine, and after the others.
LEMMA LatestUpdates ==
  ASSUME TypeOK, [Next]_vars, NEW o \in Outcomes,
         NEW i \in UpdatesOf(o)', i \notin UpdatesOf(o)
  PROVE  \E e \in Engines : /\ PublishOdds(e) /\ gamePc[e] = "publish" /\ o = Outcome(e)
                            /\ Topic(o)'[i].old = oldOdds[e]
                            /\ \A j \in UpdatesOf(o) : j < i
<1> DEFINE p == OddsPartition[o]
<1>1. p \in OddsPartitions /\ oddsLog' \in [OddsPartitions -> Seq(OddsUpdate)]
  BY OddsStoreAssumption, StepParts DEF TypeOK, OddsTypeOK, OddsReader!ConsumerTypeOK
<1>2. Len(oddsLog'[p]) \in Nat /\ DOMAIN oddsLog'[p] = 1..Len(oddsLog'[p])
  BY <1>1, LenProperties
<1>3. i \in 1..Len(oddsLog'[p]) /\ oddsLog'[p][i].outcome = o
  BY <1>2 DEF UpdatesOf, Topic
<1>4. UpdatesOf(o) = {j \in 1..Len(oddsLog[p]) : oddsLog[p][j].outcome = o}
  BY Places
<1>5. ~UNCHANGED oddsLog
  BY <1>3, <1>4
<1>6. PICK e \in Engines : PublishOdds(e)
  BY <1>5, TopicSteps
<1>7. PICK update \in OddsUpdate :
        /\ update.outcome = Outcome(e) /\ update.old = oldOdds[e]
        /\ \/ i \in 1..Len(oddsLog[p]) /\ oddsLog'[p][i] = oddsLog[p][i]
           \/ i > Len(oddsLog[p]) /\ oddsLog'[p][i] = update
  BY <1>1, <1>3, <1>6, NewUpdates
<1>8. i > Len(oddsLog[p]) /\ oddsLog'[p][i] = update
  BY <1>3, <1>4, <1>7
<1>9. \A j \in UpdatesOf(o) : j < i
  BY <1>1, <1>3, <1>4, <1>8, Places
<1> QED
  BY <1>3, <1>6, <1>7, <1>8, <1>9, NewUpdates DEF Topic

LEMMA OfferInit == OddsInit => OfferInv
<1> SUFFICES ASSUME OddsInit PROVE OfferInv
  OBVIOUS
<1>1. \A p \in OddsPartitions : oddsLog[p] = <<>>
  BY DEF OddsInit, OddsReader!ConsumerInit
<1>2. \A o \in Outcomes : UpdatesOf(o) = {}
  BY <1>1, OddsStoreAssumption DEF UpdatesOf, Topic
<1>3. \A e \in Engines : gamePc[e] # "publish"
  BY DEF OddsInit, GameReader!ConsumerInit
<1> QED
  BY <1>1, <1>2, <1>3 DEF OfferInv, Offered, OldOddsWereOffered, OddsInit

LEMMA OfferStep == TypeOK /\ OfferInv /\ [Next]_vars => OfferInv'
<1> SUFFICES ASSUME TypeOK, OfferInv, [Next]_vars PROVE OfferInv'
  OBVIOUS
<1>0. /\ OddsTyped /\ GameTyped /\ EngineTypeOK /\ BoardTypeOK
      /\ oddsPc \in [Updaters -> UpdaterLabels \cup {"fetch", "commit"}]
      /\ cachedOdds \in [Outcomes -> OfferableOdds \cup {0}]
      /\ oldOdds \in [Engines -> OfferableOdds \cup {0}]
  BY TypeParts
<1> DEFINE Sorted == \A p \in OddsPartitions : \A i \in 1..Len(oddsLog[p]) :
                       OddsPartition[oddsLog[p][i].outcome] = p
<1>1. Sorted /\ \A o \in Outcomes : cachedOdds[o] = 0 \/ Offered(o, cachedOdds[o])
  BY DEF OfferInv
<1>2. Sorted'
  <2>1. CASE UNCHANGED oddsLog
    BY <1>1, <2>1
  <2>2. ASSUME NEW e \in Engines, PublishOdds(e) PROVE Sorted'
    <3>1. PICK update \in OddsUpdate :
            /\ update.outcome = Outcome(e)
            /\ \A p \in OddsPartitions : \A i \in 1..Len(oddsLog'[p]) :
                 \/ i \in 1..Len(oddsLog[p]) /\ oddsLog'[p][i] = oddsLog[p][i]
                 \/ /\ i > Len(oddsLog[p]) /\ p = OddsPartition[Outcome(e)]
                    /\ oddsLog'[p][i] = update
      BY <2>2, NewUpdates
    <3> QED
      BY <1>1, <3>1
  <2> QED
    BY <2>1, <2>2, TopicSteps
<1>3. ASSUME NEW u \in Updaters, oddsPc[u] # "fetch"
      PROVE  Offered(Updated(u).outcome, Updated(u).new)
  <2> DEFINE p == oddsAt[u][1]
             i == oddsAt[u][2]
  <2>1. p \in OddsPartitions /\ i \in 1..Len(oddsLog[p]) /\ Updated(u) = oddsLog[p][i]
    BY <1>0, <1>3 DEF OddsTyped, OddsReader!ConsumerTypeOK, Updated, OddsReader!Current
  <2>2. Updated(u).outcome \in Outcomes
    BY <1>0, <1>3, UpdatedTypes
  <2>3. OddsPartition[Updated(u).outcome] = p
    BY <1>1, <2>1
  <2>4. i \in UpdatesOf(Updated(u).outcome) /\ Topic(Updated(u).outcome)[i] = Updated(u)
    BY <2>1, <2>2, <2>3, Places
  <2> QED
    BY <2>4 DEF Offered
<1>4. \A o \in Outcomes : cachedOdds'[o] = 0 \/ Offered(o, cachedOdds[o])'
  <2>1. CASE UNCHANGED cachedOdds
    BY <1>1, <2>1, OffersStay
  <2>2. ASSUME NEW x \in Outcomes, OddsExpire(x)
        PROVE  \A o \in Outcomes : cachedOdds'[o] = 0 \/ Offered(o, cachedOdds[o])'
    <3>1. \A o \in Outcomes : cachedOdds'[o] = 0 \/ cachedOdds'[o] = cachedOdds[o]
      BY <1>0, <2>2 DEF OddsExpire
    <3> QED
      BY <1>1, <3>1, OffersStay
  <2>3. ASSUME NEW u \in Updaters, SetOdds(u), SetOddsOf(Updated(u))
        PROVE  \A o \in Outcomes : cachedOdds'[o] = 0 \/ Offered(o, cachedOdds[o])'
    <3>1. Offered(Updated(u).outcome, Updated(u).new)
      BY <1>3, <2>3 DEF SetOdds
    <3>2. TAKE o \in Outcomes
    <3>3. CASE cachedOdds'[o] = cachedOdds[o]
      BY <1>1, <3>3, OffersStay
    <3>4. CASE o = Updated(u).outcome /\ cachedOdds'[o] = Updated(u).new
      <4>1. Offered(o, cachedOdds'[o])
        BY <3>1, <3>4
      <4> QED
        BY <4>1, OffersStay
    <3> QED
      BY <1>0, <2>3, <3>3, <3>4 DEF SetOddsOf
  <2> QED
    BY <1>0, <2>1, <2>2, <2>3, CacheSteps
<1>5. ASSUME NEW e \in Engines, gamePc'[e] = "publish"
      PROVE  Offered(Outcome(e), oldOdds[e])'
  <2>1. Outcome(e)' = Outcome(e)
    BY <1>5, PublishSteps
  <2>2. CASE gamePc[e] = "publish" /\ oldOdds'[e] = oldOdds[e]
    <3>1. Offered(Outcome(e), oldOdds[e])
      BY <2>2 DEF OfferInv
    <3>2. Outcome(e) \in Outcomes
      BY <1>0, <2>2, OutcomeTypes DEF EngineTypeOK
    <3> QED
      BY <2>1, <2>2, <3>1, <3>2, OffersStay
  <2>3. CASE ReadOdds(e)
    <3>1. Outcome(e) \in Outcomes
      BY <1>0, <2>3, OutcomeTypes DEF ReadOdds
    <3>2. \/ oldOdds'[e] = InitialOdds[Outcome(e)]
          \/ oldOdds'[e] = cachedOdds[Outcome(e)] /\ cachedOdds[Outcome(e)] # 0
      BY <1>0, <2>3, <3>1 DEF ReadOdds, OrInitial
    <3>3. Offered(Outcome(e), oldOdds'[e])
      BY <1>1, <3>1, <3>2 DEF Offered
    <3> QED
      BY <2>1, <3>1, <3>3, OffersStay
  <2> QED
    BY <1>5, <2>2, <2>3, PublishSteps
<1>6. OldOddsWereOffered'
  <2> DEFINE From(o, i) == \/ Topic(o)[i].old = InitialOdds[o]
                           \/ \E j \in UpdatesOf(o) : j < i /\ Topic(o)[j].new = Topic(o)[i].old
  <2>1. \A o \in Outcomes : \A i \in UpdatesOf(o) : From(o, i)
    BY DEF OfferInv, OldOddsWereOffered
  <2>2. SUFFICES ASSUME NEW o \in Outcomes, NEW i \in UpdatesOf(o)' PROVE From(o, i)'
    BY DEF OldOddsWereOffered
  <2>3. /\ \A j \in UpdatesOf(o) : j \in UpdatesOf(o)' /\ Topic(o)'[j] = Topic(o)[j]
    BY OffersStay
  <2>4. ASSUME i \in UpdatesOf(o) PROVE From(o, i)'
    BY <2>1, <2>3, <2>4
  <2>5. ASSUME i \notin UpdatesOf(o) PROVE From(o, i)'
    <3>1. PICK e \in Engines : /\ PublishOdds(e) /\ gamePc[e] = "publish" /\ o = Outcome(e)
                               /\ Topic(o)'[i].old = oldOdds[e]
                               /\ \A j \in UpdatesOf(o) : j < i
      BY <2>5, LatestUpdates
    <3>2. Offered(o, oldOdds[e])
      BY <3>1 DEF OfferInv
    <3> QED
      BY <2>3, <3>1, <3>2 DEF Offered
  <2> QED
    BY <2>4, <2>5
<1> QED
  BY <1>2, <1>4, <1>5, <1>6 DEF OfferInv

\* Odds are never made up: every update starts from the initial odds of its
\* outcome or from where an earlier update of that outcome led, whatever the cache
\* has forgotten, missed or been told twice.
THEOREM OddsAreNotInvented == Spec => []OldOddsWereOffered
<1>1. OfferInv => OldOddsWereOffered
  BY DEF OfferInv
<1> QED
  BY <1>1, PipelineTypes, OfferInit, OfferStep, PTL DEF Spec

-----------------------------------------------------------------------------
\* The course of a match on the topic.

\* What the feed remembers of a match agrees with what it published: its phase is
\* past every whistle on the topic.
CourseInv ==
  restarts = 0 => \A match \in Matches : \A i \in EventsOf(match) :
    /\ Course(match)[i].type = "FULL_TIME" => phase[match] = "full"
    /\ Course(match)[i].type = "SECOND_HALF" => phase[match] \in {"restart", "second", "full"}

\* The places of a match's events.
LEMMA EventPlaces ==
  ASSUME TypeOK, NEW match \in Matches
  PROVE  /\ GamePartition[match] \in GamePartitions
         /\ Course(match) = gameLog[GamePartition[match]]
         /\ Course(match) \in Seq(GameEvent) /\ Len(Course(match)) \in Nat
         /\ EventsOf(match) = {i \in 1..Len(Course(match)) : Course(match)[i].match = match}
<1>1. GamePartition[match] \in GamePartitions
  BY OddsStoreAssumption
<1>2. Course(match) \in Seq(GameEvent)
  BY <1>1, TypeParts DEF Course
<1> QED
  BY <1>1, <1>2, LenProperties DEF Course, EventsOf

\* What a round of the feed appends.
LEMMA NewEvents ==
  ASSUME TypeOK, [Next]_vars,
         NEW match \in Matches, NEW type \in GameEventTypes, NEW team \in FedTeams,
         PlayMatch(match, type, team)
  PROVE  \E n \in 0..2, answered \in BOOLEAN :
           /\ Written(n, answered)
           /\ \A other \in Matches :
                EventsOf(other)' = IF other = match
                                   THEN EventsOf(match) \cup (Len(Course(match)) + 1)..(Len(Course(match)) + n)
                                   ELSE EventsOf(other)
           /\ \A other \in Matches : \A i \in EventsOf(other) :
                Course(other)'[i] = Course(other)[i]
           /\ \A i \in (Len(Course(match)) + 1)..(Len(Course(match)) + n) :
                Course(match)'[i].type = type
<1> DEFINE p == GamePartition[match]
           ge == [match |-> match, type |-> type, team |-> team]
<1>1. PICK n \in 0..2, answered \in BOOLEAN :
        Written(n, answered) /\ gameLog' = [gameLog EXCEPT ![p] = @ \o Copies(n, ge)]
  BY DEF PlayMatch, GameReader!Produce
<1>2. ge \in GameEvent /\ ge.match = match /\ ge.type = type
  BY FeedAssumption DEF GameEvent
<1> HIDE DEF ge
<1>3. /\ Copies(n, ge) \in Seq(GameEvent) /\ Len(Copies(n, ge)) = n
      /\ \A i \in 1..n : Copies(n, ge)[i] = ge
  BY <1>2, CopiesTypes
<1>4. /\ p \in GamePartitions /\ Len(gameLog[p]) \in Nat /\ gameLog[p] \in Seq(GameEvent)
      /\ gameLog \in [GamePartitions -> Seq(GameEvent)]
  BY EventPlaces, TypeParts DEF Course
<1>5. /\ gameLog'[p] = gameLog[p] \o Copies(n, ge)
      /\ \A q \in GamePartitions : q # p => gameLog'[q] = gameLog[q]
  BY <1>1, <1>4
<1> HIDE DEF p
<1>6. /\ Len(gameLog'[p]) = Len(gameLog[p]) + n
      /\ \A i \in 1..Len(gameLog[p]) : gameLog'[p][i] = gameLog[p][i]
      /\ \A i \in (Len(gameLog[p]) + 1)..(Len(gameLog[p]) + n) : gameLog'[p][i] = ge
      /\ DOMAIN gameLog'[p] = 1..(Len(gameLog[p]) + n)
  <2>1. /\ gameLog'[p] \in Seq(GameEvent)
        /\ Len(gameLog'[p]) = Len(gameLog[p]) + n
        /\ \A i \in 1..(Len(gameLog[p]) + n) :
             gameLog'[p][i] = IF i <= Len(gameLog[p]) THEN gameLog[p][i]
                              ELSE Copies(n, ge)[i - Len(gameLog[p])]
    BY <1>3, <1>4, <1>5, ConcatProperties
  <2> QED
    BY <2>1, <1>3, <1>4, LenProperties
<1>7. ASSUME NEW other \in Matches
      PROVE  /\ EventsOf(other)' = IF other = match
                                   THEN EventsOf(match) \cup (Len(Course(match)) + 1)..(Len(Course(match)) + n)
                                   ELSE EventsOf(other)
             /\ \A i \in EventsOf(other) : Course(other)'[i] = Course(other)[i]
  <2>1. /\ GamePartition[other] \in GamePartitions
        /\ EventsOf(other) = {i \in 1..Len(Course(other)) : Course(other)[i].match = other}
        /\ EventsOf(match) = {i \in 1..Len(Course(match)) : Course(match)[i].match = match}
    BY EventPlaces
  <2>2. CASE GamePartition[other] # p
    <3>1. Course(other)' = Course(other) /\ other # match
      BY <1>5, <2>1, <2>2 DEF Course, p
    <3> QED
      BY <3>1 DEF EventsOf
  <2>3. CASE GamePartition[other] = p
    <3>1. /\ Course(other) = gameLog[p] /\ Course(other)' = gameLog'[p]
          /\ Course(match) = gameLog[p]
      BY <2>3 DEF Course, p
    <3>2. EventsOf(other)' = {i \in 1..(Len(gameLog[p]) + n) : gameLog'[p][i].match = other}
      BY <3>1, <1>6 DEF EventsOf
    <3> QED
      BY <1>2, <1>4, <1>6, <2>1, <3>1, <3>2
  <2> QED
    BY <2>2, <2>3
<1>8. \A i \in (Len(Course(match)) + 1)..(Len(Course(match)) + n) : Course(match)'[i].type = type
  BY <1>2, <1>6 DEF Course, p
<1> QED
  BY <1>1, <1>7, <1>8

\* A step that is not the feed's leaves a match as it is.
LEMMA EventsSame ==
  ASSUME UNCHANGED gameLog, NEW match \in Matches
  PROVE  EventsOf(match)' = EventsOf(match) /\ Course(match)' = Course(match)
BY DEF EventsOf, Course

LEMMA PhaseOrder ==
  ASSUME NEW before \in Phases, NEW now \in NextPhases(before), NEW type \in TypesIn(now)
  PROVE  /\ now \in Phases
         /\ before = "full" => now = "full" /\ type = "FULL_TIME"
         /\ before \in {"restart", "second", "full"} =>
              now \in {"second", "full"} /\ type # "HALFTIME"
         /\ type = "FULL_TIME" => now = "full"
         /\ type = "SECOND_HALF" => now = "restart"
BY FeedAssumption DEF Phases, NextPhases, TypesIn

LEMMA CourseInit == OddsInit => CourseInv /\ MatchGoesForward
<1> SUFFICES ASSUME OddsInit PROVE CourseInv /\ MatchGoesForward
  OBVIOUS
<1>1. \A match \in Matches : EventsOf(match) = {}
  BY OddsStoreAssumption DEF OddsInit, GameReader!ConsumerInit, EventsOf, Course
<1> QED
  BY <1>1 DEF CourseInv, MatchGoesForward

LEMMA CourseStep ==
  TypeOK /\ CourseInv /\ MatchGoesForward /\ [Next]_vars => CourseInv' /\ MatchGoesForward'
<1> SUFFICES ASSUME TypeOK, CourseInv, MatchGoesForward, [Next]_vars
             PROVE  CourseInv' /\ MatchGoesForward'
  OBVIOUS
<1>0. restarts \in Nat /\ phase \in [Matches -> Phases]
  BY DEF TypeOK, OddsTypeOK
<1>1. CASE CrashFeed
  BY <1>0, <1>1 DEF CrashFeed, CourseInv, MatchGoesForward
<1>2. CASE UNCHANGED <<gameLog, phase, score, restarts>>
  BY <1>2, EventsSame DEF CourseInv, MatchGoesForward
<1>3. ASSUME NEW match \in Matches, NEW type \in GameEventTypes, NEW team \in FedTeams,
             PlayMatch(match, type, team), restarts' = 0
      PROVE  /\ \A other \in Matches : \A i \in EventsOf(other)' :
                  /\ Course(other)'[i].type = "FULL_TIME" => phase'[other] = "full"
                  /\ Course(other)'[i].type = "SECOND_HALF"
                       => phase'[other] \in {"restart", "second", "full"}
             /\ \A other \in Matches : \A i, j \in EventsOf(other)' :
                  i < j => MayFollow(Course(other)'[j], Course(other)'[i])
  <2>1. PICK n \in 0..2 :
          /\ \A other \in Matches :
               EventsOf(other)' = IF other = match
                                  THEN EventsOf(match) \cup (Len(Course(match)) + 1)..(Len(Course(match)) + n)
                                  ELSE EventsOf(other)
          /\ \A other \in Matches : \A i \in EventsOf(other) :
               Course(other)'[i] = Course(other)[i]
          /\ \A i \in (Len(Course(match)) + 1)..(Len(Course(match)) + n) :
               Course(match)'[i].type = type
    BY <1>3, NewEvents
  <2>2. PICK now \in NextPhases(phase[match]) :
          type \in TypesIn(now) /\ phase' = [phase EXCEPT ![match] = now]
    BY <1>3 DEF PlayMatch
  <2>3. phase[match] \in Phases /\ restarts = 0
    BY <1>0, <1>3 DEF PlayMatch
  <2>4. \A other \in Matches : \A i \in EventsOf(other) :
          /\ Course(other)[i].type = "FULL_TIME" => phase[other] = "full"
          /\ Course(other)[i].type = "SECOND_HALF" => phase[other] \in {"restart", "second", "full"}
    BY <2>3 DEF CourseInv
  <2>5. \A other \in Matches : \A i, j \in EventsOf(other) :
          i < j => MayFollow(Course(other)[j], Course(other)[i])
    BY <2>3 DEF MatchGoesForward
  <2> DEFINE fresh == (Len(Course(match)) + 1)..(Len(Course(match)) + n)
  <2>6. ASSUME NEW other \in Matches, other # match
        PROVE  /\ \A i \in EventsOf(other)' :
                    /\ Course(other)'[i].type = "FULL_TIME" => phase'[other] = "full"
                    /\ Course(other)'[i].type = "SECOND_HALF"
                         => phase'[other] \in {"restart", "second", "full"}
               /\ \A i, j \in EventsOf(other)' :
                    i < j => MayFollow(Course(other)'[j], Course(other)'[i])
    BY <1>0, <2>1, <2>2, <2>4, <2>5, <2>6
  <2>7. EventsOf(match)' = EventsOf(match) \cup fresh
    BY <2>1
  <2>8. \A i \in EventsOf(match) : Course(match)'[i] = Course(match)[i]
    BY <2>1
  <2>9. \A i \in fresh : Course(match)'[i].type = type
    BY <2>1
  <2>10. /\ phase[match] = "full" => now = "full" /\ type = "FULL_TIME"
         /\ phase[match] \in {"restart", "second", "full"} =>
              now \in {"second", "full"} /\ type # "HALFTIME"
         /\ type = "FULL_TIME" => now = "full"
         /\ type = "SECOND_HALF" => now = "restart"
    BY <2>2, <2>3, PhaseOrder
  <2>11. phase'[match] = now
    BY <1>0, <2>2
  <2>12. \A i \in EventsOf(match)' :
           /\ Course(match)'[i].type = "FULL_TIME" => phase'[match] = "full"
           /\ Course(match)'[i].type = "SECOND_HALF"
                => phase'[match] \in {"restart", "second", "full"}
    BY <2>4, <2>7, <2>8, <2>9, <2>10, <2>11
  <2>13. ASSUME NEW i \in EventsOf(match)', NEW j \in EventsOf(match)', i < j
         PROVE  MayFollow(Course(match)'[j], Course(match)'[i])
    <3>1. CASE i \in EventsOf(match) /\ j \in EventsOf(match)
      BY <2>5, <2>8, <2>13, <3>1
    <3>2. CASE j \in fresh /\ i \in EventsOf(match)
      BY <2>4, <2>8, <2>9, <2>10, <3>2 DEF MayFollow
    <3>3. CASE j \in fresh /\ i \in fresh
      BY <2>9, <3>3 DEF MayFollow
    <3>4. ~(i \in fresh /\ j \in EventsOf(match))
      BY <2>13, EventPlaces
    <3> QED
      BY <2>7, <2>13, <3>1, <3>2, <3>3, <3>4
  <2> QED
    BY <2>6, <2>12, <2>13
<1>4. ASSUME NEW match \in Matches, NEW type \in GameEventTypes, NEW team \in FedTeams,
             PlayMatch(match, type, team)
      PROVE  CourseInv' /\ MatchGoesForward'
  BY <1>3, <1>4 DEF CourseInv, MatchGoesForward, MayFollow
<1> QED
  BY <1>1, <1>2, <1>4, FeedSteps

\* As long as the feed is not restarted, no match goes back on the topic, however
\* many publications fail or are repeated.
THEOREM MatchesGoForward == Spec => []MatchGoesForward
<1> QED
  BY PipelineTypes, CourseInit, CourseStep, PTL DEF Spec

-----------------------------------------------------------------------------
\* The score and the topic.

Goals(match) == {i \in EventsOf(match) : Course(match)[i].type = "GOAL"}

LEMMA CountTypes ==
  ASSUME TypeOK, NEW match \in Matches
  PROVE  /\ IsFiniteSet(Goals(match)) /\ Cardinality(Goals(match)) \in Nat
         /\ \A i \in Goals(match) : i \in Nat /\ i <= Len(Course(match))
<1>1. Goals(match) \subseteq 1..Len(Course(match))
  BY EventPlaces DEF Goals
<1>2. Len(Course(match)) \in Nat
  BY EventPlaces
<1>3. IsFiniteSet(1..Len(Course(match)))
  BY <1>2, FS_Interval
<1>4. IsFiniteSet(Goals(match))
  BY <1>1, <1>3, FS_Subset
<1> QED
  BY <1>1, <1>2, <1>4, FS_CardinalityType

LEMMA ScoreInit == OddsInit => ScoreIsPublished
<1> SUFFICES ASSUME OddsInit PROVE ScoreIsPublished
  OBVIOUS
<1>1. \A match \in Matches : Goals(match) = {}
  BY OddsStoreAssumption DEF OddsInit, GameReader!ConsumerInit, Goals, EventsOf, Course
<1>2. \A match \in Matches : Cardinality(Goals(match)) = 0
  BY <1>1, FS_EmptySet
<1>3. \A match \in Matches :
        /\ score[match] <= Cardinality(Goals(match)) + faults
        /\ restarts = 0 => Cardinality(Goals(match)) <= score[match] + faults
  BY <1>2 DEF OddsInit
<1> QED
  BY <1>3 DEF ScoreIsPublished, Goals

LEMMA ScoreStep == TypeOK /\ ScoreIsPublished /\ [Next]_vars => ScoreIsPublished'
<1> SUFFICES ASSUME TypeOK, ScoreIsPublished, [Next]_vars PROVE ScoreIsPublished'
  OBVIOUS
<1> DEFINE Agree(match) == /\ score[match] <= Cardinality(Goals(match)) + faults
                           /\ restarts = 0 => Cardinality(Goals(match)) <= score[match] + faults
<1>0. /\ restarts \in Nat /\ score \in [Matches -> Nat]
      /\ faults \in Nat /\ faults' \in Nat /\ faults <= faults'
      /\ \A match \in Matches : Cardinality(Goals(match)) \in Nat
  BY FaultsGrow, CountTypes DEF TypeOK, OddsTypeOK
<1>1. \A match \in Matches : Agree(match)
  BY DEF ScoreIsPublished, Goals
<1>2. SUFFICES ASSUME NEW other \in Matches PROVE Agree(other)'
  BY DEF ScoreIsPublished, Goals
<1>3. CASE UNCHANGED <<gameLog, phase, score, restarts>>
  <2>1. Goals(other)' = Goals(other)
    BY <1>3, EventsSame DEF Goals
  <2> QED
    BY <1>0, <1>1, <1>3, <2>1
<1>4. CASE CrashFeed
  <2>1. /\ score'[other] = 0 /\ restarts' # 0 /\ UNCHANGED gameLog
    BY <1>0, <1>4 DEF CrashFeed
  <2>2. Goals(other)' = Goals(other)
    BY <2>1, EventsSame DEF Goals
  <2> QED
    BY <1>0, <2>1, <2>2
<1>5. ASSUME NEW match \in Matches, NEW type \in GameEventTypes, NEW team \in FedTeams,
             PlayMatch(match, type, team)
      PROVE  Agree(other)'
  <2>1. PICK n \in 0..2, answered \in BOOLEAN :
          /\ Written(n, answered)
          /\ EventsOf(other)' = IF other = match
                                THEN EventsOf(match) \cup (Len(Course(match)) + 1)..(Len(Course(match)) + n)
                                ELSE EventsOf(other)
          /\ \A i \in EventsOf(other) : Course(other)'[i] = Course(other)[i]
          /\ \A i \in (Len(Course(match)) + 1)..(Len(Course(match)) + n) :
               Course(match)'[i].type = type
    BY <1>5, NewEvents
  <2>2. /\ score' = IF type = "GOAL" THEN [score EXCEPT ![match] = @ + 1] ELSE score
        /\ UNCHANGED restarts
    BY <1>5 DEF PlayMatch, IsScored
  <2>3. CASE other # match \/ type # "GOAL"
    <3>1. Goals(other)' = Goals(other)
      BY <2>1, <2>3 DEF Goals
    <3>2. score'[other] = score[other]
      BY <1>0, <2>2, <2>3
    <3> QED
      BY <1>0, <1>1, <2>2, <3>1, <3>2
  <2>4. CASE other = match /\ type = "GOAL"
    <3> DEFINE k == Len(Course(match))
    <3>1. score'[match] = score[match] + 1 /\ score[match] \in Nat
      BY <1>0, <2>2, <2>4
    <3>2. Goals(match)' = Goals(match) \cup (k + 1)..(k + n)
      BY <2>1, <2>4 DEF Goals
    <3>3. /\ k \in Nat /\ IsFiniteSet(Goals(match)) /\ k + 1 \notin Goals(match)
          /\ k + 2 \notin Goals(match) \cup {k + 1}
      BY EventPlaces, CountTypes
    <3>4. Cardinality(Goals(match)') = Cardinality(Goals(match)) + n
      <4>1. /\ IsFiniteSet(Goals(match) \cup {k + 1})
            /\ Cardinality(Goals(match) \cup {k + 1}) = Cardinality(Goals(match)) + 1
        BY <3>3, FS_AddElement
      <4>2. Cardinality((Goals(match) \cup {k + 1}) \cup {k + 2})
              = Cardinality(Goals(match) \cup {k + 1}) + 1
        BY <3>3, <4>1, FS_AddElement
      <4>3. CASE n = 0
        <5>1. Goals(match)' = Goals(match)
          BY <3>2, <3>3, <4>3
        <5> QED
          BY <1>0, <5>1, <4>3
      <4>4. CASE n = 1
        <5>1. Goals(match)' = Goals(match) \cup {k + 1}
          BY <3>2, <3>3, <4>4
        <5> QED
          BY <4>1, <4>4, <5>1
      <4>5. CASE n = 2
        <5>1. Goals(match)' = (Goals(match) \cup {k + 1}) \cup {k + 2}
          BY <3>2, <3>3, <4>5
        <5> QED
          BY <1>0, <4>1, <4>2, <4>5, <5>1
      <4> QED
        BY <4>3, <4>4, <4>5
    <3>5. n = 1 \/ faults' = faults + 1
      BY <2>1 DEF Written, CallFails, Fault
    <3> QED
      BY <1>0, <1>1, <2>2, <2>4, <3>1, <3>4, <3>5
  <2> QED
    BY <2>3, <2>4
<1> QED
  BY <1>3, <1>4, <1>5, FeedSteps

\* The score the feed counts in memory and the goals on the topic differ by at most
\* the publications that failed or were repeated.
THEOREM ScoresArePublished == Spec => []ScoreIsPublished
<1> QED
  BY PipelineTypes, ScoreInit, ScoreStep, PTL DEF Spec

-----------------------------------------------------------------------------
\* How far the cache is behind.  There is one odds-consumer, u.

\* Update k of partition p has been handled as far as u and the broker know: it is
\* committed; it was fetched, and u is not about to write it; or it comes before
\* what u has in hand, or u has it in hand and has written it.
Seen(u, p, k) ==
  \/ k <= oddsCommitted[p]
  \/ k <= oddsPos[p] /\ (oddsPc[u] = "set" => oddsAt[u] # <<p, oddsPos[p]>> \/ k # oddsPos[p])
  \/ /\ oddsPc[u] # "fetch" /\ oddsAt[u][1] = p
     /\ k < oddsAt[u][2] \/ (k = oddsAt[u][2] /\ oddsPc[u] # "set")

\* The cache holds no odds of o, or those of an update after which no other
\* update of o has been handled.
Shows(o, j) == cachedOdds[o] = IF j = 0 THEN InitialOdds[o] ELSE Topic(o)[j].new
UpToDate(u, o) ==
  \/ cachedOdds[o] = 0
  \/ \E j \in UpdatesOf(o) \cup {0} :
       /\ Shows(o, j)
       /\ \A k \in UpdatesOf(o) : Seen(u, OddsPartition[o], k) => k <= j
Behind(u) == {o \in Outcomes : ~UpToDate(u, o)}

\* After a rebalance u may have in hand what is not the last message fetched, and
\* its commit may then be ahead of the position.
Parted(u) == oddsPc[u] # "fetch" /\ oddsAt[u][2] # oddsPos[oddsAt[u][1]]
Rewound == \E p \in OddsPartitions : oddsCommitted[p] > oddsPos[p]
Detour(u) == Parted(u) \/ Rewound

\* On a detour, which cost a rebalance, the outcome in hand may be behind.
InHand(u) == IF oddsPc[u] = "fetch" THEN {} ELSE {Updated(u).outcome}
Excess(u) == IF Detour(u) THEN Behind(u) \ InHand(u) ELSE Behind(u)
Allowed(u) == IF Detour(u) THEN faults - 1 ELSE faults

AtMost(D, n) == IsFiniteSet(D) /\ Cardinality(D) <= n

StaleInv(u) ==
  /\ AtMost(Excess(u), Allowed(u))
  /\ Parted(u) => oddsPos = oddsCommitted
  /\ oddsPc[u] \notin {"fetch", "set"} =>
       cachedOdds[Updated(u).outcome] \in {0, Updated(u).new}

LEMMA Fewer ==
  ASSUME NEW D, NEW E, NEW n \in Int, NEW m \in Int, AtMost(D, n), E \subseteq D, n <= m
  PROVE  AtMost(E, m)
<1>1. IsFiniteSet(E) /\ Cardinality(E) <= Cardinality(D)
  BY FS_Subset DEF AtMost
<1>2. Cardinality(E) \in Nat /\ Cardinality(D) \in Nat
  BY <1>1, FS_CardinalityType DEF AtMost
<1> QED
  BY <1>1, <1>2 DEF AtMost

LEMMA OneMore ==
  ASSUME NEW D, NEW E, NEW x, NEW n \in Int, NEW m \in Int,
         AtMost(D, n), E \subseteq D \cup {x}, n + 1 <= m
  PROVE  AtMost(E, m)
<1>1. /\ IsFiniteSet(D \cup {x}) /\ Cardinality(D) \in Nat
      /\ \/ Cardinality(D \cup {x}) = Cardinality(D)
         \/ Cardinality(D \cup {x}) = Cardinality(D) + 1
  BY FS_AddElement, FS_CardinalityType DEF AtMost
<1>2. AtMost(D \cup {x}, n + 1)
  BY <1>1 DEF AtMost
<1> QED
  BY <1>2, Fewer

\* What a step does to u and to the broker's record of it.
Quiet(u) ==
  /\ UNCHANGED <<oddsCommitted, oddsPos, oddsAt>>
  /\ \/ oddsPc'[u] = oddsPc[u]
     \/ oddsPc[u] \notin {"fetch", "set"} /\ oddsPc'[u] \notin {"fetch", "set"}
  /\ \A o \in Outcomes : cachedOdds'[o] \in {0, cachedOdds[o]}

LEMMA LoopSteps ==
  ASSUME NEW u, Updaters = {u}, TypeOK, [Next]_vars
  PROVE  \/ Quiet(u)
         \/ SetOdds(u)
         \/ OddsReader!Fetch(u) /\ CallOK /\ UNCHANGED cachedOdds
         \/ OddsReader!Commit(u, TRUE) /\ CallOK /\ UNCHANGED cachedOdds
         \/ OddsReader!Commit(u, FALSE) /\ CallFails /\ UNCHANGED cachedOdds
         \/ CrashUpdater(u)
         \/ RebalanceUpdaters
<1>0. /\ oddsPc \in [Updaters -> UpdaterLabels \cup {"fetch", "commit"}]
      /\ cachedOdds \in [Outcomes -> OfferableOdds \cup {0}]
  BY TypeParts
<1>1. ASSUME UpdaterLoop(u), ~HandleOddsUpdated(u)
      PROVE  \/ OddsReader!Fetch(u) /\ CallOK /\ UNCHANGED cachedOdds
             \/ OddsReader!Commit(u, TRUE) /\ CallOK /\ UNCHANGED cachedOdds
             \/ OddsReader!Commit(u, FALSE) /\ CallFails /\ UNCHANGED cachedOdds
  BY <1>1 DEF UpdaterLoop, board
<1>2. ASSUME HandleOddsUpdated(u), ~SetOdds(u) PROVE Quiet(u)
  BY <1>0, <1>2 DEF HandleOddsUpdated, PushOddsHistory, GetOddsVelocity, Suspend,
         PublishMarketSuspended, OddsReader!Goto, OddsReader!ReturnNil, board, Quiet
<1>3. ASSUME NEW e \in Engines, EngineLoop(e) \/ CrashEngine(e) PROVE Quiet(u)
  BY <1>3 DEF EngineLoop, HandleGameEvent, FindEvent, ReadOdds, PublishOdds, AllPublished,
              EngineFrame, CrashEngine, board, oddsReader, Quiet
<1>4. ASSUME NEW o \in Outcomes, OddsExpire(o) PROVE Quiet(u)
  BY <1>0, <1>4 DEF OddsExpire, oddsReader, Quiet
<1>5. ASSUME \/ \E match \in Matches :
                  \/ \E type \in GameEventTypes, team \in FedTeams : PlayMatch(match, type, team)
                  \/ UpdateEventStatus(match)
             \/ CrashFeed
             \/ \E m \in Markets : MarketSettled(m) \/ SuspensionLapses(m)
             \/ RebalanceEngines \/ UNCHANGED vars
      PROVE  Quiet(u)
  BY <1>5 DEF PlayMatch, UpdateEventStatus, CrashFeed, FeedFrame, MarketSettled,
              SuspensionLapses, RebalanceEngines, board, oddsReader, vars, Quiet
<1> QED
  BY <1>1, <1>2, <1>3, <1>4, <1>5 DEF Next, UpdaterLoop

\* What u has in hand.
LEMMA InHandTypes ==
  ASSUME NEW u, Updaters = {u}, TypeOK, OfferInv, oddsPc[u] # "fetch"
  PROVE  /\ oddsAt[u] \in OddsPartitions \X Nat
         /\ oddsAt[u][1] \in OddsPartitions /\ oddsAt[u][2] \in Nat
         /\ oddsAt[u] = <<oddsAt[u][1], oddsAt[u][2]>>
         /\ oddsAt[u][2] \in UpdatesOf(Updated(u).outcome)
         /\ Updated(u).outcome \in Outcomes /\ Updated(u).new # 0
         /\ oddsAt[u][1] = OddsPartition[Updated(u).outcome]
         /\ Topic(Updated(u).outcome)[oddsAt[u][2]] = Updated(u)
<1> DEFINE p == oddsAt[u][1]
           i == oddsAt[u][2]
<1>1. /\ oddsAt[u] \in OddsPartitions \X Nat /\ p \in OddsPartitions /\ i \in Nat
      /\ oddsAt[u] = <<p, i>>
      /\ i \in 1..Len(oddsLog[p]) /\ Updated(u) = oddsLog[p][i]
  BY TypeParts DEF OddsTyped, OddsReader!ConsumerTypeOK, Updated, OddsReader!Current
<1>2. Updated(u).outcome \in Outcomes /\ Updated(u).new \in OfferableOdds
  BY TypeParts, UpdatedTypes
<1>3. OddsPartition[Updated(u).outcome] = p
  BY <1>1 DEF OfferInv
<1>4. i \in UpdatesOf(Updated(u).outcome) /\ Topic(Updated(u).outcome)[i] = Updated(u)
  BY <1>1, <1>2, <1>3, Places
<1> QED
  BY <1>1, <1>2, <1>3, <1>4, Offerable DEF LowestOdds

\* The positions stay within the topic, so that nothing is seen that is not there.
LEMMA SeenIsThere ==
  ASSUME TypeOK, NEW u \in Updaters, NEW p \in OddsPartitions, NEW k \in Nat, Seen(u, p, k)
  PROVE  k <= Len(oddsLog[p])
<1>1. /\ oddsCommitted[p] \in Nat /\ oddsPos[p] \in Nat /\ Len(oddsLog[p]) \in Nat
      /\ oddsCommitted[p] <= Len(oddsLog[p]) /\ oddsPos[p] <= Len(oddsLog[p])
      /\ oddsPc[u] # "fetch" /\ oddsAt[u][1] = p => oddsAt[u][2] \in 1..Len(oddsLog[p])
  BY Places, TypeParts DEF OddsTyped, OddsReader!ConsumerTypeOK
<1> QED
  BY <1>1 DEF Seen

\* The cache does not fall behind while nothing more is seen.
LEMMA StaysUpToDate ==
  ASSUME NEW u \in Updaters, TypeOK, [Next]_vars, NEW o \in Outcomes, UpToDate(u, o),
         cachedOdds'[o] \in {0, cachedOdds[o]},
         \A k \in UpdatesOf(o)' : Seen(u, OddsPartition[o], k)' => Seen(u, OddsPartition[o], k)
  PROVE  UpToDate(u, o)'
<1> DEFINE p == OddsPartition[o]
<1>1. CASE cachedOdds'[o] = 0
  BY <1>1 DEF UpToDate
<1>2. CASE cachedOdds'[o] = cachedOdds[o] /\ cachedOdds[o] # 0
  <2>1. PICK j \in UpdatesOf(o) \cup {0} :
          Shows(o, j) /\ \A k \in UpdatesOf(o) : Seen(u, p, k) => k <= j
    BY <1>2 DEF UpToDate
  <2>2. j \in UpdatesOf(o)' \cup {0} /\ Shows(o, j)'
    BY <1>2, <2>1, OffersStay DEF Shows
  <2>3. ASSUME NEW k \in UpdatesOf(o)', Seen(u, p, k)' PROVE k <= j
    <3>1. Seen(u, p, k)
      BY <2>3
    <3>2. p \in OddsPartitions /\ k \in Nat /\ k >= 1 /\ Topic(o)'[k].outcome = o
      <4>1. TypeOK'
        BY StepParts
      <4>2. DOMAIN Topic(o)' \subseteq Nat \ {0}
        BY <4>1, OddsStoreAssumption, LenProperties
           DEF TypeOK, OddsTypeOK, OddsReader!ConsumerTypeOK, Topic
      <4> QED
        BY <2>3, <4>2, OddsStoreAssumption DEF UpdatesOf
    <3>3. k \in 1..Len(Topic(o))
      BY <3>1, <3>2, SeenIsThere, Places
    <3>4. Topic(o)'[k] = Topic(o)[k]
      BY <3>3, StepParts, TypeParts, Places, OddsLogGrows DEF Topic
    <3>5. k \in UpdatesOf(o)
      BY <3>2, <3>3, <3>4, Places
    <3> QED
      BY <2>1, <3>1, <3>5
  <2> QED
    BY <2>2, <2>3 DEF UpToDate
<1> QED
  BY <1>1, <1>2

\* The cache is up to date with an outcome whose last seen update it holds.
LEMMA BecomesUpToDate ==
  ASSUME NEW u \in Updaters, TypeOK, UNCHANGED oddsLog, NEW o \in Outcomes,
         NEW i \in UpdatesOf(o), cachedOdds'[o] \in {0, Topic(o)[i].new},
         \A k \in UpdatesOf(o) : Seen(u, OddsPartition[o], k)' => k <= i
  PROVE  UpToDate(u, o)'
<1>1. i # 0
  BY Places
<1>2. UpdatesOf(o)' = UpdatesOf(o) /\ Topic(o)' = Topic(o)
  BY DEF UpdatesOf, Topic
<1> QED
  BY <1>1, <1>2 DEF UpToDate, Shows

\* The parts of the types that say where u is.
LEMMA PlaceTypes ==
  ASSUME NEW u, Updaters = {u}, TypeOK
  PROVE  /\ oddsPos \in [OddsPartitions -> Nat] /\ oddsCommitted \in [OddsPartitions -> Nat]
         /\ oddsPc \in [Updaters -> UpdaterLabels \cup {"fetch", "commit"}]
         /\ oddsAt \in [Updaters -> (OddsPartitions \X Nat) \cup {NoMessage}]
         /\ cachedOdds \in [Outcomes -> OfferableOdds \cup {0}]
         /\ faults \in Nat
BY TypeParts DEF OddsTyped, OddsReader!ConsumerTypeOK

\* The outcomes that are behind are in excess or in hand.
LEMMA BehindOrInHand ==
  ASSUME NEW u
  PROVE  /\ Behind(u) \subseteq Excess(u) \cup InHand(u)
         /\ Behind(u) \ InHand(u) \subseteq Excess(u)
         /\ ~Detour(u) => Excess(u) = Behind(u)
         /\ Excess(u) \subseteq Behind(u)
BY DEF Excess

LEMMA NothingSeen ==
  ASSUME NEW u \in Updaters, TypeOK, [Next]_vars,
         \A o \in Outcomes : cachedOdds'[o] \in {0, cachedOdds[o]},
         \A p \in OddsPartitions, k \in Nat : Seen(u, p, k)' => Seen(u, p, k)
  PROVE  Behind(u)' \subseteq Behind(u)
<1> SUFFICES ASSUME NEW o \in Outcomes, UpToDate(u, o) PROVE UpToDate(u, o)'
  BY DEF Behind
<1>1. UpdatesOf(o)' \subseteq Nat
  <2>1. TypeOK'
    BY StepParts
  <2>2. DOMAIN Topic(o)' \subseteq Nat
    BY <2>1, OddsStoreAssumption, LenProperties
       DEF TypeOK, OddsTypeOK, OddsReader!ConsumerTypeOK, Topic
  <2> QED
    BY <2>2 DEF UpdatesOf
<1> QED
  BY <1>1, StaysUpToDate, OddsStoreAssumption

LEMMA AllowedNow ==
  ASSUME NEW u, faults \in Nat
  PROVE  /\ Detour(u) => Allowed(u) = faults - 1
         /\ ~Detour(u) => Allowed(u) = faults
         /\ Allowed(u) \in Int /\ faults - 1 <= Allowed(u) /\ Allowed(u) <= faults
<1>1. CASE Detour(u)
  BY <1>1 DEF Allowed
<1>2. CASE ~Detour(u)
  BY <1>2 DEF Allowed
<1> QED
  BY <1>1, <1>2

LEMMA OneLess ==
  ASSUME NEW n \in Nat, NEW x \in {n, n - 1} PROVE x \in Int /\ n - 1 <= x /\ x <= n
OBVIOUS

LEMMA AllowedNext ==
  ASSUME NEW u, faults' \in Nat
  PROVE  /\ Detour(u)' => Allowed(u)' = faults' - 1
         /\ ~Detour(u)' => Allowed(u)' = faults'
         /\ Allowed(u)' \in Int /\ faults' - 1 <= Allowed(u)' /\ Allowed(u)' <= faults'
<1>1. CASE Detour(u)'
  <2>1. Allowed(u)' = faults' - 1
    BY <1>1, Zenon DEF Allowed
  <2>2. Allowed(u)' \in Int /\ faults' - 1 <= Allowed(u)' /\ Allowed(u)' <= faults'
    BY <2>1, OneLess, Zenon
  <2> QED
    BY <1>1, <2>1, <2>2, Zenon
<1>2. CASE ~Detour(u)'
  <2>1. Allowed(u)' = faults'
    BY <1>2, Zenon DEF Allowed
  <2>2. Allowed(u)' \in Int /\ faults' - 1 <= Allowed(u)' /\ Allowed(u)' <= faults'
    BY <2>1, OneLess, Zenon
  <2> QED
    BY <1>2, <2>1, <2>2, Zenon
<1> QED
  BY <1>1, <1>2

\* Off a detour, and with a fault more, one more outcome may be behind.
LEMMA AllowedSteps ==
  ASSUME NEW u, faults \in Nat, faults' \in Nat, Detour(u)' => Detour(u)
  PROVE  /\ Allowed(u) \in Int /\ Allowed(u)' \in Int
         /\ faults <= faults' => Allowed(u) <= Allowed(u)'
         /\ faults + 1 <= faults' => Allowed(u) + 1 <= Allowed(u)'
         /\ faults <= faults' /\ Detour(u) /\ ~Detour(u)' => Allowed(u) + 1 <= Allowed(u)'
<1>1. CASE Detour(u)'
  BY <1>1, AllowedNow, AllowedNext
<1>2. CASE ~Detour(u)'
  BY <1>2, AllowedNow, AllowedNext
<1> QED
  BY <1>1, <1>2

LEMMA QuietStep ==
  ASSUME NEW u, Updaters = {u}, TypeOK, OfferInv, [Next]_vars, StaleInv(u), Quiet(u)
  PROVE  StaleInv(u)'
<1>0. /\ faults \in Nat /\ faults' \in Nat /\ faults <= faults'
      /\ TypeOK /\ OddsTyped /\ OddsSteps
  BY TypeParts, FaultsGrow, StepParts
<1>1. /\ oddsPc'[u] = "fetch" <=> oddsPc[u] = "fetch"
      /\ oddsPc'[u] = "set" <=> oddsPc[u] = "set"
      /\ UNCHANGED <<oddsCommitted, oddsPos, oddsAt>>
  BY DEF Quiet
<1>2. \A p \in OddsPartitions, k \in Nat : Seen(u, p, k)' => Seen(u, p, k)
  BY <1>1 DEF Seen
<1>3. Behind(u)' \subseteq Behind(u)
  BY <1>2, NothingSeen DEF Quiet
<1>4. oddsPc[u] # "fetch" => Updated(u)' = Updated(u)
  BY <1>0, <1>1, UpdatedStays
<1>5. InHand(u)' = InHand(u) /\ (Parted(u)' <=> Parted(u)) /\ (Detour(u)' <=> Detour(u))
  BY <1>1, <1>4 DEF InHand, Parted, Rewound, Detour
<1>6. Excess(u)' \subseteq Excess(u) /\ Allowed(u) <= Allowed(u)'
      /\ Allowed(u) \in Int /\ Allowed(u)' \in Int
  <2>1. Excess(u)' \subseteq Excess(u)
    BY <1>3, <1>5 DEF Excess
  <2> QED
    BY <1>0, <1>5, <2>1, AllowedSteps
<1>7. AtMost(Excess(u)', Allowed(u)')
  BY <1>6, Fewer DEF StaleInv
<1>8. ASSUME oddsPc'[u] \notin {"fetch", "set"}
      PROVE  cachedOdds'[Updated(u)'.outcome] \in {0, Updated(u)'.new}
  BY <1>1, <1>4, <1>8, InHandTypes DEF Quiet, StaleInv
<1> QED
  BY <1>1, <1>5, <1>7, <1>8 DEF StaleInv, AtMost

LEMMA FetchStep ==
  ASSUME NEW u, Updaters = {u}, TypeOK, [Next]_vars, StaleInv(u),
         OddsReader!Fetch(u), CallOK, UNCHANGED cachedOdds
  PROVE  StaleInv(u)'
<1>0. PICK p \in OddsPartitions :
        /\ oddsPc[u] = "fetch" /\ oddsPc' = [oddsPc EXCEPT ![u] = "set"]
        /\ oddsAt' = [oddsAt EXCEPT ![u] = <<p, oddsPos[p] + 1>>]
        /\ oddsPos' = [oddsPos EXCEPT ![p] = @ + 1]
        /\ UNCHANGED <<oddsLog, oddsCommitted>>
  BY DEF OddsReader!Fetch
<1>1. /\ oddsPc'[u] = "set" /\ oddsAt'[u] = <<p, oddsPos[p] + 1>>
      /\ oddsPos'[p] = oddsPos[p] + 1 /\ \A q \in OddsPartitions : q # p => oddsPos'[q] = oddsPos[q]
      /\ faults' = faults /\ faults \in Nat
  BY <1>0, PlaceTypes DEF CallOK
<1>2. \A q \in OddsPartitions, k \in Nat : Seen(u, q, k)' => Seen(u, q, k)
  <2>1. SUFFICES ASSUME NEW q \in OddsPartitions, NEW k \in Nat, Seen(u, q, k)'
                 PROVE  Seen(u, q, k)
    OBVIOUS
  <2>2. oddsPos[q] \in Nat /\ oddsPos[p] \in Nat
    BY PlaceTypes
  <2>3. oddsAt'[u][1] = p /\ oddsAt'[u][2] = oddsPos[p] + 1
    BY <1>1
  <2>4. CASE q = p
    BY <1>0, <1>1, <2>1, <2>2, <2>3, <2>4 DEF Seen
  <2>5. CASE q # p
    BY <1>0, <1>1, <2>1, <2>2, <2>3, <2>5 DEF Seen
  <2> QED
    BY <2>4, <2>5
<1>3. Behind(u)' \subseteq Behind(u)
  BY <1>2, NothingSeen, PlaceTypes
<1>4. ~Parted(u)' /\ (Rewound' => Rewound)
  <2>1. oddsAt'[u][2] = oddsPos'[oddsAt'[u][1]]
    BY <1>1
  <2>2. \A q \in OddsPartitions : oddsPos[q] <= oddsPos'[q] /\ oddsPos[q] \in Nat
                                  /\ oddsPos'[q] \in Nat /\ oddsCommitted[q] \in Nat
    BY <1>0, <1>1, PlaceTypes
  <2> QED
    BY <1>0, <2>1, <2>2 DEF Parted, Rewound
<1>5. InHand(u) = {} /\ (Detour(u)' => Detour(u))
  BY <1>0, <1>4 DEF InHand, Detour
<1>6. Excess(u)' \subseteq Excess(u) /\ Allowed(u) <= Allowed(u)'
      /\ Allowed(u) \in Int /\ Allowed(u)' \in Int
  <2>1. Excess(u)' \subseteq Excess(u)
    BY <1>3, <1>5 DEF Excess
  <2> QED
    BY <1>1, <1>5, <2>1, AllowedSteps
<1>7. AtMost(Excess(u)', Allowed(u)')
  BY <1>6, Fewer DEF StaleInv
<1> QED
  BY <1>1, <1>4, <1>7 DEF StaleInv, AtMost

LEMMA SetStep ==
  ASSUME NEW u, Updaters = {u}, TypeOK, OfferInv, [Next]_vars, StaleInv(u), SetOdds(u)
  PROVE  StaleInv(u)'
<1>P. PICK p \in OddsPartitions, i \in Nat, o \in Outcomes :
        p = oddsAt[u][1] /\ i = oddsAt[u][2] /\ o = Updated(u).outcome
  BY InHandTypes DEF SetOdds
<1>0. /\ oddsPc[u] = "set" /\ i \in UpdatesOf(o) /\ p = OddsPartition[o]
      /\ oddsAt[u] = <<p, i>>
      /\ Topic(o)[i].new = Updated(u).new /\ InHand(u) = {o}
      /\ u \in Updaters /\ UNCHANGED <<oddsLog, oddsCommitted, oddsPos>>
  BY <1>P, InHandTypes DEF SetOdds, OddsReader!Goto, OddsReader!ReturnError, InHand
<1>1. /\ cachedOdds'[o] \in {cachedOdds[o], Updated(u).new}
      /\ \A x \in Outcomes : x # o => cachedOdds'[x] = cachedOdds[x]
  BY <1>P, <1>0, PlaceTypes DEF SetOdds, SetOddsOf
<1>2. \/ /\ oddsPc'[u] = "push" /\ oddsAt' = oddsAt /\ faults' = faults
         /\ cachedOdds'[o] = Updated(u).new
      \/ oddsPc'[u] = "fetch" /\ faults' = faults + 1
  BY <1>P, <1>0, PlaceTypes DEF SetOdds, SetOddsOf, OddsReader!Goto, OddsReader!ReturnError, CallOK,
         CallFails, Fault
<1>3. \A q \in OddsPartitions, k \in Nat : q # p \/ k # i => (Seen(u, q, k)' => Seen(u, q, k))
  <2>1. SUFFICES ASSUME NEW q \in OddsPartitions, NEW k \in Nat, q # p \/ k # i, Seen(u, q, k)'
                 PROVE  Seen(u, q, k)
    OBVIOUS
  <2>2. oddsPos[q] \in Nat
    BY PlaceTypes
  <2> QED
    BY <1>0, <1>2, <2>1, <2>2 DEF Seen
<1>4. Behind(u)' \subseteq Behind(u) \cup {o}
  <2>1. SUFFICES ASSUME NEW x \in Outcomes, x # o, UpToDate(u, x) PROVE UpToDate(u, x)'
    BY DEF Behind
  <2>2. ASSUME NEW k \in UpdatesOf(x)', Seen(u, OddsPartition[x], k)'
        PROVE  Seen(u, OddsPartition[x], k)
    <3>1. k \in UpdatesOf(x) /\ k \in Nat /\ OddsPartition[x] \in OddsPartitions
      BY <1>0, <2>2, Places DEF UpdatesOf, Topic
    <3>2. OddsPartition[x] # p \/ k # i
      BY <1>0, <2>1, <3>1, Places
    <3> QED
      BY <1>3, <2>2, <3>1, <3>2
  <2> QED
    BY <1>0, <1>1, <2>1, <2>2, StaysUpToDate
<1>5. ASSUME oddsPc'[u] = "push" PROVE ~Detour(u) => o \notin Behind(u)'
  <2>1. SUFFICES ASSUME ~Detour(u) PROVE UpToDate(u, o)'
    BY Zenon DEF Behind
  <2>2. oddsPos[p] = i /\ oddsCommitted[p] <= i
    BY <1>P, <1>0, <2>1, PlaceTypes DEF Detour, Parted, Rewound
  <2>3. ASSUME NEW k \in UpdatesOf(o), Seen(u, p, k)' PROVE k <= i
    <3>1. k \in Nat /\ oddsCommitted[p] \in Nat /\ oddsAt'[u] = oddsAt[u]
      BY <1>2, <1>5, Places, PlaceTypes
    <3> QED
      BY <1>P, <1>0, <1>5, <2>2, <2>3, <3>1 DEF Seen
  <2> QED
    BY <1>0, <1>2, <1>5, <2>3, BecomesUpToDate
<1>6. CASE oddsPc'[u] = "push"
  <2>1. Updated(u)' = Updated(u)
    BY <1>0, <1>2, <1>6 DEF Updated, OddsReader!Current
  <2>2. /\ InHand(u)' = {o} /\ (Parted(u)' <=> Parted(u)) /\ (Detour(u)' <=> Detour(u))
        /\ oddsPos' = oddsPos /\ oddsCommitted' = oddsCommitted
    BY <1>P, <1>0, <1>2, <1>6, <2>1 DEF InHand, Parted, Rewound, Detour
  <2>3. Excess(u)' \subseteq Excess(u)
    BY <1>0, <1>4, <1>5, <1>6, <2>2 DEF Excess
  <2>4. Allowed(u) \in Int /\ Allowed(u)' = Allowed(u)
    BY <1>2, <1>6, <2>2, PlaceTypes, AllowedNow, AllowedNext
  <2>5. AtMost(Excess(u)', Allowed(u)')
    BY <2>3, <2>4, Fewer DEF StaleInv
  <2> QED
    BY <1>P, <1>2, <1>6, <2>1, <2>2, <2>5 DEF StaleInv, AtMost
<1>7. CASE oddsPc'[u] = "fetch"
  <2>1. ~Parted(u)' /\ (Detour(u)' => Detour(u))
    BY <1>0, <1>7 DEF Parted, Rewound, Detour
  <2>2. Excess(u)' \subseteq Excess(u) \cup {o}
    BY <1>0, <1>4, BehindOrInHand DEF Excess
  <2>3. Allowed(u) \in Int /\ Allowed(u)' \in Int /\ Allowed(u) + 1 <= Allowed(u)'
    BY <1>2, <1>7, <2>1, PlaceTypes, AllowedSteps
  <2>4. AtMost(Excess(u)', Allowed(u)')
    BY <2>2, <2>3, OneMore DEF StaleInv
  <2> QED
    BY <1>7, <2>1, <2>4 DEF StaleInv, AtMost
<1> QED
  BY <1>2, <1>6, <1>7

\* u lets go of what it has in hand: its outcome may be behind for good.
LEMMA LettingGo ==
  ASSUME NEW u, Updaters = {u}, TypeOK, [Next]_vars, StaleInv(u),
         oddsPc'[u] = "fetch", UNCHANGED cachedOdds, NEW o, InHand(u) \subseteq {o},
         \A p \in OddsPartitions, k \in Nat : Seen(u, p, k)' => Seen(u, p, k),
         Rewound' => Detour(u),
         \/ faults' = faults + 1
         \/ faults' = faults /\ (Detour(u)' => o \notin Behind(u)')
  PROVE  StaleInv(u)'
<1>0. faults \in Nat /\ faults' \in Nat /\ faults <= faults'
  BY TypeParts, FaultsGrow
<1>1. ~Parted(u)' /\ (Detour(u)' => Detour(u))
  BY DEF Parted, Detour
<1>2. Behind(u)' \subseteq Behind(u)
  BY NothingSeen, PlaceTypes
<1>3. Excess(u)' \subseteq Excess(u) \cup {o}
  BY <1>2, BehindOrInHand DEF Excess
<1>4. Allowed(u) \in Int /\ Allowed(u)' \in Int
  BY <1>0, <1>1, AllowedSteps
<1>5. AtMost(Excess(u)', Allowed(u)')
  <2>1. CASE faults' = faults + 1
    <3>1. Allowed(u) + 1 <= Allowed(u)'
      BY <1>0, <1>1, <2>1, AllowedSteps
    <3> QED
      BY <1>3, <1>4, <3>1, OneMore DEF StaleInv
  <2>2. CASE Detour(u) /\ ~Detour(u)'
    <3>1. Allowed(u) + 1 <= Allowed(u)'
      BY <1>0, <1>1, <2>2, AllowedSteps
    <3> QED
      BY <1>3, <1>4, <3>1, OneMore DEF StaleInv
  <2>3. CASE ~Detour(u)
    <3>1. Excess(u)' \subseteq Excess(u)
      BY <1>1, <1>2, <2>3 DEF Excess
    <3>2. Allowed(u) <= Allowed(u)'
      BY <1>0, <1>1, AllowedSteps
    <3> QED
      BY <1>4, <3>1, <3>2, Fewer DEF StaleInv
  <2>4. CASE faults' = faults /\ o \notin Behind(u)'
    <3>1. Excess(u)' \subseteq Excess(u)
      <4>1. Excess(u)' \subseteq Behind(u)'
        BY DEF Excess
      <4> QED
        BY <1>2, <2>4, <4>1, BehindOrInHand
    <3>2. Allowed(u) <= Allowed(u)'
      BY <1>0, <1>1, AllowedSteps
    <3> QED
      BY <1>4, <3>1, <3>2, Fewer DEF StaleInv
  <2> QED
    BY <2>1, <2>2, <2>3, <2>4
<1> QED
  BY <1>1, <1>5 DEF StaleInv, AtMost

LEMMA CommitStep ==
  ASSUME NEW u, Updaters = {u}, TypeOK, OfferInv, [Next]_vars, StaleInv(u),
         \/ OddsReader!Commit(u, TRUE) /\ CallOK
         \/ OddsReader!Commit(u, FALSE) /\ CallFails,
         UNCHANGED cachedOdds
  PROVE  StaleInv(u)'
<1>1. /\ oddsPc[u] = "commit" /\ oddsPc'[u] = "fetch"
      /\ UNCHANGED <<oddsLog, oddsPos>>
  BY PlaceTypes DEF OddsReader!Commit
<1>P. PICK p \in OddsPartitions, i \in Nat, o \in Outcomes :
        /\ p = oddsAt[u][1] /\ i = oddsAt[u][2] /\ o = Updated(u).outcome
        /\ i \in UpdatesOf(o) /\ p = OddsPartition[o] /\ oddsAt[u] = <<p, i>>
        /\ Topic(o)[i].new = Updated(u).new /\ InHand(u) = {o}
  BY <1>1, InHandTypes DEF InHand
<1>2. \/ oddsCommitted' = [oddsCommitted EXCEPT ![p] = i] /\ faults' = faults
      \/ oddsCommitted' = oddsCommitted /\ faults' = faults + 1
  BY <1>P DEF OddsReader!Commit, OddsReader!Offset, CallOK, CallFails, Fault
<1>3. \A q \in OddsPartitions : oddsCommitted'[q] = oddsCommitted[q] \/ (q = p /\ oddsCommitted'[q] = i)
  BY <1>2, PlaceTypes
<1>4. \A q \in OddsPartitions, k \in Nat : Seen(u, q, k)' => Seen(u, q, k)
  BY <1>1, <1>P, <1>3 DEF Seen
<1>5. Rewound' => Detour(u)
  <2>1. SUFFICES ASSUME NEW q \in OddsPartitions, oddsCommitted'[q] > oddsPos[q], ~Detour(u)
                 PROVE  FALSE
    BY <1>1, Zenon DEF Rewound
  <2>2. oddsPos[p] = i /\ ~(oddsCommitted[q] > oddsPos[q])
    BY <1>1, <1>P, <2>1 DEF Detour, Parted, Rewound
  <2> QED
    BY <1>3, <1>P, <2>1, <2>2
<1>6. CASE faults' = faults + 1
  BY <1>1, <1>P, <1>4, <1>5, <1>6, LettingGo
<1>7. CASE oddsCommitted' = [oddsCommitted EXCEPT ![p] = i] /\ faults' = faults
  <2>1. ASSUME Detour(u)' PROVE UpToDate(u, o)'
    <3>1. PICK q \in OddsPartitions : oddsCommitted'[q] > oddsPos[q]
      BY <1>1, <2>1 DEF Detour, Parted, Rewound
    <3>2. oddsPos[p] <= i
      <4>1. CASE oddsPos[p] = i
        BY <4>1
      <4>2. CASE oddsPos[p] # i
        <5>1. oddsPos = oddsCommitted
          BY <1>1, <1>P, <4>2 DEF StaleInv, Parted
        <5> QED
          BY <1>3, <3>1, <5>1, PlaceTypes
      <4> QED
        BY <4>1, <4>2
    <3>3. \A k \in UpdatesOf(o) : Seen(u, p, k)' => k <= i
      <4>1. oddsCommitted'[p] = i /\ oddsPos[p] \in Nat /\ UpdatesOf(o) \subseteq Nat
        BY <1>7, PlaceTypes, Places
      <4> QED
        BY <1>1, <3>2, <4>1 DEF Seen
    <3>4. cachedOdds'[o] \in {0, Topic(o)[i].new}
      BY <1>1, <1>P DEF StaleInv
    <3> QED
      BY <1>1, <1>P, <3>3, <3>4, BecomesUpToDate
  <2>2. Detour(u)' => o \notin Behind(u)'
    BY <2>1, Zenon DEF Behind
  <2> QED
    BY <1>1, <1>P, <1>4, <1>5, <1>7, <2>2, LettingGo
<1> QED
  BY <1>2, <1>6, <1>7

LEMMA CrashStep ==
  ASSUME NEW u, Updaters = {u}, TypeOK, [Next]_vars, StaleInv(u), CrashUpdater(u)
  PROVE  StaleInv(u)'
<1>1. /\ oddsPc'[u] = "fetch" /\ oddsPos' = oddsCommitted /\ oddsCommitted' = oddsCommitted
      /\ faults' = faults + 1 /\ UNCHANGED cachedOdds
  BY PlaceTypes DEF CrashUpdater, OddsReader!Crash, OddsReader!Resume, Fault, board
<1>2. \A p \in OddsPartitions, k \in Nat : Seen(u, p, k)' => Seen(u, p, k)
  BY <1>1 DEF Seen
<1>3. ~Rewound'
  <2>1. \A p \in OddsPartitions : ~(oddsCommitted'[p] > oddsPos'[p])
    <3>1. \A p \in OddsPartitions : oddsCommitted[p] \in Nat
      BY PlaceTypes
    <3>2. \A p \in OddsPartitions : oddsCommitted'[p] = oddsCommitted[p] /\ oddsPos'[p] = oddsCommitted[p]
      BY <1>1
    <3> QED
      BY <3>1, <3>2
  <2> QED
    BY <2>1, Zenon DEF Rewound
<1>4. InHand(u) \subseteq {Updated(u).outcome}
  BY DEF InHand
<1> QED
  BY <1>1, <1>2, <1>3, <1>4, LettingGo

LEMMA RebalanceStep ==
  ASSUME NEW u, Updaters = {u}, TypeOK, [Next]_vars, StaleInv(u), RebalanceUpdaters
  PROVE  StaleInv(u)'
<1>0. faults \in Nat /\ faults' \in Nat /\ OddsTyped /\ OddsSteps
  BY TypeParts, FaultsGrow, StepParts
<1>1. /\ UNCHANGED <<oddsLog, oddsPc, oddsAt, oddsCommitted, cachedOdds>>
      /\ oddsPos' = oddsCommitted /\ faults' = faults + 1
  BY DEF RebalanceUpdaters, OddsReader!Rebalance, OddsReader!Resume, Fault, board
<1>2. \A p \in OddsPartitions, k \in Nat : Seen(u, p, k)' => Seen(u, p, k)
  <2>1. ASSUME NEW p \in OddsPartitions, NEW k \in Nat, Seen(u, p, k)' PROVE Seen(u, p, k)
    BY <1>1, <2>1 DEF Seen
  <2> QED
    BY <2>1
<1>3. Behind(u)' \subseteq Behind(u)
  BY <1>1, <1>2, NothingSeen
<1>4. Updated(u)' = Updated(u) /\ InHand(u)' = InHand(u)
  BY <1>1 DEF Updated, OddsReader!Current, InHand
<1>5. /\ Allowed(u) \in Int /\ Allowed(u)' \in Int /\ Allowed(u) <= Allowed(u)'
      /\ ~Detour(u)' => Allowed(u) + 1 <= Allowed(u)'
  BY <1>0, <1>1, AllowedNow, AllowedNext
<1>6. AtMost(Excess(u)', Allowed(u)')
  <2>1. CASE Detour(u)'
    <3>1. Excess(u)' \subseteq Excess(u)
      BY <1>3, <1>4, <2>1, BehindOrInHand DEF Excess
    <3> QED
      BY <1>5, <3>1, Fewer DEF StaleInv
  <2>2. CASE ~Detour(u)'
    <3>1. Excess(u)' \subseteq Excess(u) \cup {Updated(u).outcome}
      <4>1. Excess(u)' \subseteq Behind(u)' /\ InHand(u) \subseteq {Updated(u).outcome}
        BY DEF Excess, InHand
      <4> QED
        BY <1>3, <4>1, BehindOrInHand
    <3> QED
      BY <1>5, <2>2, <3>1, OneMore DEF StaleInv
  <2> QED
    BY <2>1, <2>2
<1> QED
  BY <1>1, <1>4, <1>6 DEF StaleInv, AtMost

LEMMA StaleInit ==
  ASSUME NEW u, Updaters = {u}, OddsInit PROVE StaleInv(u)
<1>1. /\ oddsPc[u] = "fetch" /\ oddsPos = oddsCommitted
      /\ \A p \in OddsPartitions : oddsPos[p] = 0
      /\ \A o \in Outcomes : cachedOdds[o] = InitialOdds[o]
      /\ \A p \in OddsPartitions : oddsLog[p] = <<>>
      /\ faults = 0
  BY DEF OddsInit, OddsReader!ConsumerInit
<1>2. ~Detour(u) /\ ~Parted(u)
  BY <1>1 DEF Detour, Parted, Rewound
<1>3. \A o \in Outcomes : UpdatesOf(o) = {}
  BY <1>1, OddsStoreAssumption DEF UpdatesOf, Topic
<1>4. Behind(u) = {}
  BY <1>1, <1>3 DEF Behind, UpToDate, Shows
<1>5. Excess(u) = {} /\ Allowed(u) = 0
  BY <1>1, <1>2, <1>4 DEF Excess, Allowed
<1>6. AtMost(Excess(u), Allowed(u))
  BY <1>5, FS_EmptySet DEF AtMost
<1> QED
  BY <1>1, <1>2, <1>6 DEF StaleInv

LEMMA StaleStep ==
  ASSUME NEW u, Updaters = {u}, TypeOK, OfferInv, [Next]_vars, StaleInv(u)
  PROVE  StaleInv(u)'
BY LoopSteps, QuietStep, SetStep, FetchStep, CommitStep, CrashStep, RebalanceStep

\* A single odds-consumer (docker-compose.yml runs one) leaves the cache wrong about
\* an outcome only by a fault of its own: a SET that failed, a commit that failed or
\* a commit that came late and was overtaken by a second rebalance or a crash.
THEOREM StaleOddsHaveCauses ==
  ASSUME NEW u, Updaters = {u}
  PROVE  Spec => []StaleOddsNeedFaults
<1>1. ASSUME TypeOK, StaleInv(u), AtRest
      PROVE  Cardinality({o \in Outcomes : cachedOdds[o] \notin {0, LastOdds(o)}}) <= faults
  <2> DEFINE Stale == {o \in Outcomes : cachedOdds[o] \notin {0, LastOdds(o)}}
  <2>1. oddsPc[u] = "fetch" /\ \A p \in OddsPartitions : oddsPos[p] = Len(oddsLog[p])
    BY <1>1 DEF AtRest
  <2>2. ASSUME NEW o \in Outcomes, UpToDate(u, o) PROVE cachedOdds[o] \in {0, LastOdds(o)}
    <3>1. CASE cachedOdds[o] = 0
      BY <3>1
    <3>2. CASE cachedOdds[o] # 0
      <4>1. PICK j \in UpdatesOf(o) \cup {0} :
              /\ Shows(o, j)
              /\ \A k \in UpdatesOf(o) : Seen(u, OddsPartition[o], k) => k <= j
        BY <2>2, <3>2 DEF UpToDate
      <4>2. \A k \in UpdatesOf(o) : k \in Nat \ {0} /\ k <= j
        BY <1>1, <2>1, <4>1, Places DEF Seen
      <4>3. CASE UpdatesOf(o) = {}
        BY <4>1, <4>3 DEF Shows, LastOdds
      <4>4. CASE UpdatesOf(o) # {}
        <5>1. j \in UpdatesOf(o) /\ j # 0
          BY <4>1, <4>2, <4>4
        <5>2. Max(UpdatesOf(o)) = j
          BY <4>2, <5>1 DEF Max
        <5> QED
          BY <4>1, <4>4, <5>1, <5>2 DEF Shows, LastOdds
      <4> QED
        BY <4>3, <4>4
    <3> QED
      BY <3>1, <3>2
  <2>3. Stale \subseteq Excess(u)
    <3>1. Stale \subseteq Behind(u) /\ InHand(u) = {}
      BY <2>1, <2>2 DEF Behind, InHand
    <3> QED
      BY <3>1 DEF Excess
  <2>4. Allowed(u) \in Int /\ Allowed(u) <= faults /\ faults \in Int
    BY <1>1, PlaceTypes, AllowedNow
  <2>5. AtMost(Stale, faults)
    BY <1>1, <2>3, <2>4, Fewer DEF StaleInv
  <2> QED
    BY <2>5 DEF AtMost
<1>2. TypeOK /\ StaleInv(u) => StaleOddsNeedFaults
  BY <1>1 DEF StaleOddsNeedFaults
<1>3. OddsInit => StaleInv(u)
  BY StaleInit
<1>4. TypeOK /\ OfferInv /\ StaleInv(u) /\ [Next]_vars => StaleInv(u)'
  BY StaleStep
<1> QED
  BY <1>2, <1>3, <1>4, PipelineTypes, OfferInit, OfferStep, PTL DEF Spec

-----------------------------------------------------------------------------
\* Whistles and yellow cards.

LEMMA NatMax ==
  ASSUME NEW n \in Nat, NEW S \in SUBSET (1..n), S # {}
  PROVE  Max(S) \in S
<1> DEFINE Below == {n - x : x \in S}
<1>1. Below \in SUBSET Nat /\ Below # {}
  <2>1. \A x \in S : x \in 1..n
    OBVIOUS
  <2>2. \A x \in 1..n : n - x \in Nat
    OBVIOUS
  <2> QED
    BY <2>1, <2>2
<1>2. Min(Below) \in Below /\ \A y \in Below : Min(Below) <= y
  BY <1>1, NatMin
<1>3. PICK m \in S : \A x \in S : n - m <= n - x
  BY <1>2
<1>4. \E y \in S : \A x \in S : y >= x
  BY <1>3
<1>5. Max(S) = CHOOSE y \in S : \A x \in S : y >= x
  BY DEF Max
<1> QED
  BY <1>4, <1>5, Zenon

\* Nothing but a goal or a red card moves the odds by more than 4%, and rounding
\* adds less than 1% to odds of 1.01 or more.
LEMMA SmallFactor ==
  ASSUME NEW ge \in GameEvent, ge.type \notin {"GOAL", "RED_CARD"},
         NEW marketType, NEW name, NEW j \in Jitters
  PROVE  Factor(ge, marketType, name, j) \in 1920..2080
<1>1. j \in -20..20
  BY JitterAssumption
<1>2. 2000 + 4 * j \in 1920..2080 /\ 2000 + 3 * j \in 1920..2080
  BY <1>1
<1>3. ge.type \in {"YELLOW_CARD", "HALFTIME", "SECOND_HALF", "FULL_TIME"}
  BY DEF GameEvent, GameEventTypes
<1>4. Percent(100) = 2000
  BY DEF Percent
<1> QED
  BY <1>2, <1>3, <1>4 DEF Factor

LEMMA Quotient ==
  ASSUME NEW d \in Nat, d > 0, NEW k \in Nat, NEW n \in Nat, n <= k * d
  PROVE  n \div d <= k
<1> DEFINE q == n \div d
<1>1. q \in Nat /\ d * q <= n
  OBVIOUS
<1> HIDE DEF q
<1>2. \A x \in Nat : x > k => d * x > k * d
  OBVIOUS
<1> QED
  BY <1>1, <1>2 DEF q

LEMMA SmallMove ==
  ASSUME NEW odds \in OfferableOdds, NEW factor \in 1920..2080
  PROVE  Change(odds, Recalculated(odds, factor)) <= velocityThreshold
<1> DEFINE n == odds * factor
           r == (n + 1000) \div 2000
           new == Recalculated(odds, factor)
           moved == IF new >= odds THEN new - odds ELSE odds - new
<1>1. odds \in Nat /\ odds >= 101
  BY Offerable DEF LowestOdds
<1>2. n \in Nat /\ 1920 * odds <= n /\ n <= 2080 * odds
  BY <1>1
<1>3. new = IF r < 101 THEN 101 ELSE r
  BY DEF Recalculated, Rounded, LowestOdds
<1> HIDE DEF n, new
<1>4. r \in Int /\ 2000 * r <= n + 1000 /\ n + 1000 < 2000 * r + 2000
  BY <1>2
<1> HIDE DEF r
<1>5. moved \in Nat /\ 2000 * moved <= 80 * odds + 1000
  BY <1>1, <1>2, <1>3, <1>4
<1>6. Change(odds, new) = (10000 * moved + odds \div 2) \div odds
  BY DEF Change
<1> HIDE DEF moved
<1>7. odds \div 2 \in Nat /\ odds \div 2 <= odds
  BY <1>1
<1>8. 10000 * moved + odds \div 2 \in Nat /\ 10000 * moved + odds \div 2 <= 2000 * odds
  BY <1>1, <1>5, <1>7
<1>9. (10000 * moved + odds \div 2) \div odds <= 2000
  BY <1>1, <1>8, Quotient
<1> QED
  BY <1>6, <1>9 DEF new, velocityThreshold

LEMMA PushedSmall ==
  ASSUME NEW changes \in Seq(Nat), \A i \in 1..Len(changes) : changes[i] <= velocityThreshold,
         NEW change \in Nat, change <= velocityThreshold
  PROVE  \A i \in 1..Len(Pushed(changes, change)) : Pushed(changes, change)[i] <= velocityThreshold
<1> DEFINE longer == <<change>> \o changes
           kept == Min({Len(changes) + 1, HistoryLength})
<1>1. /\ longer \in Seq(Nat) /\ Len(longer) = Len(changes) + 1 /\ Len(changes) \in Nat
      /\ \A i \in 1..Len(longer) : longer[i] <= velocityThreshold
  BY ConcatProperties, LenProperties
<1>2. kept \in Nat /\ kept <= Len(longer) /\ kept >= 1
  <2>1. /\ {Len(changes) + 1, HistoryLength} \in SUBSET Nat
        /\ {Len(changes) + 1, HistoryLength} # {}
    BY <1>1, HistoryLengthAssumption
  <2>2. kept \in {Len(changes) + 1, HistoryLength} /\ kept <= Len(changes) + 1
    BY <2>1, NatMin
  <2> QED
    BY <1>1, <2>2, HistoryLengthAssumption
<1> HIDE DEF longer, kept
<1>3. \A i \in 1..kept : longer[i] \in Nat
  BY <1>1, <1>2, ElementOfSeq
<1>4. /\ Len(SubSeq(longer, 1, kept)) = kept
      /\ \A i \in 1..kept : SubSeq(longer, 1, kept)[i] = longer[i]
  BY <1>2, <1>3, SubSeqProperties
<1> QED
  BY <1>1, <1>2, <1>4 DEF Pushed, longer, kept

\* The average of small changes is small, however many there are.
LEMMA SmallChanges ==
  ASSUME NEW changes \in Seq(Nat), \A i \in 1..Len(changes) : changes[i] <= velocityThreshold
  PROVE  ~Volatile(changes)
<1> DEFINE S == DOMAIN changes
           total == FoldLeft(LAMBDA sum, change : sum + change, 0, changes)
           FoldsUp(fold) == fold = [s \in SUBSET S |->
             IF s = {} THEN 0 ELSE fold[s \ {Max(s)}] + changes[Max(s)]]
           Latest == [s \in SUBSET Nat |-> Max(s)]
           folded == CHOOSE fold : FoldsUp(fold)
<1>0. /\ S = 1..Len(changes) /\ Len(changes) \in Nat /\ S \in SUBSET Nat
      /\ \A i \in S : changes[i] \in Int
      /\ \A i \in S : changes[i] \in 0..velocityThreshold
      /\ IsFiniteSet(S) /\ Cardinality(S) = Len(changes)
  <2>1. S = 1..Len(changes) /\ Len(changes) \in Nat
    BY LenProperties
  <2> HIDE DEF S, total, folded, Latest
  <2>2. IsFiniteSet(1..Len(changes)) /\ Cardinality(1..Len(changes)) = Len(changes)
    <3>1. \A n \in Nat : IsFiniteSet(1..n) /\ Cardinality(1..n) = n
      BY FS_Interval
    <3> QED
      BY <2>1, <3>1
  <2>3. \A i \in 1..Len(changes) : changes[i] \in Nat /\ changes[i] <= velocityThreshold
    BY ElementOfSeq
  <2>4. ASSUME NEW i \in S PROVE changes[i] \in Int /\ changes[i] \in 0..velocityThreshold
    <3>1. changes[i] \in Nat /\ changes[i] <= velocityThreshold
      BY <2>1, <2>3
    <3>2. velocityThreshold \in Nat
      BY DEF velocityThreshold
    <3> QED
      BY <3>1, <3>2
  <2>5. S \in SUBSET Nat /\ IsFiniteSet(S) /\ Cardinality(S) = Len(changes)
    BY <2>1, <2>2
  <2> QED
    BY <2>1, <2>4, <2>5
<1>1. total = folded[S]
  BY Zenon DEF FoldLeft, MapThenFoldSet
<1> HIDE DEF S, total, folded
<1>2. \A s \in SUBSET S : Latest[s] = Max(s) /\ (s # {} => Max(s) \in s)
  BY <1>0, NatMax
<1> HIDE DEF Latest
<1>3. Picks(Latest, S)
  BY <1>2 DEF Picks
<1>4. PICK sum : SumsUp(sum, changes, Latest, S) /\ Sum(changes, Latest, S) = sum[S]
  BY <1>0, <1>3, SumAddsUp
<1>5. ASSUME NEW s \in SUBSET S PROVE sum[s] \in Int
  BY <1>0, <1>3, <1>4, SumType
<1>6. FoldsUp(sum)
  <2>1. sum = [s \in SUBSET S |->
                 IF s = {} THEN 0 ELSE changes[Latest[s]] + sum[s \ {Latest[s]}]]
    BY <1>4 DEF SumsUp
  <2>2. ASSUME NEW s \in SUBSET S, s # {}
        PROVE  changes[Latest[s]] + sum[s \ {Latest[s]}] = sum[s \ {Max(s)}] + changes[Max(s)]
    <3>1. Latest[s] = Max(s) /\ changes[Max(s)] \in Int /\ s \ {Max(s)} \in SUBSET S
      BY <1>0, <1>2, <2>2
    <3> QED
      BY <1>5, <3>1
  <2> QED
    BY <2>1, <2>2
<1> HIDE DEF FoldsUp
<1>7. FoldsUp(folded)
  BY <1>6, Zenon DEF folded
\* One function only folds up.
<1>8. folded[S] = sum[S]
  <2> DEFINE Bad == {t \in SUBSET S : folded[t] # sum[t]}
  <2>1. Bad \in SUBSET (SUBSET S) /\ (S \in Bad \/ folded[S] = sum[S])
    OBVIOUS
  <2>2. ASSUME NEW t \in Bad, \A u \in Bad : u \subseteq t => u = t PROVE FALSE
    <3>1. t \in SUBSET S /\ folded[t] # sum[t] /\ \A u \in SUBSET t : u # t => folded[u] = sum[u]
      BY <2>2
    <3> HIDE DEF Bad
    <3>2. t # {} => /\ sum[t] = sum[t \ {Max(t)}] + changes[Max(t)]
                    /\ folded[t] = folded[t \ {Max(t)}] + changes[Max(t)]
      BY <1>6, <1>7, <3>1 DEF FoldsUp
    <3>3. t = {} => sum[t] = 0 /\ folded[t] = 0
      BY <1>6, <1>7, <3>1 DEF FoldsUp
    <3>4. t # {} => t \ {Max(t)} \in SUBSET t /\ t \ {Max(t)} # t
      BY <1>2, <3>1
    <3> QED
      BY <3>1, <3>2, <3>3, <3>4
  <2> HIDE DEF Bad
  <2>3. IsFiniteSet(S)
    BY <1>0
  <2>4. Bad # {} => \E t \in Bad : \A s \in Bad : s \subseteq t => s = t
    BY <2>1, <2>3, SmallestSet
  <2> QED
    BY <2>1, <2>2, <2>4
<1>9. Sum(changes, Latest, S) <= velocityThreshold * Len(changes)
  <2>1. velocityThreshold \in Nat
    BY DEF velocityThreshold
  <2>2. Sum(changes, Latest, S) <= velocityThreshold * Cardinality(S)
    BY <1>0, <1>3, <2>1, SumIsBounded
  <2> QED
    BY <1>0, <2>2
<1>10. total \in Int /\ total <= velocityThreshold * Len(changes)
  <2>1. S \in SUBSET S
    OBVIOUS
  <2> QED
    BY <1>1, <1>4, <1>5, <1>8, <1>9, <2>1
<1>11. Len(changes) \in Nat /\ velocityThreshold * Len(changes) \in Nat
  BY <1>0 DEF velocityThreshold
<1>12. ~(total > velocityThreshold * Len(changes))
  BY <1>10, <1>11
<1> QED
  BY <1>12 DEF Volatile, total

\* As long as no goal and no red card was published, every update on the topic and
\* every change in the history is small, and no market is being suspended.
Calm ==
  \A p \in GamePartitions : \A i \in DOMAIN gameLog[p] :
    gameLog[p][i].type \notin {"GOAL", "RED_CARD"}
SmallUpdates ==
  \A p \in OddsPartitions : \A i \in 1..Len(oddsLog[p]) :
    Change(oddsLog[p][i].old, oddsLog[p][i].new) <= velocityThreshold
SmallHistory ==
  \A o \in Outcomes : \A i \in 1..Len(history[o]) : history[o][i] <= velocityThreshold
NothingSuspended ==
  /\ \A u \in Updaters : oddsPc[u] \notin {"suspend", "notify"}
  /\ suspended = {}
  /\ \A m \in Markets : notices[m] = 0

QuietInv == Calm => SmallUpdates /\ SmallHistory /\ NothingSuspended

LEMMA CalmBefore ==
  ASSUME TypeOK, [Next]_vars, Calm'
  PROVE  Calm
<1>1. GameTyped /\ GameTyped' /\ GameSteps
  BY StepParts, TypeParts DEF TypeOK, OddsTypeOK, GameTyped
<1>2. \A p \in GamePartitions : /\ DOMAIN gameLog[p] = 1..Len(gameLog[p])
                               /\ DOMAIN gameLog'[p] = 1..Len(gameLog'[p])
  BY <1>1, LenProperties DEF GameTyped, GameReader!ConsumerTypeOK
<1> SUFFICES ASSUME NEW p \in GamePartitions, NEW i \in 1..Len(gameLog[p])
             PROVE  gameLog[p][i].type \notin {"GOAL", "RED_CARD"}
  BY <1>2 DEF Calm
<1>3. i \in 1..Len(gameLog'[p]) /\ gameLog'[p][i] = gameLog[p][i]
  BY <1>1, GameLogGrows
<1> QED
  BY <1>2, <1>3 DEF Calm

LEMMA SmallUpdatesStep ==
  ASSUME TypeOK, [Next]_vars, Calm, SmallUpdates
  PROVE  SmallUpdates'
<1>1. ASSUME NEW e \in Engines, PublishOdds(e) PROVE SmallUpdates'
  <2>1. PICK update \in OddsUpdate :
          /\ update.old = oldOdds[e] /\ Moved(e, update)
          /\ \A p \in OddsPartitions : \A i \in 1..Len(oddsLog'[p]) :
               \/ i \in 1..Len(oddsLog[p]) /\ oddsLog'[p][i] = oddsLog[p][i]
               \/ oddsLog'[p][i] = update
    BY <1>1, NewUpdates
  <2>2. gamePc[e] # "fetch" /\ GameTyped
    BY <1>1, TypeParts DEF PublishOdds
  <2>3. Happened(e) \in GameEvent
    BY <2>2, HappenedTypes
  <2>4. Happened(e).type \notin {"GOAL", "RED_CARD"}
    <3>1. /\ gameAt[e][1] \in GamePartitions
          /\ gameAt[e][2] \in 1..Len(gameLog[gameAt[e][1]])
          /\ gameLog[gameAt[e][1]] \in Seq(GameEvent)
      BY <2>2 DEF GameTyped, GameReader!ConsumerTypeOK
    <3>2. gameAt[e][2] \in DOMAIN gameLog[gameAt[e][1]]
      BY <3>1, LenProperties
    <3> QED
      BY <3>1, <3>2 DEF Calm, Happened, GameReader!Current
  <2>5. PICK factor \in 1920..2080 : update.new = Recalculated(update.old, factor)
    <3>1. PICK j \in Jitters : update.new = Recalculated(update.old,
            Factor(Happened(e), MarketType[MarketOf[Outcome(e)]], Name[Outcome(e)], j))
      BY <2>1, Zenon DEF Moved
    <3>2. \A marketType, name : Factor(Happened(e), marketType, name, j) \in 1920..2080
      BY <2>3, <2>4, SmallFactor
    <3> QED
      BY <3>1, <3>2
  <2>6. update.old \in OfferableOdds
    BY DEF OddsUpdate
  <2>7. Change(update.old, update.new) <= velocityThreshold
    BY <2>5, <2>6, SmallMove
  <2> QED
    BY <2>1, <2>7 DEF SmallUpdates
<1> QED
  BY <1>1, TopicSteps DEF SmallUpdates

LEMMA SmallHistoryStep ==
  ASSUME TypeOK, [Next]_vars, SmallUpdates, SmallHistory
  PROVE  SmallHistory'
<1>0. OddsTyped /\ history \in [Outcomes -> Seq(Nat)]
  BY TypeParts DEF BoardTypeOK
<1>1. ASSUME NEW u \in Updaters, PushOddsHistory(u) PROVE SmallHistory'
  <2> DEFINE update == Updated(u)
             change == Change(update.old, update.new)
  <2>1. oddsPc[u] # "fetch"
    BY <1>1 DEF PushOddsHistory
  <2>2. /\ update.outcome \in Outcomes
        /\ update.old \in OfferableOdds /\ update.new \in OfferableOdds
    BY <1>0, <2>1, UpdatedTypes
  <2>3. change <= velocityThreshold
    BY <1>0, <2>1 DEF SmallUpdates, OddsTyped, OddsReader!ConsumerTypeOK, Updated,
                      OddsReader!Current
  <2>4. change \in Nat
    BY <2>2, ChangeTypes
  <2>5. PICK times \in 0..2 : Push(update, times)
    BY <1>1 DEF PushOddsHistory
  <2> HIDE DEF change
  <2> DEFINE Small(changes) == /\ changes \in Seq(Nat)
                               /\ \A i \in 1..Len(changes) : changes[i] <= velocityThreshold
             old == history[update.outcome]
             once == Pushed(old, change)
             twice == Pushed(once, change)
  <2>6. Small(old)
    BY <1>0, <2>2 DEF SmallHistory
  <2>7. \A changes : Small(changes) => Small(Pushed(changes, change))
    BY <2>3, <2>4, PushedTypes, PushedSmall
  <2> HIDE DEF Small
  <2>8. Small(once) /\ Small(twice)
    BY <2>6, <2>7
  <2>9. /\ history' = [history EXCEPT ![update.outcome] = history'[update.outcome]]
        /\ history'[update.outcome] \in {old, once, twice}
    <3>1. \E changes \in {old, once, twice} :
            history' = [history EXCEPT ![update.outcome] = changes]
      <4> HIDE DEF update
      <4>1. CASE times = 0
        BY <2>5, <4>1 DEF Push
      <4>2. CASE times = 1
        BY <2>5, <4>2 DEF Push, change
      <4>3. CASE times = 2
        BY <2>5, <4>3 DEF Push, change
      <4> QED
        BY <4>1, <4>2, <4>3
    <3> HIDE DEF update, old, once, twice
    <3> QED
      BY <1>0, <2>2, <3>1
  <2> HIDE DEF update, old, once, twice
  <2>10. Small(history'[update.outcome])
    BY <2>6, <2>8, <2>9
  <2> QED
    BY <1>0, <2>9, <2>10 DEF SmallHistory, Small
<1>2. CASE UNCHANGED history
  BY <1>2 DEF SmallHistory
<1> QED
  BY <1>1, <1>2, HistorySteps

LEMMA NothingSuspendedStep ==
  ASSUME TypeOK, [Next]_vars, SmallHistory, NothingSuspended
  PROVE  NothingSuspended'
<1>0. /\ OddsTyped /\ history \in [Outcomes -> Seq(Nat)] /\ OddsSteps
      /\ oddsPc \in [Updaters -> UpdaterLabels \cup {"fetch", "commit"}]
  BY TypeParts, StepParts DEF BoardTypeOK
<1>1. \A u \in Updaters : ~Suspend(u) /\ ~PublishMarketSuspended(u)
  BY DEF NothingSuspended, Suspend, PublishMarketSuspended
<1> DEFINE Idle == \A u \in Updaters : oddsPc[u] \notin {"suspend", "notify"}
           Open == suspended = {} /\ \A m \in Markets : notices[m] = 0
<1>2. ASSUME NEW u \in Updaters, GetOddsVelocity(u) PROVE OddsReader!ReturnNil(u)
  <2>1. Updated(u).outcome \in Outcomes
    BY <1>0, <1>2, UpdatedTypes DEF GetOddsVelocity
  <2>2. ~Volatile(history[Updated(u).outcome])
    BY <1>0, <2>1, SmallChanges DEF SmallHistory
  <2> QED
    BY <1>2, <2>2 DEF GetOddsVelocity
<1>3. ASSUME NEW u \in Updaters, UpdaterLoop(u) \/ CrashUpdater(u) PROVE Idle' /\ Open'
  <2>1. Idle /\ Open
    BY DEF NothingSuspended
  <2>2. Open'
    BY <1>1, <1>3, <2>1 DEF UpdaterLoop, CrashUpdater, HandleOddsUpdated, SetOdds,
           PushOddsHistory, GetOddsVelocity, board
  <2>3. \E label \in {"fetch", "set", "push", "velocity", "commit"} :
          oddsPc' = [oddsPc EXCEPT ![u] = label]
    <3>1. CASE SetOdds(u)
      BY <3>1 DEF SetOdds, OddsReader!Goto, OddsReader!ReturnError
    <3>2. CASE PushOddsHistory(u)
      BY <3>2 DEF PushOddsHistory, OddsReader!Goto
    <3>3. CASE GetOddsVelocity(u)
      BY <1>2, <3>3 DEF OddsReader!ReturnNil, OddsReader!Goto
    <3>4. CASE OddsReader!Fetch(u)
      BY <3>4 DEF OddsReader!Fetch
    <3>5. CASE OddsReader!Commit(u, TRUE) \/ OddsReader!Commit(u, FALSE)
      BY <3>5 DEF OddsReader!Commit
    <3>6. CASE CrashUpdater(u)
      BY <3>6 DEF CrashUpdater, OddsReader!Crash
    <3> QED
      BY <1>1, <1>3, <3>1, <3>2, <3>3, <3>4, <3>5, <3>6 DEF UpdaterLoop, HandleOddsUpdated
  <2>4. Idle'
    BY <1>0, <2>1, <2>3
  <2> QED
    BY <2>2, <2>4
<1>4. ASSUME NEW e \in Engines, EngineLoop(e) \/ CrashEngine(e) PROVE Idle' /\ Open'
  BY <1>4 DEF EngineLoop, HandleGameEvent, FindEvent, ReadOdds, PublishOdds, AllPublished,
              EngineFrame, CrashEngine, oddsReader, board, NothingSuspended
<1>5. ASSUME \/ \E match \in Matches :
                  \/ \E type \in GameEventTypes, team \in FedTeams : PlayMatch(match, type, team)
                  \/ UpdateEventStatus(match)
             \/ CrashFeed
             \/ \E m \in Markets : MarketSettled(m) \/ SuspensionLapses(m)
             \/ \E o \in Outcomes : OddsExpire(o)
             \/ RebalanceEngines \/ RebalanceUpdaters \/ UNCHANGED vars
      PROVE  Idle' /\ Open'
  BY <1>5 DEF PlayMatch, UpdateEventStatus, CrashFeed, FeedFrame, MarketSettled,
              SuspensionLapses, OddsExpire, RebalanceEngines, RebalanceUpdaters,
              OddsReader!Rebalance, oddsReader, board, vars, NothingSuspended
<1> QED
  BY <1>3, <1>4, <1>5 DEF Next, NothingSuspended

LEMMA QuietInit == OddsInit => QuietInv
<1> SUFFICES ASSUME OddsInit PROVE SmallUpdates /\ SmallHistory /\ NothingSuspended
  BY DEF QuietInv
<1> QED
  BY DEF OddsInit, OddsReader!ConsumerInit, SmallUpdates, SmallHistory, NothingSuspended

LEMMA QuietInvStep == TypeOK /\ QuietInv /\ [Next]_vars => QuietInv'
<1> SUFFICES ASSUME TypeOK, QuietInv, [Next]_vars, Calm'
             PROVE  SmallUpdates' /\ SmallHistory' /\ NothingSuspended'
  BY DEF QuietInv
<1>1. Calm /\ SmallUpdates /\ SmallHistory /\ NothingSuspended
  BY CalmBefore DEF QuietInv
<1> QED
  BY <1>1, SmallUpdatesStep, SmallHistoryStep, NothingSuspendedStep

\* Whistles and yellow cards never suspend a market, however many there are, however
\* the jitter falls, however often an update is delivered or computed from stale
\* odds, and however short the history is.
THEOREM QuietMarketsAreOpen == Spec => []QuietMarketsStayOpen
<1>1. QuietInv => QuietMarketsStayOpen
  BY DEF QuietInv, Calm, NothingSuspended, QuietMarketsStayOpen
<1> QED
  BY <1>1, PipelineTypes, QuietInit, QuietInvStep, PTL DEF Spec
=============================================================================
