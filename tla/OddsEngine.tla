------------------------------ MODULE OddsEngine ------------------------------
(***************************************************************************)
(* HandleGameEvent: for every outcome of the match's open markets, read    *)
(* the odds of the cache and publish recalculated ones.  The new odds      *)
(* reach the cache only through the topic and the odds-consumer.           *)
(***************************************************************************)
EXTENDS OddsStore

CONSTANT Jitters   \* samples of rand's +/- 2%, in thousandths

ASSUME JitterAssumption == Jitters \subseteq (-20)..20

\* The game event engine e has in hand, and the outcome it has come to.
Happened(e) == GameReader!Current(e)
Outcome(e) == OutcomesOf[Happened(e).match][Min(todo[e])]

EngineFrame == UNCHANGED <<board, open, notices, feed>>

\* The outcomes of the match's open markets, by their places in OutcomesOf.
OpenOutcomes(match) ==
  {i \in DOMAIN OutcomesOf[match] : MarketOf[OutcomesOf[match][i]] \in open}

\* events.FindByID: an error drops the message.
FindEvent(e) ==
  /\ gamePc[e] = "find"
  /\ \/ /\ todo' = [todo EXCEPT ![e] = OpenOutcomes(Happened(e).match)]
        /\ CallOK /\ GameReader!Goto(e, "read")
     \/ CallFails /\ GameReader!ReturnNil(e) /\ UNCHANGED todo
  /\ UNCHANGED <<oddsReader, oldOdds>>
  /\ EngineFrame

\* odds.GetOdds: without an answer the engine starts from the initial odds.
OrInitial(o, odds) == IF odds = 0 THEN InitialOdds[o] ELSE odds
ReadOdds(e) ==
  LET o == Outcome(e) IN
  /\ gamePc[e] = "read"
  /\ todo[e] # {}
  /\ \/ oldOdds' = [oldOdds EXCEPT ![e] = OrInitial(o, cachedOdds[o])] /\ CallOK
     \/ oldOdds' = [oldOdds EXCEPT ![e] = InitialOdds[o]] /\ CallFails
  /\ GameReader!Goto(e, "publish")
  /\ UNCHANGED <<oddsReader, todo>>
  /\ EngineFrame

\* PublishOddsUpdated: an error is logged and the loop goes on.
PublishOdds(e) ==
  LET o == Outcome(e)
      ge == Happened(e)
      NewOdds(j) == Recalculated(oldOdds[e], Factor(ge, MarketType[MarketOf[o]], Name[o], j))
      Update(j) == [outcome |-> o, old |-> oldOdds[e], new |-> NewOdds(j),
                    trigger |-> ge.type]
  IN
  /\ gamePc[e] = "publish"
  /\ \E j \in Jitters, n \in 0..2, answered \in BOOLEAN :
       /\ Written(n, answered)
       /\ OddsReader!Produce(OddsPartition[o], Copies(n, Update(j)))
  /\ todo' = [todo EXCEPT ![e] = @ \ {Min(@)}]
  /\ oldOdds' = [oldOdds EXCEPT ![e] = 0]
  /\ GameReader!Goto(e, "read")
  /\ UNCHANGED <<oddsCommitted, oddsPos, oddsOwner, oddsAt, oddsPc>>
  /\ EngineFrame

\* Every outcome has been recalculated: the handler returns nil.
AllPublished(e) ==
  /\ gamePc[e] = "read"
  /\ todo[e] = {}
  /\ GameReader!ReturnNil(e)
  /\ CallOK
  /\ UNCHANGED <<oddsReader, engineLocals>>
  /\ EngineFrame

HandleGameEvent(e) == FindEvent(e) \/ ReadOdds(e) \/ PublishOdds(e) \/ AllPublished(e)

\* The consumer loop of cmd/odds-engine around the handler.
EngineLoop(e) ==
  \/ HandleGameEvent(e)
  \/ /\ \/ GameReader!Fetch(e) /\ CallOK
        \/ GameReader!Commit(e, TRUE) /\ CallOK
        \/ GameReader!Commit(e, FALSE) /\ CallFails
     /\ UNCHANGED <<oddsReader, engineLocals>>
     /\ EngineFrame
=============================================================================
