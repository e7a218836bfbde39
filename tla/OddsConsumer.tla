----------------------------- MODULE OddsConsumer -----------------------------
(***************************************************************************)
(* HandleOddsUpdated: write the odds to the cache, remember how much they  *)
(* moved, and suspend the market when the outcome has become volatile.     *)
(***************************************************************************)
EXTENDS OddsStore

\* The update odds-consumer u has in hand, and its market.
Updated(u) == OddsReader!Current(u)
UpdatedMarket(u) == MarketOf[Updated(u).outcome]

UpdaterFrame == UNCHANGED <<gameReader, engineLocals, open, feed>>

\* Mutant of SetOddsOf: the key names the market, not the outcome.
SetOddsOfMarket(update) ==
  cachedOdds' = [o \in Outcomes |->
                   IF MarketOf[o] = MarketOf[update.outcome] THEN update.new ELSE cachedOdds[o]]

\* SET odds:<outcome>, for 5 minutes.
SetOddsOf(update) == cachedOdds' = [cachedOdds EXCEPT ![update.outcome] = update.new]

SetOdds(u) ==
  /\ oddsPc[u] = "set"
  /\ \/ SetOddsOf(Updated(u)) /\ CallOK /\ OddsReader!Goto(u, "push")
     \/ /\ UNCHANGED cachedOdds \/ SetOddsOf(Updated(u))
        /\ CallFails /\ OddsReader!ReturnError(u)
  /\ UNCHANGED <<history, suspended, notices>>
  /\ UpdaterFrame

\* An error is logged and the handler goes on; on an I/O error the client sends
\* the pipeline again, which may then push twice.
Push(update, times) ==
  LET change == Change(update.old, update.new)
      Once(changes) == Pushed(changes, change)
      After(changes) == CASE times = 0 -> changes
                          [] times = 1 -> Once(changes)
                          [] times = 2 -> Once(Once(changes))
  IN history' = [history EXCEPT ![update.outcome] = After(@)]

PushOddsHistory(u) ==
  /\ oddsPc[u] = "push"
  /\ \/ Push(Updated(u), 1) /\ CallOK
     \/ \E times \in 0..2 : Push(Updated(u), times) /\ CallFails
  /\ OddsReader!Goto(u, "velocity")
  /\ UNCHANGED <<cachedOdds, suspended, notices>>
  /\ UpdaterFrame

GetOddsVelocity(u) ==
  /\ oddsPc[u] = "velocity"
  /\ \/ /\ Volatile(history[Updated(u).outcome])
        /\ CallOK /\ OddsReader!Goto(u, "suspend")
     \/ /\ ~Volatile(history[Updated(u).outcome])
        /\ CallOK /\ OddsReader!ReturnNil(u)
     \/ CallFails /\ OddsReader!ReturnNil(u)
  /\ UNCHANGED <<board, notices>>
  /\ UpdaterFrame

\* SET market_suspended:<market>, for 30 seconds; an error is logged and the
\* suspension announced all the same.
Suspend(u) ==
  /\ oddsPc[u] = "suspend"
  /\ \/ suspended' = suspended \cup {UpdatedMarket(u)} /\ CallOK
     \/ suspended' \in {suspended, suspended \cup {UpdatedMarket(u)}} /\ CallFails
  /\ OddsReader!Goto(u, "notify")
  /\ UNCHANGED <<cachedOdds, history, notices>>
  /\ UpdaterFrame

PublishMarketSuspended(u) ==
  /\ oddsPc[u] = "notify"
  /\ \E n \in 0..2, answered \in BOOLEAN :
       /\ Written(n, answered)
       /\ notices' = [notices EXCEPT ![UpdatedMarket(u)] = @ + n]
  /\ OddsReader!ReturnNil(u)
  /\ UNCHANGED board
  /\ UpdaterFrame

HandleOddsUpdated(u) ==
  \/ SetOdds(u) \/ PushOddsHistory(u) \/ GetOddsVelocity(u) \/ Suspend(u)
  \/ PublishMarketSuspended(u)

\* The consumer loop of cmd/odds-consumer around the handler.
UpdaterLoop(u) ==
  \/ HandleOddsUpdated(u)
  \/ /\ \/ OddsReader!Fetch(u) /\ CallOK
        \/ OddsReader!Commit(u, TRUE) /\ CallOK
        \/ OddsReader!Commit(u, FALSE) /\ CallFails
     /\ UNCHANGED <<board, notices>>
     /\ UpdaterFrame
=============================================================================
