------------------------------- MODULE DataFeed -------------------------------
(***************************************************************************)
(* cmd/data-feed-simulator: a single process that keeps, for every match   *)
(* it has come across, the minute and the score in memory, and publishes   *)
(* on game.events what happens next in some match that is LIVE.            *)
(*                                                                         *)
(* The minute only decides the type of the event, so it is abstracted to   *)
(* the phase of the match: minutes 1 to 44, 45, 46, 47 to 89, and 90.      *)
(***************************************************************************)
EXTENDS OddsStore

CONSTANTS FedTypes,   \* the types drawn when the minute does not decide
          FedTeams,   \* the teams drawn
          MaxEvents   \* bound on the length of a partition of game.events

ASSUME FeedAssumption ==
  /\ FedTypes \subseteq {"GOAL", "YELLOW_CARD", "RED_CARD"}
  /\ FedTeams \subseteq Teams
  /\ MaxEvents \in Nat

FeedFrame == UNCHANGED <<gameCommitted, gamePos, gameOwner, gameAt, gamePc, oddsReader,
                         board, open, notices, engineLocals>>

\* Mutant of NextPhases: the state is not kept, each event starts a new match.
PhasesOfNewMatch(now) == {"first", "half", "restart", "second"}

\* Where 1 to 5 more minutes lead, minute 90 being the last.
NextPhases(now) ==
  CASE now = "first"   -> {"first", "half", "restart", "second"}
    [] now = "half"    -> {"restart", "second"}
    [] now = "restart" -> {"second"}
    [] now = "second"  -> {"second", "full"}
    [] now = "full"    -> {"full"}

\* What may happen in a phase.
TypesIn(now) == CASE now = "half"    -> {"HALFTIME"}
                  [] now = "restart" -> {"SECOND_HALF"}
                  [] now = "full"    -> {"FULL_TIME"}
                  [] OTHER           -> FedTypes

\* Mutant of IsScored: every event of open play counts.
EveryEventScores(type) == TRUE

\* Which events change the score.
IsScored(type) == type = "GOAL"

\* One round of the loop: an event of a live match, under the match's key.  The
\* state has moved on by then, and stays so when the publication fails.
PlayMatch(match, type, team) ==
  LET p == GamePartition[match]
      ge == [match |-> match, type |-> type, team |-> team]
  IN
  /\ match \in live
  /\ \E now \in NextPhases(phase[match]) :
       /\ type \in TypesIn(now)
       /\ phase' = [phase EXCEPT ![match] = now]
  /\ score' = IF IsScored(type) THEN [score EXCEPT ![match] = @ + 1] ELSE score
  /\ \E n \in 0..2, answered \in BOOLEAN :
       /\ Written(n, answered)
       /\ Len(gameLog[p]) + n <= MaxEvents
       /\ GameReader!Produce(p, Copies(n, ge))
  /\ UNCHANGED <<live, restarts>>
  /\ FeedFrame

\* The simulator dies and is started again: every match starts over.
CrashFeed ==
  /\ "crash" \in Env
  /\ Fault
  /\ phase' = [match \in Matches |-> "first"]
  /\ score' = [match \in Matches |-> 0]
  /\ restarts' = restarts + 1
  /\ UNCHANGED <<gameLog, live>>
  /\ FeedFrame

\* POST /admin/event-status: a match becomes LIVE, or is not LIVE any more.
UpdateEventStatus(match) ==
  /\ "status" \in Env
  /\ live' \in {live \cup {match}, live \ {match}}
  /\ UNCHANGED <<gameLog, phase, score, restarts, faults>>
  /\ FeedFrame
=============================================================================
