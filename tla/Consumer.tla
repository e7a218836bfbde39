------------------------------ MODULE Consumer ------------------------------
(***************************************************************************)
(* A Kafka topic read by the members of one consumer group, as             *)
(* internal/kafka/consumer.go drives it: fetch a message, run the handler, *)
(* commit the offset only when the handler returned nil, and go on with    *)
(* the NEXT message either way.                                            *)
(*                                                                         *)
(* The module is a library of actions: a component INSTANCEs it once per   *)
(* topic, adds the steps of its handler between "Entry" and the two ways   *)
(* of returning, and says what else a step leaves unchanged.               *)
(***************************************************************************)
EXTENDS Naturals, Sequences

CONSTANTS Replicas,     \* the processes that run the consumer
          Partitions,   \* the partitions of the topic
          Entry,        \* the label of the handler's first step
          NoMessage     \* "no message in hand"

VARIABLES log,          \* log[p]: the messages of partition p, oldest first
          committed,    \* committed[p]: how many of them the group committed
          pos,          \* pos[p]: how many the owner of p has fetched
          owner,        \* owner[p]: the replica p is assigned to
          at,           \* at[r]: <<partition, index>> in hand, or NoMessage
          pc            \* pc[r]: "fetch", a label of the handler, "commit"

consumerVars == <<log, committed, pos, owner, at, pc>>

ConsumerInit ==
  /\ log = [p \in Partitions |-> <<>>]
  /\ committed = [p \in Partitions |-> 0]
  /\ pos = [p \in Partitions |-> 0]
  /\ owner \in [Partitions -> Replicas]
  /\ at = [r \in Replicas |-> NoMessage]
  /\ pc = [r \in Replicas |-> "fetch"]

\* The message replica r has in hand.
Current(r) == log[at[r][1]][at[r][2]]

\* A producer appends the batch ms to partition p.
Produce(p, ms) == log' = [log EXCEPT ![p] = @ \o ms]

\* Mutants of Fetch: the position stays; reader.ReadMessage, which commits what it
\* hands out.
FetchAgain(r) ==
  /\ pc[r] = "fetch"
  /\ \E p \in Partitions :
       /\ owner[p] = r
       /\ pos[p] < Len(log[p])
       /\ at' = [at EXCEPT ![r] = <<p, pos[p] + 1>>]
  /\ pc' = [pc EXCEPT ![r] = Entry]
  /\ UNCHANGED <<log, committed, pos, owner>>
FetchAndCommit(r) ==
  /\ pc[r] = "fetch"
  /\ \E p \in Partitions :
       /\ owner[p] = r
       /\ pos[p] < Len(log[p])
       /\ at' = [at EXCEPT ![r] = <<p, pos[p] + 1>>]
       /\ pos' = [pos EXCEPT ![p] = @ + 1]
       /\ committed' = [committed EXCEPT ![p] = pos[p] + 1]
  /\ pc' = [pc EXCEPT ![r] = Entry]
  /\ UNCHANGED <<log, owner>>

\* reader.FetchMessage: the next message of some partition r owns.
Fetch(r) ==
  /\ pc[r] = "fetch"
  /\ \E p \in Partitions :
       /\ owner[p] = r
       /\ pos[p] < Len(log[p])
       /\ at' = [at EXCEPT ![r] = <<p, pos[p] + 1>>]
       /\ pos' = [pos EXCEPT ![p] = @ + 1]
  /\ pc' = [pc EXCEPT ![r] = Entry]
  /\ UNCHANGED <<log, committed, owner>>

\* A step of the handler that does not return.
Goto(r, label) ==
  /\ pc' = [pc EXCEPT ![r] = label]
  /\ UNCHANGED <<log, committed, pos, owner, at>>

\* The handler returns nil: the offset is about to be committed.
ReturnNil(r) == Goto(r, "commit")

\* The handler returns an error: the loop logs it and continues with the next
\* message; nothing is committed and the position does not go back.
ReturnError(r) ==
  /\ pc' = [pc EXCEPT ![r] = "fetch"]
  /\ at' = [at EXCEPT ![r] = NoMessage]
  /\ UNCHANGED <<log, committed, pos, owner>>

\* Mutant of Offset: off by one.
OffsetPastNext(r) == at[r][2] + 1

\* How much of its partition is done once r's message is.
Offset(r) == at[r][2]

\* reader.CommitMessages.  A failure is logged only.  The coordinator stores
\* what it is sent: it does not check that r still owns the partition.
Commit(r, stored) ==
  /\ pc[r] = "commit"
  /\ committed' = IF stored THEN [committed EXCEPT ![at[r][1]] = Offset(r)]
                            ELSE committed
  /\ pc' = [pc EXCEPT ![r] = "fetch"]
  /\ at' = [at EXCEPT ![r] = NoMessage]
  /\ UNCHANGED <<log, pos, owner>>

\* Where a generation of the group starts to read: at the committed offsets.
Resume == committed

\* A new generation of the group: partitions are dealt out again.  A handler
\* that is running is not interrupted.
Rebalance ==
  /\ owner' \in [Partitions -> Replicas]
  /\ pos' = Resume
  /\ UNCHANGED <<log, committed, at, pc>>

\* The process of r dies in the middle of whatever it does and starts again.
Crash(r) ==
  /\ owner' \in [Partitions -> Replicas]
  /\ pos' = Resume
  /\ at' = [at EXCEPT ![r] = NoMessage]
  /\ pc' = [pc EXCEPT ![r] = "fetch"]
  /\ UNCHANGED <<log, committed>>

\* Any step on a reader whose messages are in Message and whose handler has the
\* labels Labels.
ReaderStep(Message, Labels) ==
  \/ /\ \E p \in Partitions, ms \in Seq(Message) : Produce(p, ms)
     /\ UNCHANGED <<committed, pos, owner, at, pc>>
  \/ \E r \in Replicas :
       \/ Fetch(r) \/ ReturnError(r) \/ Crash(r)
       \/ /\ pc[r] # "fetch"
          /\ \E label \in Labels \cup {"commit"} : Goto(r, label)
       \/ \E stored \in BOOLEAN : Commit(r, stored)
  \/ Rebalance
  \/ UNCHANGED consumerVars

\* The type of the reader's state, for messages in Message and handler labels
\* in Labels.
ConsumerTypeOK(Message, Labels) ==
  /\ log \in [Partitions -> Seq(Message)]
  /\ committed \in [Partitions -> Nat]
  /\ pos \in [Partitions -> Nat]
  /\ \A p \in Partitions : committed[p] <= Len(log[p]) /\ pos[p] <= Len(log[p])
  /\ owner \in [Partitions -> Replicas]
  /\ pc \in [Replicas -> Labels \cup {"fetch", "commit"}]
  /\ at \in [Replicas -> (Partitions \X Nat) \cup {NoMessage}]
  /\ \A r \in Replicas :
       pc[r] # "fetch" => /\ at[r] \in Partitions \X Nat
                          /\ at[r][2] \in 1..Len(log[at[r][1]])
=============================================================================
