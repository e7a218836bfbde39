---------------------------- MODULE ConsumerGroup ----------------------------
(***************************************************************************)
(* The consumer loop on its own: any handler, any topic, any number of     *)
(* replicas.  The handler is one step that returns nil or an error; what   *)
(* is studied is which messages a group that keeps going has tried.        *)
(***************************************************************************)
EXTENDS Consumer, FiniteSets

CONSTANTS Messages,       \* what producers may send
          MaxLog,         \* bound on the length of a partition
          MaxFaults       \* bound on crashes, rebalances, errors, failing calls

ASSUME GroupAssumption == /\ MaxLog \in Nat
                          /\ MaxFaults \in Nat
                          /\ Entry = "handle"
                          /\ NoMessage \notin Partitions \X Nat

VARIABLES handled,  \* history: <<partition, index>> for which a handler returned nil
          failed,   \* history: those for which one returned an error
          faults    \* how many unlucky events there were

history == <<handled, failed>>
vars == <<consumerVars, history, faults>>

Init == ConsumerInit /\ handled = {} /\ failed = {} /\ faults = 0

Fault == faults < MaxFaults /\ faults' = faults + 1

\* A producer whose write is acknowledged late sends it again (the writer
\* retries), so that a message may be appended twice.
Publish(p, m) ==
  /\ \/ Produce(p, <<m>>) /\ UNCHANGED faults
     \/ Produce(p, <<m, m>>) /\ Fault
  /\ Len(log'[p]) <= MaxLog
  /\ UNCHANGED <<committed, pos, owner, at, pc, history>>

FetchNext(r) == Fetch(r) /\ UNCHANGED <<history, faults>>

HandlerOK(r) ==
  /\ pc[r] = "handle"
  /\ ReturnNil(r)
  /\ handled' = handled \cup {at[r]}
  /\ UNCHANGED <<failed, faults>>

HandlerError(r) ==
  /\ pc[r] = "handle"
  /\ ReturnError(r)
  /\ failed' = failed \cup {at[r]}
  /\ Fault
  /\ UNCHANGED handled

CommitOffset(r) ==
  /\ \/ Commit(r, TRUE) /\ UNCHANGED faults
     \/ Commit(r, FALSE) /\ Fault
  /\ UNCHANGED history

Regroup == Rebalance /\ Fault /\ UNCHANGED history

CrashReplica(r) == Crash(r) /\ Fault /\ UNCHANGED history

Loop(r) == FetchNext(r) \/ HandlerOK(r) \/ HandlerError(r) \/ CommitOffset(r)

Next ==
  \/ \E p \in Partitions, m \in Messages : Publish(p, m)
  \/ \E r \in Replicas : Loop(r) \/ CrashReplica(r)
  \/ Regroup

Spec == Init /\ [][Next]_vars

\* The loop of a running process keeps running: every call it makes returns.
FairSpec == Spec /\ \A r \in Replicas : WF_vars(Loop(r))

-----------------------------------------------------------------------------
TypeOK ==
  /\ ConsumerTypeOK(Messages, {"handle"})
  /\ handled \subseteq Partitions \X Nat
  /\ failed \subseteq Partitions \X Nat
  /\ faults \in Nat

\* The messages some handler has returned from.
Tried == handled \cup failed

\* A group never reads past a message nobody has tried or holds: whatever is
\* behind the position of a partition was tried, or is in the hands of the
\* partition's owner.
NothingLeftBehind ==
  \A p \in Partitions : \A i \in 1..pos[p] :
    \/ <<p, i>> \in Tried
    \/ at[owner[p]] = <<p, i>> /\ pc[owner[p]] = "handle"

\* An offset is committed only past messages a handler has returned from, also
\* when a replica that lost its partition commits late.
CommittedWereTried ==
  \A p \in Partitions : \A i \in 1..committed[p] : <<p, i>> \in Tried

\* At-least-once delivery (README.md:194): what was appended to the topic is
\* tried in the end, whatever crashes, rebalances, errors and failing commits
\* there are.
EverythingTried ==
  \A p \in Partitions, i \in 1..MaxLog :
    (i <= Len(log[p])) ~> (<<p, i>> \in Tried)

\* README.md:195, "Kafka consumers commit offsets manually after successful
\* processing": an offset is committed only past messages that were handled.
CommittedWereHandled ==
  \A p \in Partitions : \A i \in 1..committed[p] : <<p, i>> \in handled
=============================================================================
