------------------------ MODULE ConsumerGroup_proofs ------------------------
(***************************************************************************)
(* For every number of replicas, partitions, messages and faults: the      *)
(* types of the consumer loop's state, and that a group commits and reads  *)
(* only past messages some handler has returned from.                      *)
(***************************************************************************)
EXTENDS ConsumerGroup, Consumer_proofs

LEMMA TypeStep == TypeOK /\ [Next]_vars => TypeOK'
<1> SUFFICES ASSUME TypeOK, [Next]_vars PROVE TypeOK'
  OBVIOUS
<1> DEFINE Reader == ConsumerTypeOK(Messages, {"handle"})
<1>1. ReaderStep(Messages, {"handle"})
  <2>1. ASSUME NEW p \in Partitions, NEW m \in Messages, Publish(p, m)
        PROVE  ReaderStep(Messages, {"handle"})
    <3>1. <<m>> \in Seq(Messages) /\ <<m, m>> \in Seq(Messages)
      OBVIOUS
    <3> QED
      BY <2>1, <3>1 DEF Publish, ReaderStep
  <2>2. ASSUME NEW r \in Replicas, HandlerOK(r)
        PROVE  ReaderStep(Messages, {"handle"})
    <3>1. pc[r] # "fetch" /\ Goto(r, "commit")
      BY <2>2 DEF HandlerOK, ReturnNil
    <3> QED
      BY <3>1 DEF ReaderStep
  <2>3. ASSUME NEW r \in Replicas, FetchNext(r) \/ HandlerError(r) \/ CommitOffset(r)
                                   \/ CrashReplica(r)
        PROVE  ReaderStep(Messages, {"handle"})
    BY <2>3 DEF FetchNext, HandlerError, CommitOffset, CrashReplica, ReaderStep
  <2>4. ASSUME Regroup \/ UNCHANGED vars
        PROVE  ReaderStep(Messages, {"handle"})
    BY <2>4 DEF Regroup, vars, ReaderStep
  <2> QED
    BY <2>1, <2>2, <2>3, <2>4 DEF Next, Loop
<1>9. Reader'
  BY <1>1, ReaderTypes, GroupAssumption DEF TypeOK
<1>10. handled' \subseteq Partitions \X Nat /\ failed' \subseteq Partitions \X Nat
  BY DEF TypeOK, ConsumerTypeOK, history, Next, Loop, Publish, FetchNext, HandlerOK,
         HandlerError, CommitOffset, Regroup, CrashReplica, vars
<1>11. faults' \in Nat
  <2>1. faults' = faults \/ Fault
    BY DEF Next, Loop, Publish, FetchNext, HandlerOK, HandlerError,
           CommitOffset, Regroup, CrashReplica, vars
  <2> QED
    BY <2>1 DEF Fault, TypeOK
<1> QED
  BY <1>9, <1>10, <1>11 DEF TypeOK, Reader

\* The reader's state and the history keep their types, and no offset is ever
\* beyond the end of its partition.
THEOREM GroupTypes == Spec => []TypeOK
<1>1. Init => TypeOK
  BY GroupAssumption DEF Init, ConsumerInit, TypeOK, ConsumerTypeOK
<1> QED
  BY <1>1, TypeStep, PTL DEF Spec

\* Where a handler is: every message before the one in hand was tried, and so
\* was that one when its offset is about to be committed.
PrefixTried ==
  \A r \in Replicas :
    /\ pc[r] # "fetch" => \A i \in 1..(at[r][2] - 1) : <<at[r][1], i>> \in Tried
    /\ pc[r] = "commit" => at[r] \in Tried

\* The inductive invariant: CommittedWereTried survives a commit because of
\* PrefixTried, which survives a fetch because of NothingLeftBehind, which
\* survives a rebalance because of CommittedWereTried.
GroupInv == TypeOK /\ CommittedWereTried /\ NothingLeftBehind /\ PrefixTried

LEMMA GroupInvStep == GroupInv /\ [Next]_vars => GroupInv'
<1> SUFFICES ASSUME GroupInv, [Next]_vars PROVE GroupInv'
  OBVIOUS
<1> USE DEF GroupInv
<1>0. TypeOK'
  BY TypeStep
<1> USE GroupAssumption
<1> HIDE DEF TypeOK
<1>T. /\ committed \in [Partitions -> Nat] /\ pos \in [Partitions -> Nat]
      /\ pc \in [Replicas -> {"handle", "fetch", "commit"}]
      /\ owner \in [Partitions -> Replicas]
      /\ at \in [Replicas -> (Partitions \X Nat) \cup {NoMessage}]
      /\ \A r \in Replicas : pc[r] # "fetch" => at[r] \in Partitions \X Nat
  BY DEF TypeOK, ConsumerTypeOK
<1>1. ASSUME NEW p \in Partitions, NEW m \in Messages, Publish(p, m)
      PROVE  GroupInv'
  <2>1. UNCHANGED <<committed, pos, owner, at, pc, Tried>>
    BY <1>1 DEF Publish, history, Tried
  <2> QED
    BY <2>1, <1>0 DEF CommittedWereTried, NothingLeftBehind, PrefixTried
<1>2. ASSUME NEW r \in Replicas, FetchNext(r) PROVE GroupInv'
  <2>1. PICK p \in Partitions :
          /\ pc[r] = "fetch" /\ owner[p] = r
          /\ at' = [at EXCEPT ![r] = <<p, pos[p] + 1>>]
          /\ pos' = [pos EXCEPT ![p] = @ + 1]
    BY <1>2 DEF FetchNext, Fetch
  <2>2. UNCHANGED <<committed, owner, Tried>> /\ pc' = [pc EXCEPT ![r] = "handle"]
    BY <1>2, GroupAssumption DEF FetchNext, Fetch, history, Tried
  <2>3. \A i \in 1..pos[p] : <<p, i>> \in Tried
    BY <2>1 DEF NothingLeftBehind
  <2>4. CommittedWereTried'
    BY <2>2 DEF CommittedWereTried
  <2>5. NothingLeftBehind'
    <3> SUFFICES ASSUME NEW q \in Partitions, NEW i \in 1..pos'[q],
                        <<q, i>> \notin Tried
                 PROVE  at'[owner[q]] = <<q, i>> /\ pc'[owner[q]] = "handle"
      BY <2>2 DEF NothingLeftBehind
    <3>1. CASE q = p
      BY <3>1, <2>1, <2>2, <2>3, <1>T
    <3>2. CASE q # p
      <4>1. i \in 1..pos[q]
        BY <3>2, <2>1, <1>T
      <4>2. at[owner[q]] = <<q, i>> /\ pc[owner[q]] = "handle"
        BY <4>1 DEF NothingLeftBehind
      <4>3. owner[q] # r
        BY <4>2, <2>1
      <4> QED
        BY <4>2, <4>3, <2>1, <2>2, <1>T
    <3> QED
      BY <3>1, <3>2
  <2>6. PrefixTried'
    BY <2>1, <2>2, <2>3, <1>T DEF PrefixTried
  <2> QED
    BY <1>0, <2>4, <2>5, <2>6
<1>3. ASSUME NEW r \in Replicas, HandlerOK(r) \/ HandlerError(r) PROVE GroupInv'
  <2>1. /\ pc[r] = "handle" /\ Tried' = Tried \cup {at[r]}
        /\ \/ pc' = [pc EXCEPT ![r] = "commit"] /\ at' = at
           \/ pc' = [pc EXCEPT ![r] = "fetch"] /\ at' = [at EXCEPT ![r] = NoMessage]
        /\ UNCHANGED <<committed, pos, owner>>
    BY <1>3 DEF HandlerOK, ReturnNil, Goto, HandlerError, ReturnError, Tried
  <2>2. CommittedWereTried'
    BY <2>1 DEF CommittedWereTried
  <2>3. NothingLeftBehind'
    <3> SUFFICES ASSUME NEW p \in Partitions, NEW i \in 1..pos[p],
                        <<p, i>> \notin Tried'
                 PROVE  at'[owner[p]] = <<p, i>> /\ pc'[owner[p]] = "handle"
      BY <2>1 DEF NothingLeftBehind
    <3>1. at[owner[p]] = <<p, i>> /\ pc[owner[p]] = "handle"
      BY <2>1 DEF NothingLeftBehind
    <3>2. owner[p] # r
      BY <3>1, <2>1
    <3> QED
      BY <3>1, <3>2, <2>1, <1>T
  <2>4. PrefixTried'
    BY <2>1, <1>T DEF PrefixTried
  <2> QED
    BY <1>0, <2>2, <2>3, <2>4
<1>5. ASSUME NEW r \in Replicas, CommitOffset(r) PROVE GroupInv'
  <2>1. /\ pc[r] = "commit" /\ pc' = [pc EXCEPT ![r] = "fetch"]
        /\ at' = [at EXCEPT ![r] = NoMessage]
        /\ UNCHANGED <<pos, owner, Tried>>
        /\ \/ committed' = committed
           \/ committed' = [committed EXCEPT ![at[r][1]] = at[r][2]]
    BY <1>5 DEF CommitOffset, Commit, Offset, history, Tried
  <2>2. at[r] = <<at[r][1], at[r][2]>> /\ at[r][1] \in Partitions /\ at[r][2] \in Nat
    BY <2>1, <1>T
  <2>3. \A i \in 1..at[r][2] : <<at[r][1], i>> \in Tried
    BY <2>1, <2>2 DEF PrefixTried
  <2>4. CommittedWereTried'
    BY <2>1, <2>2, <2>3, <1>T DEF CommittedWereTried
  <2>5. NothingLeftBehind'
    <3> SUFFICES ASSUME NEW p \in Partitions, NEW i \in 1..pos[p],
                        <<p, i>> \notin Tried
                 PROVE  at'[owner[p]] = <<p, i>> /\ pc'[owner[p]] = "handle"
      BY <2>1 DEF NothingLeftBehind
    <3>1. at[owner[p]] = <<p, i>> /\ pc[owner[p]] = "handle"
      BY DEF NothingLeftBehind
    <3> QED
      BY <3>1, <2>1, <1>T
  <2>6. PrefixTried'
    BY <2>1, <1>T DEF PrefixTried
  <2> QED
    BY <1>0, <2>4, <2>5, <2>6
<1>6. CASE Regroup
  <2>1. pos' = committed /\ UNCHANGED <<committed, at, pc, Tried>>
    BY <1>6 DEF Regroup, Rebalance, Resume, history, Tried
  <2> QED
    BY <2>1, <1>0 DEF CommittedWereTried, NothingLeftBehind, PrefixTried
<1>7. ASSUME NEW r \in Replicas, CrashReplica(r) PROVE GroupInv'
  <2>1. /\ pos' = committed /\ UNCHANGED <<committed, Tried>>
        /\ pc' = [pc EXCEPT ![r] = "fetch"] /\ at' = [at EXCEPT ![r] = NoMessage]
    BY <1>7 DEF CrashReplica, Crash, Resume, history, Tried
  <2>2. CommittedWereTried' /\ NothingLeftBehind'
    BY <2>1 DEF CommittedWereTried, NothingLeftBehind
  <2>3. PrefixTried'
    BY <2>1, <1>T DEF PrefixTried
  <2> QED
    BY <1>0, <2>2, <2>3
<1>8. CASE UNCHANGED vars
  BY <1>8, <1>0 DEF vars, consumerVars, history, Tried, CommittedWereTried, NothingLeftBehind,
                    PrefixTried
<1> QED
  BY <1>1, <1>2, <1>3, <1>5, <1>6, <1>7, <1>8 DEF Next, Loop

\* A group of any size commits and reads only past messages some handler has
\* returned from, whatever crashes, rebalances, errors, duplicates and failing
\* commits there are.
THEOREM NothingIsLost == Spec => [](CommittedWereTried /\ NothingLeftBehind)
<1>1. Init => GroupInv
  <2> SUFFICES ASSUME Init PROVE GroupInv
    OBVIOUS
  <2>1. TypeOK
    BY GroupAssumption DEF Init, ConsumerInit, TypeOK, ConsumerTypeOK
  <2> QED
    BY <2>1 DEF Init, ConsumerInit, GroupInv, CommittedWereTried,
                NothingLeftBehind, PrefixTried
<1>2. GroupInv /\ [Next]_vars => GroupInv'
  BY GroupInvStep
<1>3. GroupInv => CommittedWereTried /\ NothingLeftBehind
  BY DEF GroupInv
<1> QED
  BY <1>1, <1>2, <1>3, PTL DEF Spec
=============================================================================
