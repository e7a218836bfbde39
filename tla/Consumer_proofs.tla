--------------------------- MODULE Consumer_proofs ---------------------------
(***************************************************************************)
(* The steps of a reader keep the types of its state, for any topic, any   *)
(* messages and any handler labels; what is on a topic stays there; and a  *)
(* handler that skips no message leaves none behind that is not done.      *)
(***************************************************************************)
EXTENDS Consumer, TLAPS, SequenceTheorems

LEMMA ProduceTypes ==
  ASSUME NEW Message, NEW Labels, ConsumerTypeOK(Message, Labels),
         NEW p \in Partitions, NEW ms \in Seq(Message), Produce(p, ms),
         UNCHANGED <<committed, pos, owner, at, pc>>
  PROVE  ConsumerTypeOK(Message, Labels)'
<1> USE DEF ConsumerTypeOK
<1>1. log' \in [Partitions -> Seq(Message)]
  BY ConcatProperties DEF Produce
<1>2. \A q \in Partitions :
        Len(log'[q]) \in Nat /\ Len(log[q]) \in Nat /\ Len(log'[q]) >= Len(log[q])
  BY <1>1, ConcatProperties, LenProperties DEF Produce
<1>3. \A q \in Partitions : committed[q] <= Len(log'[q]) /\ pos[q] <= Len(log'[q])
  BY <1>2
<1>4. ASSUME NEW r \in Replicas, pc[r] # "fetch"
      PROVE  at[r] \in Partitions \X Nat /\ at[r][2] \in 1..Len(log'[at[r][1]])
  BY <1>2, <1>4
<1> QED
  BY <1>1, <1>3, <1>4

\* The messages in hand are not disturbed by what is appended.
LEMMA ProduceKeepsCurrent ==
  ASSUME NEW Message, NEW Labels, ConsumerTypeOK(Message, Labels),
         NEW p \in Partitions, NEW ms \in Seq(Message), Produce(p, ms),
         UNCHANGED <<at, pc>>,
         NEW r \in Replicas, pc[r] # "fetch"
  PROVE  Current(r)' = Current(r)
<1> USE DEF ConsumerTypeOK
<1>1. at[r][1] \in Partitions /\ at[r][2] \in 1..Len(log[at[r][1]])
  OBVIOUS
<1>2. \A q \in Partitions : \A i \in 1..Len(log[q]) : log'[q][i] = log[q][i]
  BY ConcatProperties DEF Produce
<1> QED
  BY <1>1, <1>2 DEF Current

LEMMA CurrentType ==
  ASSUME NEW Message, NEW Labels, ConsumerTypeOK(Message, Labels),
         NEW r \in Replicas, pc[r] # "fetch"
  PROVE  Current(r) \in Message
BY ElementOfSeq DEF ConsumerTypeOK, Current

LEMMA FetchTypes ==
  ASSUME NEW Message, NEW Labels, ConsumerTypeOK(Message, Labels),
         Entry \in Labels, NEW r \in Replicas, Fetch(r)
  PROVE  ConsumerTypeOK(Message, Labels)'
<1> USE DEF ConsumerTypeOK
<1>1. PICK p \in Partitions :
        /\ owner[p] = r /\ pos[p] < Len(log[p])
        /\ at' = [at EXCEPT ![r] = <<p, pos[p] + 1>>]
        /\ pos' = [pos EXCEPT ![p] = @ + 1]
  BY DEF Fetch
<1>2. \A q \in Partitions : Len(log[q]) \in Nat
  BY LenProperties
<1>3. pos' \in [Partitions -> Nat] /\ \A q \in Partitions : pos'[q] <= Len(log[q])
  BY <1>1, <1>2
<1>4. at' \in [Replicas -> (Partitions \X Nat) \cup {NoMessage}]
  BY <1>1
<1>5. UNCHANGED <<log, committed, owner>> /\ pc' = [pc EXCEPT ![r] = Entry]
  BY DEF Fetch
<1>6. at'[r] \in Partitions \X Nat /\ at'[r][2] \in 1..Len(log'[at'[r][1]])
  BY <1>1, <1>2, <1>5
<1>7. \A q \in Replicas : q # r => at'[q] = at[q] /\ pc'[q] = pc[q]
  BY <1>1, <1>5
<1> QED
  BY <1>3, <1>4, <1>5, <1>6, <1>7

LEMMA GotoTypes ==
  ASSUME NEW Message, NEW Labels, ConsumerTypeOK(Message, Labels),
         NEW r \in Replicas, pc[r] # "fetch",
         NEW label \in Labels \cup {"commit"}, Goto(r, label)
  PROVE  ConsumerTypeOK(Message, Labels)'
BY DEF ConsumerTypeOK, Goto

LEMMA ReturnErrorTypes ==
  ASSUME NEW Message, NEW Labels, ConsumerTypeOK(Message, Labels),
         NEW r \in Replicas, ReturnError(r)
  PROVE  ConsumerTypeOK(Message, Labels)'
BY DEF ConsumerTypeOK, ReturnError

LEMMA CommitTypes ==
  ASSUME NEW Message, NEW Labels, ConsumerTypeOK(Message, Labels),
         NEW r \in Replicas, NEW stored \in BOOLEAN, Commit(r, stored)
  PROVE  ConsumerTypeOK(Message, Labels)'
<1> USE DEF ConsumerTypeOK
<1>1. at[r][1] \in Partitions /\ at[r][2] \in Nat /\ at[r][2] <= Len(log[at[r][1]])
  BY LenProperties DEF Commit
<1>2. \/ committed' = committed
      \/ committed' = [committed EXCEPT ![at[r][1]] = at[r][2]]
  BY DEF Commit, Offset
<1>3. /\ committed' \in [Partitions -> Nat]
      /\ \A q \in Partitions : committed'[q] <= Len(log[q])
  BY <1>1, <1>2
<1>4. /\ UNCHANGED <<log, pos, owner>>
      /\ pc' = [pc EXCEPT ![r] = "fetch"]
      /\ at' = [at EXCEPT ![r] = NoMessage]
  BY DEF Commit
<1>5. /\ pc' \in [Replicas -> Labels \cup {"fetch", "commit"}]
      /\ at' \in [Replicas -> (Partitions \X Nat) \cup {NoMessage}]
  BY <1>4
<1>6. ASSUME NEW q \in Replicas, pc'[q] # "fetch"
      PROVE  at'[q] \in Partitions \X Nat /\ at'[q][2] \in 1..Len(log[at'[q][1]])
  BY <1>4, <1>6
<1> QED
  BY <1>3, <1>4, <1>5, <1>6

LEMMA RebalanceTypes ==
  ASSUME NEW Message, NEW Labels, ConsumerTypeOK(Message, Labels), Rebalance
  PROVE  ConsumerTypeOK(Message, Labels)'
<1>1. /\ UNCHANGED <<log, committed, at, pc>>
      /\ owner' \in [Partitions -> Replicas] /\ pos' = committed
  BY DEF Rebalance, Resume
<1> QED
  BY <1>1 DEF ConsumerTypeOK

LEMMA CrashTypes ==
  ASSUME NEW Message, NEW Labels, ConsumerTypeOK(Message, Labels),
         NEW r \in Replicas, Crash(r)
  PROVE  ConsumerTypeOK(Message, Labels)'
BY DEF ConsumerTypeOK, Crash, Resume

\* Every step on a reader keeps its types.
THEOREM ReaderTypes ==
  ASSUME NEW Message, NEW Labels, Entry \in Labels,
         ConsumerTypeOK(Message, Labels), ReaderStep(Message, Labels)
  PROVE  ConsumerTypeOK(Message, Labels)'
<1> DEFINE Typed == ConsumerTypeOK(Message, Labels)
<1>1. ASSUME NEW p \in Partitions, NEW ms \in Seq(Message), Produce(p, ms),
             UNCHANGED <<committed, pos, owner, at, pc>>
      PROVE  Typed'
  BY <1>1, ProduceTypes
<1>2. ASSUME NEW r \in Replicas, Fetch(r) PROVE Typed'
  BY <1>2, FetchTypes
<1>3. ASSUME NEW r \in Replicas, ReturnError(r) PROVE Typed'
  BY <1>3, ReturnErrorTypes
<1>4. ASSUME NEW r \in Replicas, Crash(r) PROVE Typed'
  BY <1>4, CrashTypes
<1>5. ASSUME NEW r \in Replicas, pc[r] # "fetch",
             NEW label \in Labels \cup {"commit"}, Goto(r, label)
      PROVE  Typed'
  BY <1>5, GotoTypes
<1>6. ASSUME NEW r \in Replicas, NEW stored \in BOOLEAN, Commit(r, stored)
      PROVE  Typed'
  BY <1>6, CommitTypes
<1>7. ASSUME Rebalance PROVE Typed'
  BY <1>7, RebalanceTypes
<1>8. ASSUME UNCHANGED consumerVars PROVE Typed'
  BY <1>8 DEF ConsumerTypeOK, consumerVars
<1> QED
  BY <1>1, <1>2, <1>3, <1>4, <1>5, <1>6, <1>7, <1>8 DEF ReaderStep

-----------------------------------------------------------------------------
\* What is on the topic stays there.
LEMMA LogOnlyGrows ==
  ASSUME NEW Message, NEW Labels, ConsumerTypeOK(Message, Labels),
         ReaderStep(Message, Labels), NEW p \in Partitions
  PROVE  /\ Len(log[p]) \in Nat /\ Len(log'[p]) \in Nat /\ Len(log[p]) <= Len(log'[p])
         /\ \A i \in 1..Len(log[p]) : log'[p][i] = log[p][i]
<1> USE DEF ConsumerTypeOK
<1>1. Len(log[p]) \in Nat
  BY LenProperties
<1>2. ASSUME NEW q \in Partitions, NEW ms \in Seq(Message), Produce(q, ms)
      PROVE  /\ Len(log'[p]) \in Nat /\ Len(log[p]) <= Len(log'[p])
             /\ \A i \in 1..Len(log[p]) : log'[p][i] = log[p][i]
  <2>1. log'[p] = log[p] \/ log'[p] = log[p] \o ms
    BY <1>2 DEF Produce
  <2> QED
    BY <1>1, <2>1, ConcatProperties, LenProperties
<1>3. UNCHANGED log \/ \E q \in Partitions, ms \in Seq(Message) : Produce(q, ms)
  BY DEF ReaderStep, Fetch, ReturnError, Crash, Goto, Commit, Rebalance, consumerVars
<1> QED
  BY <1>1, <1>2, <1>3

\* A reader keeps order with respect to Done, a set of messages <<partition, index>>
\* that are done with: what is committed is done; what was fetched is done or in
\* the owner's hands; and what comes before a message in hand is done, and so is
\* that one when its offset is about to be committed.
Orderly(Done) ==
  /\ \A p \in Partitions : \A i \in 1..committed[p] : <<p, i>> \in Done
  /\ \A p \in Partitions : \A i \in 1..pos[p] :
       \/ <<p, i>> \in Done
       \/ at[owner[p]] = <<p, i>> /\ pc[owner[p]] \notin {"fetch", "commit"}
  /\ \A r \in Replicas : pc[r] # "fetch" =>
       /\ \A i \in 1..(at[r][2] - 1) : <<at[r][1], i>> \in Done
       /\ pc[r] = "commit" => at[r] \in Done

\* When the handlers return only from messages that are done with, the reader stays
\* in order: the commit of a late handler, a rebalance and a crash skip nothing.
LEMMA OrderlyStep ==
  ASSUME NEW Message, NEW Labels, {"fetch", "commit"} \cap Labels = {}, Entry \in Labels,
         ConsumerTypeOK(Message, Labels), ReaderStep(Message, Labels),
         NEW Done, NEW DoneNext, Done \subseteq DoneNext, Orderly(Done),
         \A r \in Replicas : pc[r] \in Labels /\ pc'[r] \in {"fetch", "commit"} =>
           at[r] \in DoneNext \/ Crash(r)
  PROVE  Orderly(DoneNext)'
<1> DEFINE Committed(D) == \A p \in Partitions : \A i \in 1..committed[p] : <<p, i>> \in D
           Fetched(D) == \A p \in Partitions : \A i \in 1..pos[p] :
             \/ <<p, i>> \in D
             \/ at[owner[p]] = <<p, i>> /\ pc[owner[p]] \notin {"fetch", "commit"}
           InHand(D, r) == pc[r] # "fetch" =>
             /\ \A i \in 1..(at[r][2] - 1) : <<at[r][1], i>> \in D
             /\ pc[r] = "commit" => at[r] \in D
<1>0. /\ committed \in [Partitions -> Nat] /\ pos \in [Partitions -> Nat]
      /\ pc \in [Replicas -> Labels \cup {"fetch", "commit"}]
      /\ owner \in [Partitions -> Replicas]
      /\ at \in [Replicas -> (Partitions \X Nat) \cup {NoMessage}]
      /\ \A r \in Replicas : pc[r] # "fetch" => at[r] \in Partitions \X Nat
  BY DEF ConsumerTypeOK
<1>1. Committed(DoneNext) /\ Fetched(DoneNext) /\ \A r \in Replicas : InHand(DoneNext, r)
  BY DEF Orderly
<1>2. ASSUME UNCHANGED <<committed, pos, owner, at, pc>> PROVE Orderly(DoneNext)'
  BY <1>1, <1>2 DEF Orderly
<1>3. ASSUME NEW r \in Replicas, Fetch(r) PROVE Orderly(DoneNext)'
  <2>1. PICK p \in Partitions :
          /\ pc[r] = "fetch" /\ owner[p] = r
          /\ at' = [at EXCEPT ![r] = <<p, pos[p] + 1>>]
          /\ pos' = [pos EXCEPT ![p] = @ + 1]
    BY <1>3 DEF Fetch
  <2>2. UNCHANGED <<committed, owner>> /\ pc' = [pc EXCEPT ![r] = Entry]
    BY <1>3 DEF Fetch
  <2>3. \A i \in 1..pos[p] : <<p, i>> \in DoneNext
    BY <1>1, <2>1
  <2>4. ASSUME NEW q \in Partitions, NEW i \in 1..pos'[q], <<q, i>> \notin DoneNext
        PROVE  at'[owner[q]] = <<q, i>> /\ pc'[owner[q]] \notin {"fetch", "commit"}
    <3>1. CASE q = p
      BY <3>1, <2>1, <2>2, <2>3, <2>4, <1>0
    <3>2. CASE q # p
      <4>1. i \in 1..pos[q]
        BY <3>2, <2>1, <1>0
      <4>2. at[owner[q]] = <<q, i>> /\ pc[owner[q]] \notin {"fetch", "commit"}
        BY <4>1, <2>4, <1>1
      <4> QED
        BY <4>2, <2>1, <2>2, <1>0
    <3> QED
      BY <3>1, <3>2
  <2>5. \A q \in Replicas : InHand(DoneNext, q)'
    BY <1>0, <1>1, <2>1, <2>2, <2>3
  <2> QED
    BY <1>1, <2>2, <2>4, <2>5 DEF Orderly
<1>4. ASSUME NEW r \in Replicas, pc[r] # "fetch", NEW label \in Labels \cup {"commit"},
             Goto(r, label)
      PROVE  Orderly(DoneNext)'
  <2>1. /\ pc' = [pc EXCEPT ![r] = label]
        /\ UNCHANGED <<committed, pos, owner, at>>
    BY <1>4 DEF Goto
  <2>2. label = "commit" => at[r] \in DoneNext
    BY <1>0, <1>1, <1>4, <2>1 DEF Crash
  <2>3. ASSUME NEW p \in Partitions, NEW i \in 1..pos[p], <<p, i>> \notin DoneNext
        PROVE  at[owner[p]] = <<p, i>> /\ pc'[owner[p]] \notin {"fetch", "commit"}
    <3>1. at[owner[p]] = <<p, i>> /\ pc[owner[p]] \notin {"fetch", "commit"}
      BY <1>1, <2>3
    <3>2. owner[p] = r => label # "commit"
      BY <3>1, <2>2, <2>3
    <3>3. pc'[owner[p]] = IF owner[p] = r THEN label ELSE pc[owner[p]]
      BY <1>0, <2>1
    <3> QED
      BY <3>1, <3>2, <3>3
  <2>4. \A q \in Replicas : InHand(DoneNext, q)'
    BY <1>0, <1>1, <1>4, <2>1, <2>2
  <2> QED
    BY <1>1, <2>1, <2>3, <2>4 DEF Orderly
<1>5. ASSUME NEW r \in Replicas, ReturnError(r) PROVE Orderly(DoneNext)'
  <2>1. /\ pc' = [pc EXCEPT ![r] = "fetch"] /\ at' = [at EXCEPT ![r] = NoMessage]
        /\ UNCHANGED <<committed, pos, owner>>
    BY <1>5 DEF ReturnError
  <2>2. CASE pos = committed
    BY <1>0, <1>1, <2>1, <2>2 DEF Orderly
  <2>3. CASE pc[r] \in Labels => at[r] \in DoneNext
    <3>1. ASSUME NEW p \in Partitions, NEW i \in 1..pos[p], <<p, i>> \notin DoneNext
          PROVE  at'[owner[p]] = <<p, i>> /\ pc'[owner[p]] \notin {"fetch", "commit"}
      <4>1. at[owner[p]] = <<p, i>> /\ pc[owner[p]] \notin {"fetch", "commit"}
        BY <1>1, <3>1
      <4>2. owner[p] # r
        BY <4>1, <3>1, <2>3, <1>0
      <4> QED
        BY <4>1, <4>2, <2>1, <1>0
    <3>2. \A q \in Replicas : InHand(DoneNext, q)'
      BY <1>0, <1>1, <2>1
    <3> QED
      BY <1>1, <2>1, <3>1, <3>2 DEF Orderly
  <2> QED
    BY <1>0, <2>1, <2>2, <2>3 DEF Crash, Resume
<1>6. ASSUME NEW r \in Replicas, NEW stored \in BOOLEAN, Commit(r, stored)
      PROVE  Orderly(DoneNext)'
  <2>1. /\ pc[r] = "commit" /\ pc' = [pc EXCEPT ![r] = "fetch"]
        /\ at' = [at EXCEPT ![r] = NoMessage]
        /\ UNCHANGED <<pos, owner>>
        /\ \/ committed' = committed
           \/ committed' = [committed EXCEPT ![at[r][1]] = at[r][2]]
    BY <1>6 DEF Commit, Offset
  <2>2. at[r] = <<at[r][1], at[r][2]>> /\ at[r][1] \in Partitions /\ at[r][2] \in Nat
    BY <2>1, <1>0
  <2>3. \A i \in 1..at[r][2] : <<at[r][1], i>> \in DoneNext
    BY <1>1, <2>1, <2>2
  <2>4. Committed(DoneNext)'
    BY <1>0, <1>1, <2>1, <2>2, <2>3
  <2>5. Fetched(DoneNext)'
    BY <1>0, <1>1, <2>1
  <2>6. \A q \in Replicas : InHand(DoneNext, q)'
    BY <1>0, <1>1, <2>1
  <2> QED
    BY <2>4, <2>5, <2>6 DEF Orderly
<1>7. ASSUME Rebalance PROVE Orderly(DoneNext)'
  BY <1>1, <1>7 DEF Rebalance, Resume, Orderly
<1>8. ASSUME NEW r \in Replicas, Crash(r) PROVE Orderly(DoneNext)'
  <2>1. /\ pos' = committed /\ UNCHANGED committed
        /\ pc' = [pc EXCEPT ![r] = "fetch"] /\ at' = [at EXCEPT ![r] = NoMessage]
    BY <1>8 DEF Crash, Resume
  <2> QED
    BY <1>0, <1>1, <2>1 DEF Orderly
<1> QED
  BY <1>2, <1>3, <1>4, <1>5, <1>6, <1>7, <1>8 DEF ReaderStep, consumerVars

-----------------------------------------------------------------------------
\* The i-th message of p was fetched, or something later was: a position, an offset
\* or a message in hand is not before it.
Reached(p, i) ==
  \/ i <= pos[p] \/ i <= committed[p]
  \/ \E r \in Replicas : pc[r] # "fetch" /\ at[r][1] = p /\ i <= at[r][2]

\* Only a fetch reaches a message, and takes it in hand.
LEMMA ReachedSteps ==
  ASSUME NEW Message, NEW Labels, Entry \in Labels,
         ConsumerTypeOK(Message, Labels), ReaderStep(Message, Labels),
         NEW p \in Partitions, NEW i \in DOMAIN log'[p], Reached(p, i)'
  PROVE  /\ i \in DOMAIN log[p]
         /\ \/ Reached(p, i)
            \/ \E r \in Replicas : Fetch(r) /\ at'[r] = <<p, i>>
<1>0. /\ committed \in [Partitions -> Nat] /\ pos \in [Partitions -> Nat]
      /\ at \in [Replicas -> (Partitions \X Nat) \cup {NoMessage}]
      /\ pc \in [Replicas -> Labels \cup {"fetch", "commit"}]
      /\ log \in [Partitions -> Seq(Message)]
  BY DEF ConsumerTypeOK
<1>1. ASSUME NEW r \in Replicas, Fetch(r)
      PROVE  Reached(p, i) \/ at'[r] = <<p, i>>
  <2>1. PICK q \in Partitions :
          /\ pc[r] = "fetch"
          /\ at' = [at EXCEPT ![r] = <<q, pos[q] + 1>>]
          /\ pos' = [pos EXCEPT ![q] = @ + 1]
    BY <1>1 DEF Fetch
  <2>2. UNCHANGED <<log, committed>> /\ pc' = [pc EXCEPT ![r] = Entry]
    BY <1>1 DEF Fetch
  <2>3. i \in Nat
    BY <1>0, <2>2
  <2>4. ASSUME NEW k \in Replicas, pc'[k] # "fetch", at'[k][1] = p, i <= at'[k][2], k # r
        PROVE  Reached(p, i)
    BY <1>0, <2>1, <2>2, <2>4 DEF Reached
  <2>5. ASSUME at'[r][1] = p, i <= at'[r][2] PROVE Reached(p, i) \/ at'[r] = <<p, i>>
    BY <1>0, <2>1, <2>3, <2>5 DEF Reached
  <2>6. ASSUME i <= pos'[p] PROVE Reached(p, i) \/ at'[r] = <<p, i>>
    BY <1>0, <2>1, <2>3, <2>6 DEF Reached
  <2> QED
    BY <2>2, <2>4, <2>5, <2>6 DEF Reached
<1>2. ASSUME NEW r \in Replicas, ReturnError(r) \/ Crash(r) PROVE Reached(p, i)
  BY <1>0, <1>2 DEF ReturnError, Crash, Resume, Reached
<1>3. ASSUME NEW r \in Replicas, pc[r] # "fetch", NEW label, Goto(r, label)
      PROVE  Reached(p, i)
  BY <1>0, <1>3 DEF Goto, Reached
<1>4. ASSUME NEW r \in Replicas, NEW stored \in BOOLEAN, Commit(r, stored)
      PROVE  Reached(p, i)
  <2>1. /\ pc[r] = "commit" /\ pc' = [pc EXCEPT ![r] = "fetch"]
        /\ at' = [at EXCEPT ![r] = NoMessage]
        /\ UNCHANGED pos
        /\ \/ committed' = committed
           \/ committed' = [committed EXCEPT ![at[r][1]] = at[r][2]]
    BY <1>4 DEF Commit, Offset
  <2> QED
    BY <1>0, <2>1 DEF Reached
<1>5. ASSUME Rebalance \/ UNCHANGED <<committed, pos, at, pc>> PROVE Reached(p, i)
  BY <1>5 DEF Rebalance, Resume, Reached
<1>6. i \in DOMAIN log[p]
  <2>1. CASE UNCHANGED log
    BY <2>1
  <2>2. CASE UNCHANGED <<committed, pos, at, pc>>
    <3>1. Reached(p, i)
      BY <1>5, <2>2
    <3>2. Len(log[p]) \in Nat /\ DOMAIN log[p] = 1..Len(log[p]) /\ Len(log'[p]) \in Nat
      BY <1>0, LogOnlyGrows
    <3>3. DOMAIN log'[p] = 1..Len(log'[p]) /\ log'[p] \in Seq(Message)
      <4>1. ConsumerTypeOK(Message, Labels)'
        BY ReaderTypes
      <4> QED
        BY <4>1 DEF ConsumerTypeOK
    <3>4. \/ i <= pos[p] \/ i <= committed[p]
          \/ \E r \in Replicas : at[r][2] \in 1..Len(log[p]) /\ i <= at[r][2]
      BY <3>1 DEF Reached, ConsumerTypeOK
    <3>5. i <= Len(log[p])
      BY <3>2, <3>3, <3>4, <1>0 DEF ConsumerTypeOK
    <3> QED
      BY <3>2, <3>3, <3>5
  <2> QED
    BY <2>1, <2>2 DEF ReaderStep, Fetch, ReturnError, Crash, Goto, Commit, Rebalance,
                      consumerVars
<1> QED
  BY <1>1, <1>2, <1>3, <1>4, <1>5, <1>6 DEF ReaderStep, consumerVars
=============================================================================
