------------------------ MODULE FraudDetector_proofs ------------------------
(***************************************************************************)
(* The fraud detector for every number of processes, users, bets and       *)
(* partitions, every length of its windows and every clock.                *)
(***************************************************************************)
EXTENDS FraudDetector, TLAPS, SequenceTheorems, FiniteSetTheorems

DetectorLabels == Rules \cup {"recent", "add"}

-----------------------------------------------------------------------------
\* What Consumer_proofs proves of a reader, for the reader of bets.placed.

Lemmas == INSTANCE Consumer_proofs WITH
  Replicas <- Detectors, Partitions <- BetPartitions, Entry <- "recent",
  log <- betLog, committed <- fraudCommitted, pos <- fraudPos,
  owner <- fraudOwner, at <- fraudAt, pc <- fraudPc

ReaderTyped == BetsReader!ConsumerTypeOK(Bets, DetectorLabels)
ReaderSteps == BetsReader!ReaderStep(Bets, DetectorLabels)

LEMMA SameReader ==
  /\ ReaderTyped => Lemmas!ConsumerTypeOK(Bets, DetectorLabels)
  /\ Lemmas!ConsumerTypeOK(Bets, DetectorLabels)' => ReaderTyped'
  /\ ReaderSteps => Lemmas!ReaderStep(Bets, DetectorLabels)
<1>1. ReaderTyped => Lemmas!ConsumerTypeOK(Bets, DetectorLabels)
  BY DEF Lemmas!ConsumerTypeOK, BetsReader!ConsumerTypeOK, ReaderTyped
<1>2. Lemmas!ConsumerTypeOK(Bets, DetectorLabels)' => ReaderTyped'
  BY DEF Lemmas!ConsumerTypeOK, BetsReader!ConsumerTypeOK, ReaderTyped
<1>3. ReaderSteps => Lemmas!ReaderStep(Bets, DetectorLabels)
  BY DEF BetsReader!ReaderStep, Lemmas!ReaderStep, ReaderSteps,
         BetsReader!Produce, Lemmas!Produce, BetsReader!Fetch, Lemmas!Fetch,
         BetsReader!ReturnError, Lemmas!ReturnError,
         BetsReader!Crash, Lemmas!Crash, BetsReader!Resume, Lemmas!Resume,
         BetsReader!Goto, Lemmas!Goto, BetsReader!Commit, Lemmas!Commit,
         BetsReader!Offset, Lemmas!Offset, BetsReader!Rebalance, Lemmas!Rebalance,
         BetsReader!consumerVars, Lemmas!consumerVars
<1> QED
  BY <1>1, <1>2, <1>3

LEMMA ReaderStaysTyped == ReaderTyped /\ ReaderSteps => ReaderTyped'
<1> SUFFICES ASSUME ReaderTyped, ReaderSteps PROVE ReaderTyped'
  OBVIOUS
<1>1. "recent" \in DetectorLabels
  BY DEF DetectorLabels
<1>2. Lemmas!ConsumerTypeOK(Bets, DetectorLabels)'
  BY <1>1, SameReader, Lemmas!ReaderTypes
<1> QED
  BY <1>2, SameReader

\* What is on the topic stays there.
LEMMA LogGrows ==
  ASSUME ReaderTyped, ReaderSteps, NEW p \in BetPartitions
  PROVE  /\ Len(betLog[p]) \in Nat /\ Len(betLog'[p]) \in Nat
         /\ Len(betLog[p]) <= Len(betLog'[p])
         /\ \A i \in 1..Len(betLog[p]) : betLog'[p][i] = betLog[p][i]
BY SameReader, Lemmas!LogOnlyGrows

LEMMA SlipTypes ==
  ASSUME NEW b \in Bets
  PROVE  /\ Slip[b].user \in Users /\ BetPartition[Slip[b].user] \in BetPartitions
BY SlipAssumption, DetectorAssumption DEF BetSlip

LEMMA InHand ==
  ASSUME ReaderTyped, NEW d \in Detectors, fraudPc[d] # "fetch"
  PROVE  /\ fraudAt[d] \in BetPartitions \X Nat
         /\ fraudAt[d][1] \in BetPartitions
         /\ fraudAt[d][2] \in 1..Len(betLog[fraudAt[d][1]])
         /\ fraudAt[d] = <<fraudAt[d][1], fraudAt[d][2]>>
         /\ Bet(d) \in Bets /\ Bet(d) = BetAt(fraudAt[d])
BY ElementOfSeq DEF ReaderTyped, BetsReader!ConsumerTypeOK, BetsReader!Current, Bet, BetAt

-----------------------------------------------------------------------------
\* Every step of the detector is a step of its reader.

LEMMA HandlerSteps ==
  ASSUME NEW d \in Detectors, HandleBetPlaced(d)
  PROVE  /\ fraudPc[d] \in DetectorLabels
         /\ \/ \E label \in DetectorLabels \cup {"commit"} : BetsReader!Goto(d, label)
            \/ BetsReader!ReturnError(d)
<1>1. CASE GetRecentBets(d)
  BY <1>1 DEF GetRecentBets, DetectorLabels, Rules
<1>2. ASSUME NEW rule \in Rules, CheckRule(d, rule)
      PROVE  /\ fraudPc[d] = rule /\ BetsReader!Goto(d, After(rule))
             /\ After(rule) \in DetectorLabels
  BY <1>2 DEF CheckRule, After, DetectorLabels, Rules
<1>3. CASE AddBet(d)
  BY <1>3 DEF AddBet, DetectorLabels, BetsReader!ReturnNil
<1> QED
  BY <1>1, <1>2, <1>3 DEF HandleBetPlaced, DetectorLabels

LEMMA StepOfReader == [Next]_<<vars, faults>> => ReaderSteps
<1> SUFFICES ASSUME [Next]_<<vars, faults>> PROVE ReaderSteps
  OBVIOUS
<1> USE DEF ReaderSteps
<1>1. ASSUME NEW b \in Bets, PlaceBet(b) PROVE ReaderSteps
  <2>1. PICK n \in 1..2 : BetsReader!Produce(BetPartition[Slip[b].user], Copies(n, b))
    BY <1>1 DEF PlaceBet
  <2>2. Copies(n, b) \in Seq(Bets)
    BY DEF Copies
  <2> QED
    BY <1>1, <2>1, <2>2, SlipTypes DEF PlaceBet, reader, BetsReader!ReaderStep
<1>2. ASSUME NEW d \in Detectors, HandleBetPlaced(d) PROVE ReaderSteps
  <2>1. fraudPc[d] # "fetch"
    BY <1>2, HandlerSteps DEF DetectorLabels, Rules
  <2> QED
    BY <1>2, <2>1, HandlerSteps DEF BetsReader!ReaderStep
<1>3. ASSUME NEW d \in Detectors, DetectorLoop(d) PROVE ReaderSteps
  BY <1>2, <1>3 DEF DetectorLoop, BetsReader!ReaderStep
<1>4. ASSUME NEW d \in Detectors, Crash(d) PROVE ReaderSteps
  BY <1>4 DEF Crash, BetsReader!ReaderStep
<1>5. CASE Rebalance
  BY <1>5 DEF Rebalance, BetsReader!ReaderStep
<1>6. CASE Tick \/ UNCHANGED <<vars, faults>>
  BY <1>6 DEF Tick, vars, reader, BetsReader!ReaderStep, BetsReader!consumerVars
<1> QED
  BY <1>1, <1>3, <1>4, <1>5, <1>6 DEF Next

-----------------------------------------------------------------------------
\* Types.

LEMMA RuleOrder ==
  /\ After("RATE_LIMIT") = "OPPOSITE_BETS"
  /\ After("OPPOSITE_BETS") = "SUSPICIOUS_PATTERN"
  /\ After("SUSPICIOUS_PATTERN") = "add"
BY DEF After

LEMMA TypeInit == Init => TypeOK
<1> SUFFICES ASSUME Init PROVE TypeOK
  OBVIOUS
<1>1. ReaderTyped
  BY DEF Init, ReaderTyped, BetsReader!ConsumerInit, BetsReader!ConsumerTypeOK
<1> QED
  BY <1>1, WindowAssumption DEF Init, TypeOK, ReaderTyped, DetectorLabels, NothingRead

\* A call that fails, or does not, leaves the bookkeeping of the model typed.
LEMMA SpoilTypes ==
  ASSUME TypeOK, NEW d \in Detectors, fraudPc[d] # "fetch", Spoil(d) \/ Unspoiled
  PROVE  /\ spoiled \subseteq spoiled' /\ spoiled' \subseteq BetPartitions \X Nat
         /\ faults' \in Nat
         /\ Spoil(d) => fraudAt[d] \in spoiled'
BY InHand DEF TypeOK, ReaderTyped, DetectorLabels, Spoil, Unspoiled, CallOK, CallFails, Fault

LEMMA TypeStep == TypeOK /\ [Next]_<<vars, faults>> => TypeOK'
<1> SUFFICES ASSUME TypeOK, [Next]_<<vars, faults>> PROVE TypeOK'
  OBVIOUS
<1>0. ReaderTyped /\ ReaderTyped'
  BY StepOfReader, ReaderStaysTyped DEF TypeOK, ReaderTyped, DetectorLabels
<1> DEFINE Clock == now' \in 1..(MaxTime + 1) /\ placed' \in [Bets -> Nat] /\ faults' \in Nat
           Redis == window' \in [Users -> SUBSET WindowEntry] /\ expires' \in [Users -> Nat]
           Locals == recent' \in [Detectors -> [at: Nat, bets: SUBSET WindowEntry]]
           Verdicts == alerts' \subseteq checked' /\ checked' \subseteq Verdict
           Calls == spoiled' \subseteq BetPartitions \X Nat
           Kept == Clock /\ Redis /\ Locals /\ Verdicts /\ Calls
<1>1. MaxTime \in Nat /\ KeyLife \in Nat /\ NothingRead \in [at: Nat, bets: SUBSET WindowEntry]
  BY WindowAssumption DEF NothingRead
<1> DEFINE Same == UNCHANGED <<now, placed, redis, recent, verdicts, spoiled>>
<1>S. ASSUME Same, faults' \in Nat PROVE Kept
  <2>1. Clock /\ Redis
    BY <1>1, <1>S DEF TypeOK, redis
  <2>2. Locals
    BY <1>S DEF TypeOK
  <2>3. Verdicts /\ Calls
    BY <1>S DEF TypeOK, verdicts
  <2> QED
    BY <1>S, <2>1, <2>2, <2>3
<1>2. ASSUME NEW b \in Bets, PlaceBet(b) PROVE Kept
  <2>1. faults' \in Nat
    BY <1>2 DEF PlaceBet, Written, CallOK, CallFails, Fault, TypeOK
  <2> QED
    BY <1>2, <2>1 DEF PlaceBet, TypeOK, redis, verdicts
<1>3. ASSUME Tick PROVE Kept
  <2>1. Clock
    BY <1>1, <1>3 DEF Tick, TypeOK
  <2>2. Redis
    BY <1>3 DEF Tick, TypeOK
  <2>3. Locals
    BY <1>3 DEF Tick, TypeOK
  <2>4. Verdicts /\ Calls
    BY <1>3 DEF Tick, TypeOK, verdicts
  <2> QED
    BY <2>1, <2>2, <2>3, <2>4
<1>4. ASSUME NEW d \in Detectors, Crash(d) PROVE Kept
  BY <1>1, <1>4 DEF Crash, Fault, TypeOK, verdicts, redis
<1>5. ASSUME Rebalance PROVE Kept
  BY <1>S, <1>5 DEF Rebalance, Fault, TypeOK
<1>6. ASSUME NEW d \in Detectors, GetRecentBets(d) PROVE Kept
  <2>1. Calls /\ faults' \in Nat
    BY <1>6, SpoilTypes DEF GetRecentBets
  <2>2. Bet(d) \in Bets /\ Slip[Bet(d)].user \in Users
    BY <1>0, <1>6, InHand, SlipTypes DEF GetRecentBets
  <2>3. Locals
    BY <1>6, <2>2 DEF GetRecentBets, TypeOK
  <2> QED
    BY <1>6, <2>1, <2>3 DEF GetRecentBets, TypeOK, verdicts, redis
<1>7. ASSUME NEW d \in Detectors, NEW rule \in Rules, CheckRule(d, rule) PROVE Kept
  <2>1. fraudPc[d] # "fetch"
    BY <1>7 DEF CheckRule, Rules
  <2>2. Calls /\ faults' \in Nat
    BY <1>7, <2>1, SpoilTypes DEF CheckRule
  <2> DEFINE verdict == [rule |-> rule, msg |-> fraudAt[d],
                         at |-> IF rule = "RATE_LIMIT" THEN now ELSE recent[d].at]
  <2>3. verdict \in Verdict
    BY <1>0, <2>1, InHand DEF Verdict, TypeOK
  <2>4. checked' = checked \cup {verdict} /\ alerts' \in {alerts, alerts \cup {verdict}}
    BY <1>7 DEF CheckRule
  <2> QED
    BY <1>7, <2>2, <2>3, <2>4 DEF CheckRule, TypeOK, redis
<1>8. ASSUME NEW d \in Detectors, AddBet(d) PROVE Kept
  <2>1. Calls /\ faults' \in Nat
    BY <1>8, SpoilTypes DEF AddBet
  <2>2. Bet(d) \in Bets /\ Slip[Bet(d)].user \in Users
    BY <1>0, <1>8, InHand, SlipTypes DEF AddBet
  <2>3. RecentBet(Bet(d)) \in WindowEntry /\ Expiry \in Nat
    BY <1>1, <2>2 DEF RecentBet, WindowEntry, PlacedAt, Expiry, TypeOK
  <2>4. Redis
    BY <1>8, <2>2, <2>3 DEF AddBet, ZAdd, Expire, TypeOK, redis
  <2> QED
    BY <1>1, <1>8, <2>1, <2>4 DEF AddBet, TypeOK, verdicts
<1>9. ASSUME NEW d \in Detectors, DetectorLoop(d) PROVE Kept
  <2>1. CASE HandleBetPlaced(d)
    BY <1>6, <1>7, <1>8, <2>1 DEF HandleBetPlaced
  <2>2. CASE ~HandleBetPlaced(d)
    <3>1. UNCHANGED <<now, placed, redis, recent, verdicts, spoiled>> /\ (CallOK \/ CallFails)
      BY <1>9, <2>2 DEF DetectorLoop
    <3>2. faults' \in Nat
      BY <3>1 DEF CallOK, CallFails, Fault, TypeOK
    <3> QED
      BY <1>S, <3>1, <3>2
  <2> QED
    BY <2>1, <2>2
<1>10. ASSUME UNCHANGED <<vars, faults>> PROVE Kept
  BY <1>S, <1>10 DEF vars, TypeOK
<1>11. Kept
  BY <1>2, <1>3, <1>4, <1>5, <1>9, <1>10 DEF Next
<1> QED
  BY <1>0, <1>11 DEF TypeOK, ReaderTyped, DetectorLabels

\* The detector's state keeps its types.
THEOREM DetectorTypes == Spec => []TypeOK
<1> QED
  BY TypeInit, TypeStep, PTL DEF Spec

-----------------------------------------------------------------------------
\* What a step may do to each part of the state.

Logged(msg) == msg[1] \in BetPartitions /\ msg[2] \in 1..Len(betLog[msg[1]])

LEMMA ReaderTypes ==
  TypeOK => /\ ReaderTyped
            /\ fraudPc \in [Detectors -> DetectorLabels \cup {"fetch", "commit"}]
            /\ fraudAt \in [Detectors -> (BetPartitions \X Nat) \cup {NoMessage}]
BY DEF TypeOK, ReaderTyped, DetectorLabels, BetsReader!ConsumerTypeOK

LEMMA MessagesStay ==
  ASSUME TypeOK, [Next]_<<vars, faults>>, NEW msg, Logged(msg)
  PROVE  Logged(msg)' /\ BetAt(msg)' = BetAt(msg) /\ BetAt(msg) \in Bets
<1>1. betLog[msg[1]] \in Seq(Bets)
  BY ReaderTypes DEF ReaderTyped, BetsReader!ConsumerTypeOK, Logged
<1>2. BetAt(msg) \in Bets
  BY <1>1, ElementOfSeq DEF Logged, BetAt
<1> QED
  BY <1>2, ReaderTypes, StepOfReader, LogGrows DEF Logged, BetAt

\* A handler that is running after a step was running before it, unless its
\* message was just fetched.
LEMMA HandsStay ==
  ASSUME TypeOK, [Next]_<<vars, faults>>, NEW d \in Detectors,
         fraudPc[d] # "fetch", fraudPc'[d] # "fetch"
  PROVE  fraudAt'[d] = fraudAt[d] /\ Bet(d)' = Bet(d) /\ Logged(fraudAt[d])
<1>1. Logged(fraudAt[d])
  BY ReaderTypes, InHand DEF Logged
<1>2. fraudAt'[d] = fraudAt[d]
  BY ReaderTypes, StepOfReader
     DEF ReaderSteps, BetsReader!ReaderStep, BetsReader!Fetch, BetsReader!ReturnError,
         BetsReader!Crash, BetsReader!Goto, BetsReader!Commit, BetsReader!Rebalance,
         BetsReader!consumerVars
<1> QED
  BY <1>1, <1>2, MessagesStay DEF Bet, BetsReader!Current, BetAt

\* Stamps are given once, and never lie in the future.
LEMMA StampsStay ==
  ASSUME TypeOK, \A b \in Bets : placed[b] <= now, [Next]_<<vars, faults>>
  PROVE  /\ now <= now' /\ now \in Int /\ now' \in Int
         /\ \A b \in Bets : placed[b] \in Nat /\ placed'[b] \in Nat /\ placed'[b] <= now'
         /\ \A b \in Bets : placed[b] # 0 => placed'[b] = placed[b]
<1>1. TypeOK'
  BY TypeStep
<1>2. now \in Int /\ now' \in Int /\ now >= 1
  BY <1>1, WindowAssumption DEF TypeOK
<1>3. UNCHANGED now \/ now' = now + 1
  BY DEF Next, PlaceBet, DetectorLoop, HandleBetPlaced, GetRecentBets, CheckRule, AddBet,
         Crash, Tick, Rebalance, vars
<1>4. \/ UNCHANGED placed
      \/ \E b \in Bets, t \in 1..now : placed[b] = 0 /\ placed' = [placed EXCEPT ![b] = t]
  BY DEF Next, PlaceBet, DetectorLoop, HandleBetPlaced, GetRecentBets, CheckRule, AddBet,
         Crash, Tick, Rebalance, vars
<1>5. now <= now'
  BY <1>2, <1>3
<1>6. placed \in [Bets -> Nat] /\ placed' \in [Bets -> Nat]
  BY <1>1 DEF TypeOK
<1>7. \A b \in Bets : placed'[b] <= now' /\ (placed[b] # 0 => placed'[b] = placed[b])
  BY <1>2, <1>4, <1>5, <1>6
<1> QED
  BY <1>2, <1>5, <1>6, <1>7

\* An entry comes into a window when its bet is added.
LEMMA WindowSteps ==
  ASSUME TypeOK, [Next]_<<vars, faults>>, NEW u \in Users
  PROVE  \/ window'[u] = window[u] \/ window'[u] = {}
         \/ \E d \in Detectors : /\ AddBet(d) /\ u = Slip[Bet(d)].user
                                /\ window'[u] = window[u] \cup {RecentBet(Bet(d))}
<1> DEFINE Added == \E d \in Detectors : /\ AddBet(d) /\ u = Slip[Bet(d)].user
                                /\ window'[u] = window[u] \cup {RecentBet(Bet(d))}
<1>0. window \in [Users -> SUBSET WindowEntry]
  BY DEF TypeOK
<1>1. ASSUME NEW d \in Detectors, AddBet(d) PROVE window'[u] = window[u] \/ Added
  <2>1. window' = window \/ ZAdd(Slip[Bet(d)].user, Bet(d))
    BY <1>1 DEF AddBet, redis
  <2> QED
    BY <1>0, <1>1, <2>1 DEF ZAdd
<1>2. ASSUME Tick PROVE window'[u] = window[u] \/ window'[u] = {}
  BY <1>2 DEF Tick
<1>3. UNCHANGED window \/ Tick \/ \E d \in Detectors : AddBet(d)
  BY DEF Next, PlaceBet, DetectorLoop, HandleBetPlaced, GetRecentBets, CheckRule,
         Crash, Rebalance, vars, redis
<1> QED
  BY <1>1, <1>2, <1>3

\* What GetRecentBets reads.
Found(d) == {x \in window[Slip[Bet(d)].user] : x.placed \in (now - Window)..now}

\* A handler that has its rules to check has them from before, or has just read
\* the window.
LEMMA RuleSteps ==
  ASSUME TypeOK, [Next]_<<vars, faults>>, NEW d \in Detectors, fraudPc'[d] \in Rules
  PROVE  /\ fraudPc[d] # "fetch" /\ fraudPc'[d] # "fetch"
         /\ \/ fraudPc[d] \in Rules /\ UNCHANGED recent[d]
            \/ /\ fraudPc[d] = "recent" /\ fraudPc'[d] = "RATE_LIMIT"
               /\ recent'[d] = [at |-> now, bets |-> Found(d)]
               /\ UNCHANGED <<now, placed, betLog, spoiled, checked, alerts>>
<1> DEFINE G == /\ fraudPc[d] # "fetch" /\ fraudPc'[d] # "fetch"
                /\ \/ fraudPc[d] \in Rules /\ UNCHANGED recent[d]
                   \/ /\ fraudPc[d] = "recent" /\ fraudPc'[d] = "RATE_LIMIT"
                      /\ recent'[d] = [at |-> now, bets |-> Found(d)]
                      /\ UNCHANGED <<now, placed, betLog, spoiled, checked, alerts>>
<1>0. /\ fraudPc \in [Detectors -> DetectorLabels \cup {"fetch", "commit"}]
      /\ recent \in [Detectors -> [at: Nat, bets: SUBSET WindowEntry]]
  BY ReaderTypes DEF TypeOK
<1>1. fraudPc'[d] \notin {"fetch", "commit", "recent", "add"}
  BY DEF Rules
<1>2. ASSUME UNCHANGED <<fraudPc, recent>> PROVE G
  BY <1>1, <1>2
<1>3. ASSUME NEW e \in Detectors, GetRecentBets(e) PROVE G
  <2>1. CASE e = d
    BY <1>0, <1>1, <1>3, <2>1 DEF GetRecentBets, BetsReader!Goto, BetsReader!ReturnError, Found,
         Rules, Unspoiled, verdicts
  <2>2. CASE e # d
    BY <1>0, <1>1, <1>3, <2>2 DEF GetRecentBets, BetsReader!Goto, BetsReader!ReturnError
  <2> QED
    BY <2>1, <2>2
<1>4. ASSUME NEW e \in Detectors, NEW rule \in Rules, CheckRule(e, rule) PROVE G
  <2>1. /\ fraudPc[e] = rule /\ fraudPc' = [fraudPc EXCEPT ![e] = After(rule)]
        /\ UNCHANGED recent
    BY <1>4 DEF CheckRule, BetsReader!Goto
  <2> QED
    BY <1>0, <1>1, <2>1 DEF Rules
<1>5. ASSUME NEW e \in Detectors, AddBet(e) PROVE G
  BY <1>0, <1>1, <1>5 DEF AddBet, BetsReader!ReturnNil, BetsReader!Goto
<1>6. ASSUME NEW e \in Detectors, Crash(e) PROVE G
  BY <1>0, <1>1, <1>6 DEF Crash, BetsReader!Crash
<1>7. ASSUME NEW e \in Detectors, DetectorLoop(e) PROVE G
  BY <1>0, <1>1, <1>3, <1>4, <1>5, <1>7
     DEF DetectorLoop, HandleBetPlaced, BetsReader!Fetch, BetsReader!Commit
<1>8. ASSUME \/ \E b \in Bets : PlaceBet(b)
             \/ Tick \/ Rebalance \/ UNCHANGED <<vars, faults>>
      PROVE  G
  BY <1>2, <1>8 DEF PlaceBet, Tick, Rebalance, vars, reader, BetsReader!Rebalance
<1> QED
  BY <1>6, <1>7, <1>8 DEF Next

\* A verdict comes from a rule that looks at its bet.
LEMMA VerdictSteps ==
  ASSUME TypeOK, [Next]_<<vars, faults>>
  PROVE  \/ UNCHANGED <<checked, alerts>>
         \/ \E d \in Detectors, rule \in Rules : CheckRule(d, rule)
BY DEF Next, PlaceBet, DetectorLoop, HandleBetPlaced, GetRecentBets, AddBet,
       Crash, Tick, Rebalance, vars, verdicts

LEMMA SpoilSteps ==
  ASSUME TypeOK, [Next]_<<vars, faults>>
  PROVE  spoiled \subseteq spoiled'
BY DEF Next, PlaceBet, DetectorLoop, HandleBetPlaced, GetRecentBets, AddBet, CheckRule,
       Crash, Tick, Rebalance, vars, Spoil, Unspoiled

-----------------------------------------------------------------------------
\* The bets an alert is about were placed.

LEMMA InPlacedBefore ==
  ASSUME NEW u, NEW t, NEW x
  PROVE  /\ x \in PlacedBefore(u, t) <=>
              \E b \in Bets : /\ x = [bet |-> b, placed |-> placed[b]]
                              /\ Slip[b].user = u /\ placed[b] # 0
                              /\ placed[b] \in (t - Window)..t
         /\ x \in PlacedBefore(u, t)' <=>
              \E b \in Bets : /\ x = [bet |-> b, placed |-> placed'[b]]
                              /\ Slip[b].user = u /\ placed'[b] # 0
                              /\ placed'[b] \in (t - Window)..t
BY DEF PlacedBefore

LEMMA PlacedBeforeGrows ==
  ASSUME TypeOK, \A b \in Bets : placed[b] <= now, [Next]_<<vars, faults>>, NEW u, NEW t
  PROVE  PlacedBefore(u, t) \subseteq PlacedBefore(u, t)'
<1> SUFFICES ASSUME NEW x \in PlacedBefore(u, t) PROVE x \in PlacedBefore(u, t)'
  OBVIOUS
<1> QED
  BY InPlacedBefore, StampsStay

\* The strengthening: what is on the topic or in a window was placed, by that user
\* and at that time, and what a handler found was placed before it looked.
PlacedInv ==
  /\ \A b \in Bets : placed[b] <= now
  /\ \A p \in BetPartitions : \A i \in 1..Len(betLog[p]) : placed[betLog[p][i]] # 0
  /\ \A u \in Users : \A x \in window[u] :
       x = [bet |-> x.bet, placed |-> placed[x.bet]] /\ Slip[x.bet].user = u /\ x.placed # 0
  /\ \A d \in Detectors : fraudPc[d] \in Rules =>
       /\ recent[d].at <= now
       /\ recent[d].bets \subseteq PlacedBefore(Slip[Bet(d)].user, recent[d].at)
  /\ \A c \in checked : Logged(c.msg)
  /\ AlertsAreDeserved

LEMMA PlacedInit == Init => PlacedInv
<1> SUFFICES ASSUME Init PROVE PlacedInv
  OBVIOUS
<1>1. /\ now = 1 /\ placed = [b \in Bets |-> 0] /\ window = [u \in Users |-> {}]
      /\ alerts = {} /\ checked = {}
      /\ betLog = [p \in BetPartitions |-> <<>>] /\ fraudPc = [d \in Detectors |-> "fetch"]
  BY DEF Init, BetsReader!ConsumerInit
<1> QED
  BY <1>1 DEF PlacedInv, Rules, AlertsAreDeserved

\* What a rule found out about bets that were placed was true of a set of them.
LEMMA FoundWerePlaced ==
  ASSUME TypeOK, PlacedInv, NEW d \in Detectors, NEW rule \in Rules, fraudPc[d] = rule,
         NEW t, t = (IF rule = "RATE_LIMIT" THEN now ELSE recent[d].at),
         Objects(rule, Bet(d), recent[d].bets, t)
  PROVE  \E found \in SUBSET PlacedBefore(Slip[Bet(d)].user, t) :
           Objects(rule, Bet(d), found, t)
<1> DEFINE u == Slip[Bet(d)].user
           bets == recent[d].bets
<1>1. bets \subseteq PlacedBefore(u, recent[d].at) /\ recent[d].at <= now
  BY DEF PlacedInv
<1>2. CASE rule # "RATE_LIMIT"
  BY <1>1, <1>2
<1>3. CASE rule = "RATE_LIMIT"
  <2> DEFINE late == {x \in bets : x.placed > t - RateWindow}
  <2>1. TooMany(late, t)
    <3>1. {x \in late : x.placed > t - RateWindow} = late
      OBVIOUS
    <3> QED
      BY <1>3, <3>1 DEF Objects, TooMany
  <2>2. late \subseteq PlacedBefore(u, t)
    <3> SUFFICES ASSUME NEW x \in late PROVE x \in PlacedBefore(u, t)
      OBVIOUS
    <3>1. PICK b \in Bets : /\ x = [bet |-> b, placed |-> placed[b]]
                            /\ Slip[b].user = u /\ placed[b] # 0
                            /\ placed[b] <= recent[d].at
      BY <1>1, InPlacedBefore
    <3>2. placed[b] \in Nat /\ now \in Int /\ recent[d].at \in Nat
      BY WindowAssumption DEF TypeOK
    <3>3. placed[b] > now - RateWindow /\ placed[b] <= now
      BY <1>1, <1>3, <3>1, <3>2
    <3>4. placed[b] \in (t - Window)..t
      BY <1>3, <3>2, <3>3, WindowAssumption
    <3> QED
      BY <3>1, <3>4, InPlacedBefore
  <2> QED
    BY <1>3, <2>1, <2>2 DEF Objects
<1> QED
  BY <1>2, <1>3

\* What comes onto the topic was placed in the same step.
LEMMA LogSteps ==
  ASSUME TypeOK, \A b \in Bets : placed[b] <= now, [Next]_<<vars, faults>>,
         NEW p \in BetPartitions, NEW i \in 1..Len(betLog'[p])
  PROVE  \/ Logged(<<p, i>>) /\ betLog'[p][i] = betLog[p][i]
         \/ betLog'[p][i] \in Bets /\ placed'[betLog'[p][i]] # 0
<1>0. ReaderTyped /\ betLog \in [BetPartitions -> Seq(Bets)]
  BY ReaderTypes DEF ReaderTyped, BetsReader!ConsumerTypeOK
<1>1. ASSUME UNCHANGED betLog PROVE Logged(<<p, i>>) /\ betLog'[p][i] = betLog[p][i]
  BY <1>1 DEF Logged
<1>2. ASSUME NEW b \in Bets, PlaceBet(b)
      PROVE  \/ Logged(<<p, i>>) /\ betLog'[p][i] = betLog[p][i]
             \/ betLog'[p][i] \in Bets /\ placed'[betLog'[p][i]] # 0
  <2>1. PICK n \in 1..2 : BetsReader!Produce(BetPartition[Slip[b].user], Copies(n, b))
    BY <1>2 DEF PlaceBet
  <2>2. placed'[b] # 0
    BY <1>2 DEF PlaceBet, TypeOK
  <2>3. Copies(n, b) \in Seq(Bets) /\ Len(Copies(n, b)) = n
        /\ \A j \in 1..n : Copies(n, b)[j] = b
    BY DEF Copies
  <2>4. \/ betLog'[p] = betLog[p]
        \/ betLog'[p] = betLog[p] \o Copies(n, b)
    BY <1>0, <2>1 DEF BetsReader!Produce
  <2>5. betLog[p] \in Seq(Bets) /\ Len(betLog[p]) \in Nat
    BY <1>0, LenProperties
  <2>6. CASE betLog'[p] = betLog[p]
    BY <2>6 DEF Logged
  <2>7. CASE betLog'[p] = betLog[p] \o Copies(n, b)
    <3>1. i \in 1..(Len(betLog[p]) + n)
      BY <2>3, <2>5, <2>7, ConcatProperties
    <3>2. betLog'[p][i] = IF i <= Len(betLog[p]) THEN betLog[p][i]
                          ELSE Copies(n, b)[i - Len(betLog[p])]
      BY <2>3, <2>5, <2>7, <3>1, ConcatProperties
    <3> QED
      BY <2>2, <2>3, <2>5, <3>1, <3>2 DEF Logged
  <2> QED
    BY <2>4, <2>6, <2>7
<1>3. UNCHANGED betLog \/ \E b \in Bets : PlaceBet(b)
  BY DEF Next, DetectorLoop, HandleBetPlaced, GetRecentBets, CheckRule, AddBet,
         Crash, Tick, Rebalance, vars, BetsReader!Goto, BetsReader!ReturnNil,
         BetsReader!ReturnError, BetsReader!Crash, BetsReader!Rebalance,
         BetsReader!Fetch, BetsReader!Commit
<1> QED
  BY <1>1, <1>2, <1>3

LEMMA PlacedStep == TypeOK /\ PlacedInv /\ [Next]_<<vars, faults>> => PlacedInv'
<1> SUFFICES ASSUME TypeOK, PlacedInv, [Next]_<<vars, faults>> PROVE PlacedInv'
  OBVIOUS
<1>0. /\ TypeOK' /\ ReaderTyped
      /\ \A b \in Bets : placed[b] <= now
  BY TypeStep, ReaderTypes DEF PlacedInv
<1>1. \A b \in Bets : placed'[b] <= now'
  BY <1>0, StampsStay
<1>2. ASSUME NEW p \in BetPartitions, NEW i \in 1..Len(betLog'[p])
      PROVE  placed'[betLog'[p][i]] # 0
  <2>1. CASE Logged(<<p, i>>) /\ betLog'[p][i] = betLog[p][i]
    <3>1. betLog[p][i] \in Bets /\ placed[betLog[p][i]] # 0
      <4>1. BetAt(<<p, i>>) = betLog[p][i]
        BY DEF BetAt
      <4>2. i \in 1..Len(betLog[p])
        BY <2>1 DEF Logged
      <4> QED
        BY <2>1, <4>1, <4>2, MessagesStay DEF PlacedInv
    <3> QED
      BY <1>0, <2>1, <3>1, StampsStay
  <2> QED
    BY <1>0, <1>2, <2>1, LogSteps
<1>3. ASSUME NEW u \in Users, NEW x \in window'[u]
      PROVE  /\ x = [bet |-> x.bet, placed |-> placed'[x.bet]]
             /\ Slip[x.bet].user = u /\ x.placed # 0
  <2>1. CASE x \in window[u]
    <3>1. /\ x = [bet |-> x.bet, placed |-> placed[x.bet]]
          /\ Slip[x.bet].user = u /\ x.placed # 0
      BY <2>1 DEF PlacedInv
    <3>2. x.bet \in Bets
      BY <2>1 DEF TypeOK, WindowEntry
    <3> QED
      BY <1>0, <3>1, <3>2, StampsStay
  <2>2. ASSUME NEW d \in Detectors, AddBet(d), u = Slip[Bet(d)].user, x = RecentBet(Bet(d))
        PROVE  /\ x = [bet |-> x.bet, placed |-> placed'[x.bet]]
               /\ Slip[x.bet].user = u /\ x.placed # 0
    <3>1. Bet(d) \in Bets /\ placed[Bet(d)] # 0
      BY <1>0, <2>2, InHand DEF AddBet, PlacedInv, BetAt
    <3> QED
      BY <1>0, <2>2, <3>1, StampsStay DEF RecentBet, PlacedAt
  <2> QED
    BY <1>3, <2>1, <2>2, WindowSteps
<1>4. ASSUME NEW d \in Detectors, fraudPc'[d] \in Rules
      PROVE  /\ recent'[d].at <= now'
             /\ (recent[d].bets \subseteq PlacedBefore(Slip[Bet(d)].user, recent[d].at))'
  <2>0. fraudPc[d] # "fetch" /\ Bet(d)' = Bet(d) /\ Bet(d) \in Bets
    BY <1>0, <1>4, RuleSteps, HandsStay, InHand
  <2> DEFINE WasPlaced(x) ==
        \E b \in Bets : /\ x = [bet |-> b, placed |-> placed[b]]
                        /\ Slip[b].user = Slip[Bet(d)].user /\ placed[b] # 0
                        /\ placed[b] \in (recent'[d].at - Window)..recent'[d].at
  <2>1. recent'[d].at <= now /\ \A x \in recent'[d].bets : WasPlaced(x)
    <3>1. CASE fraudPc[d] \in Rules /\ UNCHANGED recent[d]
      BY <3>1 DEF PlacedInv, PlacedBefore
    <3>2. CASE recent'[d] = [at |-> now, bets |-> Found(d)]
      <4> SUFFICES ASSUME NEW x \in Found(d) PROVE WasPlaced(x)
        BY <1>0, <3>2, StampsStay
      <4>1. /\ x = [bet |-> x.bet, placed |-> placed[x.bet]]
            /\ Slip[x.bet].user = Slip[Bet(d)].user
            /\ x.placed # 0 /\ x.placed \in (now - Window)..now
        BY <2>0, SlipTypes DEF PlacedInv, Found
      <4>2. x.bet \in Bets
        BY <2>0, SlipTypes DEF Found, TypeOK, WindowEntry
      <4> QED
        BY <3>2, <4>1, <4>2
    <3> QED
      BY <1>4, <3>1, <3>2, RuleSteps
  <2>2. recent'[d].at <= now'
    BY <1>0, <2>1, StampsStay DEF TypeOK
  <2>3. ASSUME NEW x \in recent'[d].bets
        PROVE  x \in PlacedBefore(Slip[Bet(d)].user, recent[d].at)'
    BY <1>0, <2>0, <2>1, <2>3, StampsStay DEF PlacedBefore
  <2> QED
    BY <2>2, <2>3
<1>L. ASSUME NEW c \in checked' PROVE Logged(c.msg)
  BY <1>0, <1>L, VerdictSteps, InHand DEF CheckRule, PlacedInv, Logged, Rules
<1>5. ASSUME NEW c \in checked' PROVE Logged(c.msg)'
  BY <1>5, <1>L, MessagesStay
<1>6. ASSUME NEW a \in alerts'
      PROVE  (\E found \in SUBSET PlacedBefore(Slip[BetAt(a.msg)].user, a.at) :
               Objects(a.rule, BetAt(a.msg), found, a.at))'
  <2> SUFFICES \E found \in SUBSET PlacedBefore(Slip[BetAt(a.msg)].user, a.at) :
                 Objects(a.rule, BetAt(a.msg), found, a.at)
    <3>1. Logged(a.msg)
      <4>1. a \in checked'
        BY <1>0, <1>6 DEF TypeOK
      <4> QED
        BY <4>1, <1>L
    <3>2. BetAt(a.msg)' = BetAt(a.msg)
      BY <3>1, MessagesStay
    <3>3. PlacedBefore(Slip[BetAt(a.msg)].user, a.at)
            \subseteq PlacedBefore(Slip[BetAt(a.msg)].user, a.at)'
      BY <1>0, <3>2, StampsStay DEF PlacedBefore
    <3> QED
      BY <3>2, <3>3
  <2>1. CASE a \in alerts
    BY <2>1 DEF PlacedInv, AlertsAreDeserved
  <2>2. ASSUME NEW d \in Detectors, NEW rule \in Rules, CheckRule(d, rule), a \notin alerts
        PROVE  \E found \in SUBSET PlacedBefore(Slip[BetAt(a.msg)].user, a.at) :
                 Objects(a.rule, BetAt(a.msg), found, a.at)
    <3> DEFINE t == IF rule = "RATE_LIMIT" THEN now ELSE recent[d].at
    <3>1. /\ a = [rule |-> rule, msg |-> fraudAt[d], at |-> t]
          /\ fraudPc[d] = rule /\ Objects(rule, Bet(d), recent[d].bets, t)
      BY <1>6, <2>2 DEF CheckRule
    <3>2. Bet(d) = BetAt(a.msg)
      BY <1>0, <3>1, InHand DEF Rules
    <3> QED
      BY <3>1, <3>2, FoundWerePlaced
  <2> QED
    BY <1>6, <2>1, <2>2, VerdictSteps
<1> QED
  BY <1>1, <1>2, <1>3, <1>4, <1>5, <1>6 DEF PlacedInv, AlertsAreDeserved

\* No alert without its bets: whatever is written or delivered twice, each alert is
\* explained by bets its user placed in the window, each counted once
\* (HandleBetPlaced and the three rules of internal/service/fraud).
THEOREM AlertsStateFacts == Spec => []AlertsAreDeserved
<1>1. Init => TypeOK /\ PlacedInv
  BY TypeInit, PlacedInit
<1>2. TypeOK /\ PlacedInv /\ [Next]_<<vars, faults>> => TypeOK' /\ PlacedInv'
  BY TypeStep, PlacedStep
<1>3. PlacedInv => AlertsAreDeserved
  BY DEF PlacedInv
<1> QED
  BY <1>1, <1>2, <1>3, PTL DEF Spec

-----------------------------------------------------------------------------
\* What is done with a message was done in full, or a call failed.

\* Every rule looked at the bet of message msg.
Screened(msg) ==
  \/ msg \in spoiled
  \/ \A rule \in Rules : \E c \in checked : c.rule = rule /\ c.msg = msg

\* The user's window has that bet, and keeps it for as long as a later bet can
\* look back at it: its key has no TTL or lives longer than that.
Kept(msg) ==
  LET b == BetAt(msg)
      u == Slip[b].user
  IN  \/ msg \in spoiled
      \/ now >= placed[b] + KeyLife
      \/ /\ [bet |-> b, placed |-> placed[b]] \in window[u]
         /\ expires[u] = 0 \/ expires[u] >= placed[b] + KeyLife

Handled == {msg \in BetPartitions \X Nat : Logged(msg) /\ Screened(msg) /\ Kept(msg)}

\* The rules that have looked at a bet when its handler is at this label.
Passed(label) ==
  {rule \in Rules : \/ label = "add"
                    \/ label = "SUSPICIOUS_PATTERN" /\ rule # "SUSPICIOUS_PATTERN"
                    \/ label = "OPPOSITE_BETS" /\ rule = "RATE_LIMIT"}

\* A verdict that is no alert had no reason to be one in the earlier bets.
Justified(c) ==
  c.rule # "SUSPICIOUS_PATTERN" /\ c.msg \notin spoiled
    => /\ IsFiniteSet(Earlier(c.msg, c.at))
       /\ ~Objects(c.rule, BetAt(c.msg), Earlier(c.msg, c.at), c.at)

\* What detector d found holds everything it had to find.
FoundAll(d) ==
  /\ IsFiniteSet(recent[d].bets)
  /\ \A i \in 1..(fraudAt[d][2] - 1) : placed[betLog[fraudAt[d][1]][i]] <= recent[d].at
  /\ Earlier(fraudAt[d], recent[d].at) \subseteq recent[d].bets

ScreenInv ==
  /\ Lemmas!Orderly(Handled)
  /\ \A u \in Users : IsFiniteSet(window[u])
  /\ \A d \in Detectors : \A rule \in Passed(fraudPc[d]) :
       \E c \in checked : c.rule = rule /\ c.msg = fraudAt[d]
  /\ \A d \in Detectors : fraudPc[d] \in Rules => FoundAll(d)
  /\ \A c \in checked \ alerts : Justified(c)

LEMMA ExpirySteps ==
  ASSUME TypeOK, [Next]_<<vars, faults>>
  PROVE  UNCHANGED redis \/ Tick \/ \E d \in Detectors : AddBet(d)
BY DEF Next, PlaceBet, DetectorLoop, HandleBetPlaced, GetRecentBets, CheckRule,
       Crash, Rebalance, vars

\* A bet that is kept stays kept: when its key dies, no later bet looks that far.
LEMMA KeptStays ==
  ASSUME TypeOK, PlacedInv, [Next]_<<vars, faults>>, NEW msg, Logged(msg), Kept(msg)
  PROVE  Kept(msg)'
<1> DEFINE b == BetAt(msg)
           u == Slip[b].user
           until == placed[b] + KeyLife
<1>0. /\ b \in Bets /\ u \in Users /\ b' = b
      /\ placed[b] # 0 /\ KeyLife \in Nat
  BY MessagesStay, SlipTypes, WindowAssumption DEF PlacedInv, Logged, BetAt
<1>1. /\ placed[b] \in Nat /\ placed'[b] = placed[b] /\ placed[b] <= now
      /\ now \in Int /\ now' \in Int /\ now <= now'
  BY <1>0, StampsStay DEF PlacedInv
<1>2. spoiled \subseteq spoiled'
  BY SpoilSteps
<1> SUFFICES ASSUME msg \notin spoiled, now' < until
             PROVE  /\ [bet |-> b, placed |-> placed[b]] \in window'[u]
                    /\ expires'[u] = 0 \/ expires'[u] >= until
  BY <1>0, <1>1, <1>2 DEF Kept
<1>3. /\ [bet |-> b, placed |-> placed[b]] \in window[u]
      /\ expires[u] = 0 \/ expires[u] >= until
  BY <1>1, <1>0 DEF Kept
<1>T. /\ window \in [Users -> SUBSET WindowEntry] /\ expires \in [Users -> Nat]
  BY DEF TypeOK
<1>4. CASE UNCHANGED redis
  BY <1>3, <1>4 DEF redis
<1>5. CASE Tick
  <2>1. expires[u] # now'
    BY <1>0, <1>1, <1>3, <1>5, <1>T, WindowAssumption DEF Tick, TypeOK
  <2> QED
    BY <1>0, <1>3, <1>5, <1>T, <2>1 DEF Tick
<1>6. ASSUME NEW d \in Detectors, AddBet(d)
      PROVE  /\ [bet |-> b, placed |-> placed[b]] \in window'[u]
             /\ expires'[u] = 0 \/ expires'[u] >= until
  <2>1. window' = window \/ ZAdd(Slip[Bet(d)].user, Bet(d))
    BY <1>6 DEF AddBet, redis
  <2>2. window[u] \subseteq window'[u]
    BY <1>0, <1>T, <2>1 DEF ZAdd
  <2>3. expires' = expires \/ Expire(Slip[Bet(d)].user)
    BY <1>6 DEF AddBet, redis
  <2>4. expires'[u] = expires[u] \/ expires'[u] = now + KeyLife
    BY <1>0, <1>T, <2>3 DEF Expire, Expiry
  <2> QED
    BY <1>0, <1>1, <1>3, <2>2, <2>4
<1> QED
  BY <1>4, <1>5, <1>6, ExpirySteps

LEMMA ScreenedStays ==
  ASSUME TypeOK, [Next]_<<vars, faults>>
  PROVE  /\ checked \subseteq checked'
         /\ \A msg : Screened(msg) => Screened(msg)'
<1>1. checked \subseteq checked'
  BY VerdictSteps DEF CheckRule
<1> QED
  BY <1>1, SpoilSteps DEF Screened

LEMMA HandledStays ==
  ASSUME TypeOK, PlacedInv, [Next]_<<vars, faults>>
  PROVE  Handled \subseteq Handled'
<1> SUFFICES ASSUME NEW msg \in Handled PROVE msg \in Handled'
  OBVIOUS
<1>1. msg \in BetPartitions \X Nat /\ Logged(msg) /\ Screened(msg) /\ Kept(msg)
  BY DEF Handled
<1>2. Logged(msg)' /\ Screened(msg)' /\ Kept(msg)'
  BY <1>1, MessagesStay, ScreenedStays, KeptStays
<1> QED
  BY <1>1, <1>2 DEF Handled

\* How a handler moves.
LEMMA PcSteps ==
  ASSUME TypeOK, [Next]_<<vars, faults>>, NEW d \in Detectors
  PROVE  \/ UNCHANGED fraudPc[d]
         \/ fraudPc[d] = "fetch" /\ fraudPc'[d] = "recent"
         \/ fraudPc[d] = "commit" /\ fraudPc'[d] = "fetch"
         \/ BetsReader!Crash(d)
         \/ GetRecentBets(d) /\ fraudPc'[d] = "RATE_LIMIT"
         \/ GetRecentBets(d) /\ fraudPc'[d] = "fetch" /\ Spoil(d)
         \/ \E rule \in Rules : CheckRule(d, rule) /\ fraudPc'[d] = After(rule)
         \/ AddBet(d) /\ fraudPc'[d] = "commit"
<1> DEFINE G == \/ UNCHANGED fraudPc[d]
                \/ fraudPc[d] = "fetch" /\ fraudPc'[d] = "recent"
                \/ fraudPc[d] = "commit" /\ fraudPc'[d] = "fetch"
                \/ BetsReader!Crash(d)
                \/ GetRecentBets(d) /\ fraudPc'[d] = "RATE_LIMIT"
                \/ GetRecentBets(d) /\ fraudPc'[d] = "fetch" /\ Spoil(d)
                \/ \E rule \in Rules : CheckRule(d, rule) /\ fraudPc'[d] = After(rule)
                \/ AddBet(d) /\ fraudPc'[d] = "commit"
<1>0. fraudPc \in [Detectors -> DetectorLabels \cup {"fetch", "commit"}]
  BY ReaderTypes
<1>1. ASSUME NEW e \in Detectors, GetRecentBets(e) PROVE G
  <2>1. \/ fraudPc' = [fraudPc EXCEPT ![e] = "RATE_LIMIT"]
        \/ fraudPc' = [fraudPc EXCEPT ![e] = "fetch"] /\ Spoil(e)
    BY <1>1 DEF GetRecentBets, BetsReader!Goto, BetsReader!ReturnError
  <2> QED
    BY <1>0, <1>1, <2>1
<1>2. ASSUME NEW e \in Detectors, NEW rule \in Rules, CheckRule(e, rule) PROVE G
  <2>1. fraudPc' = [fraudPc EXCEPT ![e] = After(rule)]
    BY <1>2 DEF CheckRule, BetsReader!Goto
  <2> QED
    BY <1>0, <1>2, <2>1
<1>3. ASSUME NEW e \in Detectors, AddBet(e) PROVE G
  <2>1. fraudPc' = [fraudPc EXCEPT ![e] = "commit"]
    BY <1>3 DEF AddBet, BetsReader!ReturnNil, BetsReader!Goto
  <2> QED
    BY <1>0, <1>3, <2>1
<1>4. ASSUME NEW e \in Detectors, Crash(e) PROVE G
  <2>1. BetsReader!Crash(e) /\ fraudPc' = [fraudPc EXCEPT ![e] = "fetch"]
    BY <1>4 DEF Crash, BetsReader!Crash
  <2> QED
    BY <1>0, <2>1
<1>5. ASSUME NEW e \in Detectors, DetectorLoop(e) PROVE G
  <2>1. ASSUME BetsReader!Fetch(e) PROVE G
    BY <1>0, <2>1 DEF BetsReader!Fetch
  <2>2. ASSUME NEW stored \in BOOLEAN, BetsReader!Commit(e, stored) PROVE G
    BY <1>0, <2>2 DEF BetsReader!Commit
  <2> QED
    BY <1>1, <1>2, <1>3, <1>5, <2>1, <2>2 DEF DetectorLoop, HandleBetPlaced
<1>6. ASSUME \/ \E b \in Bets : PlaceBet(b)
             \/ Tick \/ Rebalance \/ UNCHANGED <<vars, faults>>
      PROVE  G
  BY <1>6 DEF PlaceBet, Tick, Rebalance, vars, reader, BetsReader!Rebalance
<1> QED
  BY <1>4, <1>5, <1>6 DEF Next

\* Later, no more is asked of what a handler finds: a bet that is placed then is
\* not on the topic before, and a call that failed stays failed.
LEMMA EarlierShrinks ==
  ASSUME TypeOK, PlacedInv, [Next]_<<vars, faults>>, NEW msg, Logged(msg), NEW time
  PROVE  Earlier(msg, time)' \subseteq Earlier(msg, time)
<1> SUFFICES ASSUME NEW x \in Earlier(msg, time)' PROVE x \in Earlier(msg, time)
  OBVIOUS
<1>1. BetAt(msg)' = BetAt(msg)
  BY MessagesStay
<1>2. PICK b \in Bets : /\ x = [bet |-> b, placed |-> placed'[b]]
                        /\ Slip[b].user = Slip[BetAt(msg)].user /\ placed'[b] # 0
                        /\ placed'[b] \in (time - Window)..time
  BY <1>1 DEF Earlier, PlacedBefore
<1>3. PICK i \in 1..(msg[2] - 1) : betLog'[msg[1]][i] = b /\ <<msg[1], i>> \notin spoiled'
  BY <1>2 DEF Earlier
<1>4. Logged(<<msg[1], i>>)
  BY ReaderTypes, LenProperties DEF Logged, ReaderTyped, BetsReader!ConsumerTypeOK
<1>5. betLog[msg[1]][i] = b /\ placed[b] # 0
  <2>1. BetAt(<<msg[1], i>>)' = BetAt(<<msg[1], i>>)
    BY <1>4, MessagesStay
  <2> QED
    BY <1>3, <1>4, <2>1 DEF BetAt, Logged, PlacedInv
<1>6. placed'[b] = placed[b]
  BY <1>5, StampsStay DEF PlacedInv
<1>7. <<msg[1], i>> \notin spoiled
  BY <1>3, SpoilSteps
<1> QED
  BY <1>2, <1>3, <1>5, <1>6, <1>7 DEF Earlier, PlacedBefore

\* Just after a handler read the window, it has found all it had to find.
LEMMA ReadFindsAll ==
  ASSUME TypeOK, PlacedInv, ScreenInv, [Next]_<<vars, faults>>, NEW d \in Detectors,
         fraudPc[d] = "recent", fraudAt'[d] = fraudAt[d],
         recent'[d] = [at |-> now, bets |-> Found(d)],
         UNCHANGED <<now, placed, betLog, spoiled>>
  PROVE  FoundAll(d)'
<1> DEFINE msg == fraudAt[d]
           u == Slip[Bet(d)].user
<1>0. /\ msg[1] \in BetPartitions /\ msg[2] \in Nat /\ Logged(msg)
      /\ Bet(d) \in Bets /\ Bet(d) = BetAt(msg) /\ u \in Users
  BY ReaderTypes, InHand, SlipTypes, LenProperties
     DEF Logged, ReaderTyped, BetsReader!ConsumerTypeOK
<1>1. IsFiniteSet(Found(d))
  <2>1. IsFiniteSet(window[u])
    BY <1>0 DEF ScreenInv
  <2> QED
    BY <2>1, FS_Subset DEF Found
<1>2. ASSUME NEW i \in 1..(msg[2] - 1)
      PROVE  /\ Logged(<<msg[1], i>>) /\ betLog[msg[1]][i] \in Bets
             /\ placed[betLog[msg[1]][i]] <= now
  <2>1. Logged(<<msg[1], i>>)
    BY <1>0, ReaderTypes, LenProperties DEF Logged, ReaderTyped, BetsReader!ConsumerTypeOK
  <2>2. BetAt(<<msg[1], i>>) \in Bets
    BY <2>1, MessagesStay
  <2> QED
    BY <2>1, <2>2 DEF BetAt, PlacedInv
<1>3. ASSUME NEW x \in Earlier(msg, now) PROVE x \in Found(d)
  <2>1. PICK b \in Bets : /\ x = [bet |-> b, placed |-> placed[b]]
                          /\ Slip[b].user = u /\ placed[b] # 0
                          /\ placed[b] \in (now - Window)..now
    BY <1>0 DEF Earlier, PlacedBefore
  <2>2. PICK i \in 1..(msg[2] - 1) : betLog[msg[1]][i] = b /\ <<msg[1], i>> \notin spoiled
    BY <2>1 DEF Earlier
  <2>3. <<msg[1], i>> \in Handled
    BY <1>0, <2>2 DEF ScreenInv, Lemmas!Orderly
  <2>4. Kept(<<msg[1], i>>) /\ BetAt(<<msg[1], i>>) = b
    BY <2>2, <2>3 DEF Handled, BetAt
  <2>5. ~(now >= placed[b] + KeyLife)
    BY <2>1, WindowAssumption DEF TypeOK
  <2>6. x \in window[u]
    BY <2>1, <2>2, <2>4, <2>5 DEF Kept
  <2> QED
    BY <2>1, <2>6 DEF Found
<1>4. Earlier(msg, now)' \subseteq Earlier(msg, now)
  BY <1>0, EarlierShrinks
<1>5. recent'[d].at = now' /\ recent'[d].at = now /\ recent'[d].bets = Found(d)
  OBVIOUS
<1>6. (Earlier(fraudAt[d], recent[d].at))' \subseteq Found(d)
  BY <1>3, <1>4, <1>5
<1> QED
  BY <1>1, <1>2, <1>5, <1>6 DEF FoundAll

LEMMA FoundAllStays ==
  ASSUME TypeOK, PlacedInv, ScreenInv, [Next]_<<vars, faults>>, NEW d \in Detectors,
         fraudPc'[d] \in Rules
  PROVE  FoundAll(d)'
<1>1. /\ fraudPc[d] # "fetch" /\ fraudPc'[d] # "fetch"
      /\ fraudAt'[d] = fraudAt[d] /\ Logged(fraudAt[d])
  BY RuleSteps, HandsStay
<1>2. CASE fraudPc[d] \in Rules /\ UNCHANGED recent[d]
  <2> DEFINE msg == fraudAt[d]
  <2>1. FoundAll(d)
    BY <1>2 DEF ScreenInv
  <2>2. ASSUME NEW i \in 1..(msg[2] - 1)
        PROVE  placed'[betLog'[msg[1]][i]] <= recent[d].at
    <3>1. Logged(<<msg[1], i>>)
      BY <1>1, ReaderTypes, LenProperties DEF Logged, ReaderTyped, BetsReader!ConsumerTypeOK
    <3>2. /\ BetAt(<<msg[1], i>>)' = BetAt(<<msg[1], i>>)
          /\ BetAt(<<msg[1], i>>) \in Bets
      BY <1>1, <3>1, MessagesStay
    <3>3. placed[BetAt(<<msg[1], i>>)] # 0
      BY <3>1 DEF BetAt, Logged, PlacedInv
    <3>4. placed'[BetAt(<<msg[1], i>>)] = placed[BetAt(<<msg[1], i>>)]
      BY <3>2, <3>3, StampsStay DEF PlacedInv
    <3> QED
      BY <1>1, <2>1, <3>2, <3>4 DEF FoundAll, BetAt
  <2>3. Earlier(msg, recent[d].at)' \subseteq Earlier(msg, recent[d].at)
    BY <1>1, <1>2, EarlierShrinks
  <2> QED
    BY <1>1, <1>2, <2>1, <2>2, <2>3 DEF FoundAll
<1>3. CASE /\ fraudPc[d] = "recent"
           /\ recent'[d] = [at |-> now, bets |-> Found(d)]
           /\ UNCHANGED <<now, placed, betLog, spoiled>>
  BY <1>1, <1>3, ReadFindsAll
<1> QED
  BY <1>2, <1>3, RuleSteps

\* A burst and a pair of opposite bets do not go away when there are more bets.
LEMMA MoreBetsMoreReason ==
  ASSUME NEW rule \in Rules, rule # "SUSPICIOUS_PATTERN", NEW b, NEW time,
         NEW found, NEW more, found \subseteq more, IsFiniteSet(more),
         Objects(rule, b, found, time)
  PROVE  Objects(rule, b, more, time)
<1>1. CASE rule = "OPPOSITE_BETS"
  BY <1>1 DEF Objects, Opposed
<1>2. CASE rule = "RATE_LIMIT"
  <2> DEFINE late(s) == {x \in s : x.placed > time - RateWindow}
  <2>1. IsFiniteSet(late(more))
    BY FS_Subset
  <2>2. late(found) \subseteq late(more)
    OBVIOUS
  <2>3. /\ Cardinality(late(found)) <= Cardinality(late(more))
        /\ IsFiniteSet(late(found))
    BY <2>1, <2>2, FS_Subset
  <2>4. Cardinality(late(found)) \in Nat /\ Cardinality(late(more)) \in Nat
    BY <2>1, <2>3, FS_CardinalityType
  <2>5. Cardinality(late(found)) > RateLimit
    BY <1>2 DEF Objects, TooMany
  <2>6. Cardinality(late(more)) > RateLimit
    BY <2>3, <2>4, <2>5, WindowAssumption
  <2> QED
    BY <1>2, <2>6 DEF Objects, TooMany
<1> QED
  BY <1>1, <1>2 DEF Rules

LEMMA JustifiedStays ==
  ASSUME TypeOK, PlacedInv, [Next]_<<vars, faults>>, NEW c \in Verdict, Logged(c.msg), Justified(c)
  PROVE  Justified(c)'
<1> SUFFICES ASSUME c.rule # "SUSPICIOUS_PATTERN", c.msg \notin spoiled'
             PROVE  /\ IsFiniteSet(Earlier(c.msg, c.at)')
                    /\ ~Objects(c.rule, BetAt(c.msg)', Earlier(c.msg, c.at)', c.at)
  BY DEF Justified
<1>1. /\ IsFiniteSet(Earlier(c.msg, c.at))
      /\ ~Objects(c.rule, BetAt(c.msg), Earlier(c.msg, c.at), c.at)
  BY SpoilSteps DEF Justified
<1>2. BetAt(c.msg)' = BetAt(c.msg)
  BY MessagesStay
<1>3. Earlier(c.msg, c.at)' \subseteq Earlier(c.msg, c.at)
  BY EarlierShrinks
<1>4. c.rule \in Rules
  BY DEF Verdict
<1> QED
  BY <1>1, <1>2, <1>3, <1>4, FS_Subset, MoreBetsMoreReason

LEMMA VerdictsAreJustified ==
  ASSUME TypeOK, PlacedInv, ScreenInv, [Next]_<<vars, faults>>,
         NEW d \in Detectors, NEW rule \in Rules, CheckRule(d, rule),
         NEW c, c \in checked', c \notin checked, c \notin alerts'
  PROVE  Justified(c)'
<1> SUFFICES ASSUME NEW msg, msg = fraudAt[d],
                    NEW t, t = (IF rule = "RATE_LIMIT" THEN now ELSE recent[d].at),
                    c.rule # "SUSPICIOUS_PATTERN", c.msg \notin spoiled'
             PROVE  /\ IsFiniteSet(Earlier(c.msg, c.at)')
                    /\ ~Objects(c.rule, BetAt(c.msg)', Earlier(c.msg, c.at)', c.at)
  BY DEF Justified
<1> DEFINE bets == recent[d].bets
<1>1. /\ fraudPc[d] = rule /\ fraudPc[d] # "fetch"
      /\ c = [rule |-> rule, msg |-> msg, at |-> t]
      /\ UNCHANGED <<now, placed, recent>>
      /\ \/ Spoil(d)
         \/ ~Objects(rule, Bet(d), bets, t)
  BY DEF CheckRule, Rules
<1>2. /\ Logged(msg) /\ Bet(d) = BetAt(msg) /\ BetAt(msg)' = BetAt(msg)
      /\ msg[1] \in BetPartitions /\ msg[2] \in Nat
  BY <1>1, ReaderTypes, InHand, MessagesStay, LenProperties
     DEF Logged, ReaderTyped, BetsReader!ConsumerTypeOK
<1>3. ~Objects(rule, BetAt(msg), bets, t)
  BY <1>1, <1>2 DEF Spoil
<1>4. /\ IsFiniteSet(bets) /\ Earlier(msg, recent[d].at) \subseteq bets
      /\ \A i \in 1..(msg[2] - 1) : placed[betLog[msg[1]][i]] <= recent[d].at
      /\ recent[d].at <= now
  BY <1>1 DEF ScreenInv, FoundAll, PlacedInv
<1>5. Earlier(msg, t) \subseteq Earlier(msg, recent[d].at)
  <2> SUFFICES ASSUME NEW x \in Earlier(msg, t) PROVE x \in Earlier(msg, recent[d].at)
    OBVIOUS
  <2>1. PICK b \in Bets : /\ x = [bet |-> b, placed |-> placed[b]]
                          /\ Slip[b].user = Slip[BetAt(msg)].user /\ placed[b] # 0
                          /\ placed[b] \in (t - Window)..t
    BY DEF Earlier, PlacedBefore
  <2>2. PICK i \in 1..(msg[2] - 1) : betLog[msg[1]][i] = b /\ <<msg[1], i>> \notin spoiled
    BY <2>1 DEF Earlier
  <2>3. placed[b] <= recent[d].at
    BY <1>4, <2>2
  <2>4. placed[b] \in (recent[d].at - Window)..recent[d].at
    BY <1>4, <2>1, <2>3, WindowAssumption DEF TypeOK
  <2> QED
    BY <2>1, <2>2, <2>4 DEF Earlier, PlacedBefore
<1>6. Earlier(msg, t)' \subseteq Earlier(msg, t)
  BY <1>2, EarlierShrinks
<1>7. IsFiniteSet(Earlier(msg, t)') /\ ~Objects(rule, BetAt(msg), Earlier(msg, t)', t)
  BY <1>1, <1>3, <1>4, <1>5, <1>6, FS_Subset, MoreBetsMoreReason
<1>8. c.rule = rule /\ c.msg = msg /\ c.at = t
  BY <1>1
<1> QED
  BY <1>2, <1>7, <1>8

\* A handler that returns nil has handled its message.
LEMMA AddedIsHandled ==
  ASSUME TypeOK, PlacedInv, ScreenInv, [Next]_<<vars, faults>>,
         NEW d \in Detectors, AddBet(d)
  PROVE  fraudAt[d] \in Handled'
<1> DEFINE msg == fraudAt[d]
           b == Bet(d)
           u == Slip[b].user
<1>1. /\ fraudPc[d] = "add" /\ UNCHANGED <<now, placed, checked>>
      /\ Spoil(d) \/ (ZAdd(u, b) /\ Expire(u))
  BY DEF AddBet, verdicts
<1>2. /\ msg \in BetPartitions \X Nat /\ Logged(msg) /\ b = BetAt(msg)
      /\ b \in Bets /\ u \in Users
  BY <1>1, ReaderTypes, InHand, SlipTypes DEF Logged
<1> SUFFICES ASSUME NEW m, m = msg PROVE m \in Handled'
  OBVIOUS
<1>3. Logged(m)' /\ BetAt(m)' = b
  BY <1>2, MessagesStay
<1>4. Screened(m)'
  <2>1. \A rule \in Rules : \E c \in checked : c.rule = rule /\ c.msg = m
    BY <1>1 DEF ScreenInv, Passed
  <2> QED
    BY <1>1, <2>1 DEF Screened
<1>5. Kept(m)'
  <2>1. CASE Spoil(d)
    BY <2>1 DEF Spoil, Kept
  <2>2. CASE ZAdd(u, b) /\ Expire(u)
    <3>1. [bet |-> b, placed |-> placed[b]] \in window'[u] /\ expires'[u] = now + KeyLife
      BY <1>2, <2>2 DEF ZAdd, Expire, Expiry, RecentBet, PlacedAt, TypeOK
    <3>2. placed[b] <= now /\ placed[b] \in Nat /\ now \in Int /\ KeyLife \in Nat
      BY <1>2, StampsStay, WindowAssumption DEF PlacedInv
    <3> QED
      BY <1>1, <1>3, <3>1, <3>2 DEF Kept
  <2> QED
    BY <1>1, <2>1, <2>2
<1> QED
  BY <1>2, <1>3, <1>4, <1>5 DEF Handled

\* A handler that returns an error had a call fail.
LEMMA FailedIsHandled ==
  ASSUME TypeOK, PlacedInv, [Next]_<<vars, faults>>,
         NEW d \in Detectors, fraudPc[d] # "fetch", Spoil(d)
  PROVE  fraudAt[d] \in Handled'
<1> SUFFICES ASSUME NEW m, m = fraudAt[d] PROVE m \in Handled'
  OBVIOUS
<1>1. m \in BetPartitions \X Nat /\ Logged(m)
  BY ReaderTypes, InHand DEF Logged
<1>2. m \in spoiled'
  BY DEF Spoil
<1> QED
  BY <1>1, <1>2, MessagesStay DEF Handled, Screened, Kept

LEMMA OrderStays ==
  ASSUME TypeOK, PlacedInv, ScreenInv, [Next]_<<vars, faults>>
  PROVE  Lemmas!Orderly(Handled)'
<1> SUFFICES ASSUME NEW D, D = Handled, NEW N, N = Handled' PROVE Lemmas!Orderly(N)'
  OBVIOUS
<1>1. {"fetch", "commit"} \cap DetectorLabels = {} /\ "recent" \in DetectorLabels
  BY DEF DetectorLabels, Rules
<1>2. /\ Lemmas!ConsumerTypeOK(Bets, DetectorLabels)
      /\ Lemmas!ReaderStep(Bets, DetectorLabels)
  BY ReaderTypes, StepOfReader, SameReader
<1>3. D \subseteq N /\ Lemmas!Orderly(D)
  BY HandledStays DEF ScreenInv
<1>4. ASSUME NEW d \in Detectors, fraudPc[d] \in DetectorLabels,
             fraudPc'[d] \in {"fetch", "commit"}
      PROVE  fraudAt[d] \in N \/ Lemmas!Crash(d)
  <2>1. fraudPc[d] \notin {"fetch", "commit"}
    BY <1>1, <1>4
  <2>2. CASE BetsReader!Crash(d)
    BY <2>2 DEF BetsReader!Crash, Lemmas!Crash, BetsReader!Resume, Lemmas!Resume
  <2>3. CASE Spoil(d)
    BY <2>1, <2>3, FailedIsHandled
  <2>4. CASE AddBet(d)
    BY <2>4, AddedIsHandled
  <2>5. ASSUME NEW rule \in Rules PROVE After(rule) \notin {"fetch", "commit"}
    BY <2>5, RuleOrder DEF Rules
  <2> QED
    BY <1>4, <2>1, <2>2, <2>3, <2>4, <2>5, PcSteps
<1> QED
  BY <1>1, <1>2, <1>3, <1>4, Lemmas!OrderlyStep

LEMMA PassedStays ==
  ASSUME TypeOK, ScreenInv, [Next]_<<vars, faults>>,
         NEW d \in Detectors, NEW rule \in Passed(fraudPc'[d])
  PROVE  \E c \in checked' : c.rule = rule /\ c.msg = fraudAt'[d]
<1>1. /\ fraudPc'[d] \in {"OPPOSITE_BETS", "SUSPICIOUS_PATTERN", "add"}
      /\ rule \in Rules
  BY DEF Passed
<1>2. \/ UNCHANGED fraudPc[d]
      \/ \E r \in Rules : CheckRule(d, r) /\ fraudPc'[d] = After(r)
  BY <1>1, PcSteps DEF BetsReader!Crash, ReaderTyped, BetsReader!ConsumerTypeOK, TypeOK
<1>3. checked \subseteq checked'
  BY ScreenedStays
<1>4. CASE UNCHANGED fraudPc[d]
  <2>1. fraudAt'[d] = fraudAt[d]
    BY <1>1, <1>4, HandsStay
  <2> QED
    BY <1>3, <1>4, <2>1 DEF ScreenInv
<1>5. ASSUME NEW r \in Rules, CheckRule(d, r), fraudPc'[d] = After(r)
      PROVE  \E c \in checked' : c.rule = rule /\ c.msg = fraudAt'[d]
  <2>1. /\ fraudPc[d] = r
        /\ \E c \in checked' : c.rule = r /\ c.msg = fraudAt[d]
    <3> DEFINE c == [rule |-> r, msg |-> fraudAt[d],
                     at |-> IF r = "RATE_LIMIT" THEN now ELSE recent[d].at]
    <3>1. fraudPc[d] = r /\ c \in checked'
      BY <1>5 DEF CheckRule
    <3>2. c.rule = r /\ c.msg = fraudAt[d]
      OBVIOUS
    <3> HIDE DEF c
    <3> QED
      BY <3>1, <3>2
  <2>2. fraudAt'[d] = fraudAt[d]
    BY <1>1, <2>1, HandsStay DEF Rules
  <2>3. rule = r \/ rule \in Passed(r)
    BY <1>1, <1>5, RuleOrder DEF Passed, Rules
  <2> QED
    BY <1>3, <2>1, <2>2, <2>3 DEF ScreenInv
<1> QED
  BY <1>2, <1>4, <1>5

LEMMA ScreenStep ==
  TypeOK /\ PlacedInv /\ ScreenInv /\ [Next]_<<vars, faults>> => ScreenInv'
<1> SUFFICES ASSUME TypeOK, PlacedInv, ScreenInv, [Next]_<<vars, faults>> PROVE ScreenInv'
  OBVIOUS
<1>1. ASSUME NEW u \in Users PROVE IsFiniteSet(window'[u])
  <2>1. IsFiniteSet(window[u])
    BY DEF ScreenInv
  <2>2. \A x : IsFiniteSet(window[u] \cup {x})
    BY <2>1, FS_AddElement
  <2>3. CASE window'[u] = window[u] \/ window'[u] = {}
    BY <2>1, <2>3, FS_EmptySet
  <2>4. ASSUME NEW x, window'[u] = window[u] \cup {x} PROVE IsFiniteSet(window'[u])
    BY <2>2, <2>4
  <2> QED
    BY <2>3, <2>4, WindowSteps
<1>2. ASSUME NEW c \in checked' \ alerts' PROVE Justified(c)'
  <2>1. CASE c \in checked
    <3>1. c \in checked \ alerts
      BY <1>2, <2>1, VerdictSteps DEF CheckRule
    <3>2. Justified(c) /\ Logged(c.msg) /\ c \in Verdict
      BY <3>1 DEF ScreenInv, PlacedInv, TypeOK
    <3> QED
      BY <3>2, JustifiedStays
  <2>2. CASE c \notin checked
    <3>1. PICK d \in Detectors, rule \in Rules : CheckRule(d, rule)
      BY <1>2, <2>2, VerdictSteps
    <3> QED
      BY <1>2, <2>2, <3>1, VerdictsAreJustified
  <2> QED
    BY <2>1, <2>2
<1> QED
  BY <1>1, <1>2, OrderStays, PassedStays, FoundAllStays DEF ScreenInv

LEMMA ScreenInit == Init => ScreenInv
<1> SUFFICES ASSUME Init PROVE ScreenInv
  OBVIOUS
<1>1. /\ window = [u \in Users |-> {}] /\ checked = {}
      /\ fraudCommitted = [p \in BetPartitions |-> 0]
      /\ fraudPos = [p \in BetPartitions |-> 0]
      /\ fraudPc = [d \in Detectors |-> "fetch"]
  BY DEF Init, BetsReader!ConsumerInit
<1>2. Lemmas!Orderly(Handled)
  BY <1>1 DEF Lemmas!Orderly
<1> QED
  BY <1>1, <1>2, FS_EmptySet DEF ScreenInv, Passed, Rules

LEMMA DetectorInv ==
  Spec => [](TypeOK /\ PlacedInv /\ ScreenInv)
<1>1. Init => TypeOK /\ PlacedInv /\ ScreenInv
  BY TypeInit, PlacedInit, ScreenInit
<1>2. TypeOK /\ PlacedInv /\ ScreenInv /\ [Next]_<<vars, faults>>
        => TypeOK' /\ PlacedInv' /\ ScreenInv'
  BY TypeStep, PlacedStep, ScreenStep
<1> QED
  BY <1>1, <1>2, PTL DEF Spec

\* No bet slips by: when the detector has nothing left to do, each message of the
\* topic was looked at by every rule, or a call failed in its handling; crashes,
\* rebalances and late commits skip none (consumer.go:49-75).
THEOREM NoBetSlipsBy == Spec => []EveryBetIsScreened
<1>1. TypeOK /\ ScreenInv => EveryBetIsScreened
  <2> SUFFICES ASSUME TypeOK, ScreenInv, AtRest,
                      NEW p \in BetPartitions, NEW i \in DOMAIN betLog[p]
               PROVE  Screened(<<p, i>>)
    BY DEF EveryBetIsScreened, Screened
  <2>1. i \in 1..fraudPos[p] /\ fraudOwner[p] \in Detectors
    BY ReaderTypes, LenProperties DEF AtRest, ReaderTyped, BetsReader!ConsumerTypeOK
  <2>2. fraudPc[fraudOwner[p]] = "fetch"
    BY <2>1 DEF AtRest
  <2>3. <<p, i>> \in Handled
    BY <2>1, <2>2 DEF ScreenInv, Lemmas!Orderly
  <2> QED
    BY <2>3 DEF Handled
<1> QED
  BY <1>1, DetectorInv, PTL

\* README.md:205-206, as far as it goes: a burst or a pair of opposite bets within
\* the window goes without an alert only if a call failed in handling one of its
\* bets; no crash, rebalance, duplicate or expiry of a key hides it.
THEOREM EscapesHaveCauses == Spec => []EscapesNeedFailures
<1>1. ScreenInv => EscapesNeedFailures
  BY DEF ScreenInv, EscapesNeedFailures, Justified
<1> QED
  BY <1>1, DetectorInv, PTL
=============================================================================
