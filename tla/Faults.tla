-------------------------------- MODULE Faults --------------------------------
(***************************************************************************)
(* What may go wrong around the services, and how much of it: calls to     *)
(* Redis, Mongo and Kafka that fail, processes that die, consumer groups   *)
(* that rebalance, producers that send again, keys that expire.            *)
(***************************************************************************)
EXTENDS Integers, Sequences

CONSTANTS Env,        \* what may happen around the handlers, see below
          MaxFaults   \* bound on crashes, rebalances, resends, failing calls

\* "call" - a call may fail, with or without having taken effect; "crash" and
\* "rebalance" - of the consumers; "resend" - a producer's retry writes a
\* message twice; "ttl" - an idempotency key, the odds of an outcome or, in the
\* odds pipeline, a suspension expires; "suspend" and "odds" - the odds-consumer
\* suspends markets and writes odds; "settle" and "status" - in the odds pipeline,
\* the admin settles a market and sets a match's status.
EnvKinds == {"call", "crash", "rebalance", "resend", "ttl", "suspend", "odds",
             "settle", "status"}

ASSUME FaultsAssumption == Env \subseteq EnvKinds /\ MaxFaults \in Nat

VARIABLE faults     \* how many faults there were

Fault == faults < MaxFaults /\ faults' = faults + 1

\* How a call ends: it succeeds, or it fails.
CallOK == UNCHANGED faults
CallFails == "call" \in Env /\ Fault

\* How often a synchronous write of the producer puts its message in the
\* topic: once; twice (the bound) when it retried after a lost acknowledgement;
\* or, when it reports an error, any of these or not at all.
Written(n, answered) ==
  \/ n = 1 /\ answered /\ CallOK
  \/ n = 2 /\ answered /\ "resend" \in Env /\ Fault
  \/ n \in {0, 1} /\ ~answered /\ CallFails
  \/ n = 2 /\ ~answered /\ "resend" \in Env /\ CallFails

Copies(n, m) == [i \in 1..n |-> m]
=============================================================================
