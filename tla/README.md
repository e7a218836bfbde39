# Bet Kafka System: a TLA+ model

This directory is a formal model of the platform in `src/`: seven Go programs
that take bets, settle them and move odds, and talk through Kafka topics,
Redis keys and MongoDB documents. TLC checks the modules on small instances;
TLAPS proves the theorems of the `*_proofs` modules for every value of the
constants. The model is written from the Go code; where `src/README.md` or a
comment says something else, that is said below.

    tlc -workers 2 -config Faults_one.cfg MCBetProcessor    # one run
    tlapm Books_proofs.tla                                  # one module of proofs

## 1. The system

| component | state it keeps | operations |
|---|---|---|
| `cmd/api`, `internal/handler` | a market's status in Mongo | `POST /bets`: publish on `bets.placed`. `POST /admin/settle`: publish on `bets.settled`, then mark the market. `POST /admin/event-status`. Readers. |
| `cmd/bet-processor`, `processor/bet_processor.go` | users' balances, bets, transactions (Mongo); idempotency keys (Redis) | two consumer loops: `HandleBetPlaced` and `HandleBetSettled`; publishes on `wallet.transactions` |
| `cmd/odds-engine`, `processor/odds_engine.go` | none of its own: reads the odds cache | `HandleGameEvent`: recalculate and publish on `odds.updated` |
| `cmd/odds-consumer`, `processor/odds_processor.go` | odds, their history, suspensions (Redis) | `HandleOddsUpdated`: write, measure, suspend, publish on `markets.suspended` |
| `cmd/data-feed-simulator` | minute and score of each match, in memory | picks a LIVE match, moves its minute on, publishes what happens on `game.events` |
| `cmd/fraud-detector`, `processor/fraud_processor.go` | a sorted set of recent bets per user (Redis) | `HandleBetPlaced`: read the window, three rules, alerts on `fraud.alerts`, add the bet |
| `internal/kafka/consumer.go` | positions, committed offsets, assignments (broker) | fetch, handle, commit |
| `internal/kafka/producer.go` | the topics | a synchronous write that the client retries |
| `cmd/seeder` | the first state | users at 1000.00, events, odds in Redis |

How they interact. The API only publishes: it looks neither at the balance nor
at the market. The bet-processor learns of suspensions and odds from Redis keys
that the odds-consumer writes, and of results from `bets.settled`. The
odds-engine reads the odds that the odds-consumer wrote from the engine's own
messages, so the two form a loop with a delay in it. The fraud-detector is a
second group on `bets.placed`; nothing reads what it writes. Nothing is
transactional: each handler is a sequence of calls, and each call can fail with
or without effect.

What is hard here, and where the properties come from:

- **Delivery.** A consumer may see a message again (a commit that failed, a
  crash, a rebalance, a retried write), and the loop of `consumer.go:49-77`
  goes on after a handler's error, so that it may also never see it again.
- **Half-done work.** `HandleBetPlaced` claims the key first, debits, inserts,
  and records; `HandleBetSettled` updates a bet and then pays it. A crash or an
  error between two calls is repaired by nobody.
- **Two loops, one balance.** Stakes and payouts of one user are booked by
  different goroutines and processes. Only Mongo's conditional `$inc` orders them.
- **Time.** Idempotency keys last 60 s, suspensions 30 s, odds 5 min, a user's
  fraud window 10 min, of which the rules look at the last 5 and the last 1.
- **Memory.** The feed keeps minutes and scores in memory and moves them on before
  it publishes.
- **Feedback with delay.** The odds an event is computed from may be older than
  the event before it.

What makes each component correct:

| component | properties |
|---|---|
| consumer loop | commits and reads only past messages a handler returned from; tries every message in the end |
| placement | no overdraft; a stake is taken at most once; a bet on the books was paid for; a refused bet takes nothing and stays refused; a suspension lets no bet through that was not past its check; without faults every accepted bet is answered, and with them each silence costs one; keys that expired let a bet be debited again only when it is delivered again |
| settlement | decided once, as announced, paid once and only if won; what a settlement finds it decides; a pending bet is decided in the end |
| money as a whole | no money created; every loss costs a fault; the audit trails explain the balances; the abstract `Bookmaker` is implemented |
| API | a market is marked SETTLED only after its announcement, and each announced market that stays OPEN costs a failing call |
| odds | no odds out of nowhere; the cache ends up with the last odds, or with none when their key has lapsed; as long as there is no goal or red card nothing is suspended (shown for whistles); a volatile market is suspended; the abstract `OddsBoard` is implemented |
| simulator | a match goes forward; score and topic agree but for faults |
| fraud detector | no alert without its bets; no burst and no pair of opposite bets escapes unless a call failed; every bet is screened |

## 2. The modules

    Consumer ------ one topic and the group that reads it, a library of actions
     |- ConsumerGroup        the loop alone, with any handler
     |- BetStore (x2)        bets.placed, bets.settled
     |- OddsStore (x2)       game.events, odds.updated
     `- FraudDetector        bets.placed, for the other group

    Betting --- Bookmaker    the abstract specification of the money path
     |- BetStore (+ Faults)
     |   |- BetPlacement, Settlement, Api
     |   `- BetProcessor     composes the three --- Books (audit)
     `- FraudDetector (+ Faults)

    OddsMath --- OddsStore (+ Faults)
                  |- DataFeed, OddsEngine, OddsConsumer
                  `- OddsPipeline  composes the three
    OddsBoard                the abstract specification of the odds services

| module | models | notes |
|---|---|---|
| `Consumer` | `internal/kafka/consumer.go` and the group's coordinator | `Fetch`, `ReturnNil`, `ReturnError`, `Commit`, `Rebalance`, `Crash`; a component adds the steps of its handler between them |
| `ConsumerGroup` | the loop with a one-step handler | history variables `handled`, `failed` |
| `Faults` | what may go wrong, and how often | `CallOK`, `CallFails`, `Written` (what a producer's write leaves in the topic) |
| `Betting` | the data of `internal/domain` | stakes in units, money and odds in hundredths |
| `Bookmaker` | nothing in the code: the promise about money | four actions, no queues, no failures |
| `BetStore` | Mongo, Redis, the topics, the handlers' locals, the calls | one variable per collection or key family |
| `BetPlacement` | `HandleBetPlaced`, one action per call | `Check`, `Suspension`, `Odds`, `DebitStake`, `SaveBet`, `SaveDebitTx`, `PublishDebitTx` |
| `Settlement` | `HandleBetSettled`, one action per call | `FindBets`, `UpdateBet`, `CreditPayout`, `SaveCreditTx`, `PublishCreditTx`, `Settled` |
| `Api` | `PlaceBet`, `SettleMarket` | a settlement's two writes are two steps |
| `BetProcessor` | the composition, TTLs, other services' writes, crashes, rebalances | the properties of the money path |
| `Books` | nothing in the code: sums over bets and trails | the auditor's properties |
| `OddsMath` | `recalculate`, `goalImpact`, velocity | pure operators in hundredths |
| `OddsStore`, `OddsEngine`, `OddsConsumer` | the odds services | as above |
| `DataFeed` | `cmd/data-feed-simulator` and `POST /admin/event-status` | `PlayMatch`, `CrashFeed`, `UpdateEventStatus` |
| `OddsPipeline` | the composition, TTLs, settled markets, crashes, rebalances | the properties of the odds and of the feed |
| `OddsBoard` | nothing in the code: what the bet-processor may assume of the two Redis key families it reads | four actions, no topics, no failures |
| `FraudDetector` | `HandleBetPlaced` of the fraud processor, its window and rules | one action per call: `GetRecentBets`, `CheckRule` (three times), `AddBet`; a clock |
| `MC*` | | instances for TLC |
| `*_proofs` | | theorems; `Sums_proofs` holds what they need to know of sums over finite sets |

How state corresponds to the code. `log`, `committed`, `pos`, `owner` are a
topic's partitions and what the group's coordinator knows; `at` and `pc` are the
message a process has in hand and the call its handler is about to make. A bet
is its uuid, which is also its idempotency key's name: the producer's message
and Mongo's `_id` carry the same one. `keys`, `suspended` and `cachedOdds` are
the Redis keys (odds 0: the key is not there). `status` is the `bets`
collection, `"NONE"` for a document that does not exist. Only `handled`,
`failed`, `rejected`, `debits`, `credits`, `found`, `restarts`, `checked`,
`spoiled`, `faults` and `reply` are history: no guard reads them, except that
`faults` bounds the environment and `reply` lets the API hand out a uuid once.
(`found` is what a settlement's query returned, `checked` and `spoiled` which
rules were applied to which message and in which handlings a call failed.)

How actions correspond to the code. One action is one call to Redis, Mongo or
Kafka with the local code up to the next call. A call ends in one of three ways:
it succeeds, it fails without effect, it fails after it took effect (the reply
was lost). What the caller then does is what the code does: `DebitStake` takes
every error for an insufficient balance and returns nil; `SaveBet`, like `Check`,
`Suspension` and `Odds`, returns the error; `UpdateBet` goes on to the next bet;
`CreditPayout` leaves the bet won and unpaid; trails and announcements ignore
their errors.

Data that is abstracted. Message layout, correlation ids, timestamps, logging,
metrics. Amounts are exact integers, so binary rounding of floats is not
modelled; a deviation of exactly 5 % from the slip's odds may fall on either
side. The jitter of `odds_engine.go:76` is a set of samples. The outcome's name
is the set of the words the engine looks for.

The feed's minute only decides the type of an event, so it is the phase of the
match: minutes 1-44, 45, 46, 47-89, 90. One step may stay in the first phase or
leap to any phase up to the second half, as 1 to 5 minutes may; that a half
takes at least nine events is lost, which only adds behaviours. The score is the
number of goals. The feed is one process, its state is lost when it dies.

The fraud detector runs on a discrete clock that API, Redis and detectors share
(clock skew between machines is not modelled). A bet carries the time of its
request; the topic may hold bets in another order than their stamps, because
requests run at once. The window is a set of bets with their stamps, as Redis
holds equal members of a sorted set once. Alerts are a set of (rule, message,
time): two publications of one alert are one. A publication on `bets.placed`
that fails without effect is a bet that was never placed.

**Abstract specifications.** `Bookmaker` is implemented by the money path
(`BooksKept`): stake once, open, decide once, pay once. `OddsBoard` is
implemented by the odds services (`BoardServed`), and its four actions are what
`BetProcessor` lets its environment do to `suspended` and `cachedOdds`
(`SuspendMarket`, `SuspensionLapses`, `OddsWritten`, `OddsExpire`): each half is
checked against what it may assume of the other, instead of a product too
large for TLC. The one thing the board does not show, that suspending a suspended
market renews its 30 s, is covered by a TTL that may outlast any step.

## 3. The runs

| run | question | states |
|---|---|---|
| `ConsumerGroup_loop` | What does the loop guarantee whatever the handler does? | 159 k |
| `Faults_pair` | Can faults create money? Can money be lost, an accepted bet be left unanswered or a found bet undecided without a fault? Is the `Bookmaker` implemented? | 683 k |
| `Faults_one` | Is a bet on the books paid for, decided once and paid once, with contradicting announcements and expiring keys? Is its stake taken more often than it is delivered? Is a market marked after its announcement, and left unmarked only by a failing call? | 1.1 M |
| `Faults_replicas` | Does the key make the debit unique and a refusal lasting with two processes? Does a suspension or a drift hold against all bets not past it? | 180 k |
| `Answered` | With duplicates and rebalances only: no overdraft, do the books and the trails balance at rest, is every accepted bet answered and every pending bet decided, as announced? | 176 k |
| `Odds_faults` | Can odds come out of nowhere, or stay stale without a fault? Do matches go forward and do score and topic agree? Is the `OddsBoard` implemented? | 711 k |
| `Odds_live` | Does the cache end up with the last odds or none, does volatility suspend, do whistles not? | 254 k |
| `Fraud` | Are alerts deserved, does nothing escape, is everything screened? | 1.0 M |

Bounds, and why they are enough to see the interesting cases.

- `ConsumerGroup`: two replicas and two partitions are the least with which a
  partition changes hands while its old owner still runs a handler; two messages
  per partition are the least with which a late commit can move an offset back
  or cover a message that failed; three faults let a rebalance, an error and a
  failing commit meet.
- Money path: stakes of 6.00 against 10.00 let one of two bets pass
  (`Answered`); against 20.00 they let one bet be debited twice (`Faults_one`,
  `Faults_replicas`, where a second debit must be possible for its absence to mean
  something) or both pass (`Faults_pair`). Two faults let a crash hit the
  redelivery of a call that failed, and let a settlement of two bets fail on both.
  Two processes hold one bet while a third fault follows. Odds of 2.10 and 2.12
  against a slip at 2.00 are exactly on and beyond the tolerance. Two
  announcements for one market may contradict each other.
- Odds: two outcomes of one market, two events; or one outcome with goals and
  whistles at the low end of the jitter, where a single goal moves the odds of over
  by 22 % and suspends the market (at the high end it is 18 %, and nothing would be
  volatile); `QuietMarketsAreOpen` is for every sample of the jitter. A history of two changes instead of ten
  makes an old change fall off the end. Two events in a row are the least that
  exercise the engine on its own earlier update, and a match that goes back needs
  two; one fault at any point.
- Fraud: three bets are the least that fill the average of `MinBets = 2` before a
  third and let a burst of two precede one; a rate limit of 1 instead of 5. A clock
  of three ticks, a window of one and a key that lives two: bets leave the window,
  and the key can die while a bet still matters if it is not renewed. Two
  detectors hold one message after a rebalance. The stake of 30 against 1 is
  beyond ten times the average, the others are not.
- `Written` appends a message at most twice per write.

What a run leaves out on purpose is in its `Env` (`Faults.tla` lists the kinds):
`Answered` has no crash and no failing call, because with either a stake may be
lost and a bet left unanswered, which is what the code does (section 6).
`Faults_replicas` has no expiring keys for the same reason. `Odds_live` has
crashes, rebalances, repeated writes, keys that lapse, matches that leave and enter
LIVE and a market that is settled under way; it has no failing calls, because a SET
that failed is not tried again and leaves the cache behind until the next update or
the key's end: `StaleOddsNeedFaults` in `Odds_faults` counts those.

Properties that count faults (`LossesNeedFaults`, `SilenceNeedsFaults`,
`FoundBetsAreDecided`, `UnmarkedNeedFaults`, `StaleOddsNeedFaults`,
`ScoreIsPublished`) say that each exception costs a fault of its own.
`DebitsNeedFaults` bounds the debits of a bet by its copies on the topic, and as
many again for each fault: a rebalance may have all of them read again.
`LossesNeedFaults` counts stakes and payouts apart: one crash stops both loops of a
process, and may cost one of each.

**Fairness.** Each consumer loop is weakly fair, per process: a goroutine that
is up keeps fetching, handling and committing, because every call it makes
returns or times out and the loop has no other exit than the process's end
(`consumer.go:49-77`). For a process that dies it includes that somebody starts it
again: `docker-compose.yml` has no restart policy, so this is an assumption about
the deployment, and the liveness properties of the runs with crashes
(`EverythingTried`, `CacheCatchesUp`, `VolatileMarketIsSuspended`) rest on it.
Nothing else is fair: clients need not place bets, nor the feed send events, nor
faults stop by themselves (they are bounded in number). Redis TTLs are not fair either: a key may outlive any step.

`CHECK_DEADLOCK FALSE` is set in every run: producers are bounded, and when
everything has been read the system rests.

**Runs that find a disagreement** between the code and what the repository says
of it, each with one property that states the repository's words:

| run | what it shows |
|---|---|
| `ConsumerGroup_skip` | README:195 "commit offsets manually after successful processing": after a handler's error the next commit covers the failed message too |
| `Paid_twice` | README:195 "Duplicate messages are handled": `HandleBetSettled` has no idempotency, `UpdateStatus` does not ask for PENDING; two processes that hold one announcement after a rebalance pay twice |
| `Goal_lost` | odds_engine.go:83 "goals make over more likely": a card right behind a goal is computed from the odds before the goal, and overwrites them |
| `Scorer` | odds_engine.go:109 "team scored, their win odds decrease": the seeder's names contain neither "Home" nor "Away", so a goal raises the odds of the scorer's win |

## 4. What is proved

Every safety invariant and every action property of the passing runs is a
theorem for every number of processes, partitions, users, bets, matches and
outcomes and for every bound on the faults. Where a column says so, the theorem
is about one process of a kind, as `docker-compose.yml` runs it, or about a
world in which some faults do not happen; the runs have the same limits, and
section 6 says what happens beyond them.

| theorem | property | assumption | argument |
|---|---|---|---|
| **`Consumer_proofs`** | | | |
| `ReaderTypes` | | | each action of the library keeps the reader's types |
| **`ConsumerGroup_proofs`** | | | |
| `GroupTypes` | `TypeOK` | | |
| `NothingIsLost` | `CommittedWereTried`, `NothingLeftBehind` | | `GroupInv` |
| **`BetProcessor_proofs`** | | | |
| `Types` | `TypeOK` | | every step is a `ReaderStep` of both readers, then conjunct by conjunct |
| `Solvency` | `NoOverdraft` | | inductive with the types |
| `BooksAreFunded` | `PersistedWasDebited` | | `DebitedInv` |
| `KeysMakeDebitsUnique` | `AtMostOneDebit`, `RefusedTakesNothing` | keys do not expire | `ClaimInv` |
| **`Announcements_proofs`** | | | |
| `SettledWasPublished` | `SettledMarketAnnounced` | | `MarkedInv` |
| `AnnouncedIsMarked` | `UnmarkedNeedFaults` | | `Unmarked` is counted |
| `DecisionsAreAnnounced` | `DecidedAsAnnounced` | | `AnnouncedInv` |
| `SettlementsAreComplete` | `FoundBetsAreDecided` | | `LeftInv` |
| `ChecksAreKept` | `ChecksHold` | | an action property: step by step from `TypeOK` |
| **`Books_proofs`** | | | |
| `PaidOnce`, `DecisionsAreFinal` | `PaidOnlyOnce`, `DecisionIsFinal` | one bet-processor | `PaidInv` |
| `KeepsTheBooks` | `BooksKept` | one bet-processor, keys do not expire | `BookInv` and step simulation |
| `MoneyIsNotCreated` | `NoMoneyCreated` | one bet-processor | `MoneyInv` |
| `LossesHaveCauses` | `LossesNeedFaults` | | `LossInv` |
| `SilenceHasCauses` | `SilenceNeedsFaults` | | `Silenced` is counted, with `AcceptedInv` |
| `DebitsHaveCauses` | `DebitsNeedFaults` | | `DebitsInv` |
| `AcceptedBetsAreAnswered` | `ReadBetIsAnswered` | no failing call, crash or expiring key | `AnswerInv` |
| `TrailExplainsBalances` | `WalletReconciles` | the same; finitely many processes | `SavingInv`, `RecordedInv`, `PublishedInv` |
| **`FraudDetector_proofs`** | | | |
| `DetectorTypes` | `TypeOK` | | |
| `AlertsStateFacts` | `AlertsAreDeserved` | | `PlacedInv` |
| `NoBetSlipsBy`, `EscapesHaveCauses` | `EveryBetIsScreened`, `EscapesNeedFailures` | | `ScreenInv` |
| **`OddsPipeline_proofs`** | | | |
| `PipelineTypes` | `TypeOK` | | |
| `ServesTheBoard` | `BoardServed` | | step simulation from `TypeOK` |
| `OddsAreNotInvented` | `OldOddsWereOffered` | | `OfferInv` |
| `MatchesGoForward` | `MatchGoesForward` | | `CourseInv` |
| `ScoresArePublished` | `ScoreIsPublished` | | inductive with the types |
| `StaleOddsHaveCauses` | `StaleOddsNeedFaults` | one odds-consumer | `StaleInv` |
| `QuietMarketsAreOpen` | `QuietMarketsStayOpen` | | `QuietInv` |

The inductive invariants, and why each strengthening is needed.

*Delivery.* `GroupInv` adds `PrefixTried`: everything before the message in hand
was tried. `CommittedWereTried` survives a commit because of it; it survives a
fetch because nothing is left behind the position; and that survives a rebalance,
which moves the position back to the committed offset, because of
`CommittedWereTried`. The three hold each other up, and none is inductive alone.
`Orderly(Done)` in `Consumer_proofs` is the same argument for any reader and any
set `Done` of messages that only grows: if every handler that returns leaves its
message in `Done`, then everything before the position or the committed offset
is in `Done` or in somebody's hands. `AnswerInv` uses it with the bets that are
answered, `ScreenInv` with the messages the detector has handled.

*Money.*

- `DebitedInv` adds that a handler about to insert a bet has debited it, and that
  a bet the settlement loop is about to update is on the books.
- `ClaimInv` adds that the key is taken for whatever was debited or refused, that
  a bet being validated has been neither, and that no two handlers validate the
  same bet. It needs keys that do not expire (`"ttl" \notin Env`), and fails without.
- `PaidInv` adds that the bets a settlement still has in `todo` are PENDING, which
  one process guarantees and two do not (`Paid_twice`). `docker-compose.yml` runs
  one bet-processor.
- `MarkedInv` adds that a request which is still to mark its market has published:
  without it nothing is known of the market that `MarkSettled` marks.
- `AnnouncedIsMarked` counts the announced markets that are OPEN with no request left
  to mark them: a market joins them only with a publication that was written and
  reported an error, or with an update that did not take effect, which is one fault.
- `AnnouncedInv` adds that a bet in `todo` of a process belongs to the market of the
  announcement it has in hand, which is on the topic and stays there, topics only
  grow (`LogGrows`, `AnnouncementStays`).
- `LeftInv` counts: of the bets a settlement found, those that are pending and no
  longer in `todo` are at most as many as the faults. Each turn of the loop either
  decides its bet or adds one to both sides (`OneMore`, `LeftStep`); a bet that is
  decided meanwhile only makes the left side smaller, and no step reopens a bet.
  It needs neither a single process nor keys that hold.
- `LossInv` counts in the same way the stakes that are off the books and in nobody's
  hands, and the wins that are neither paid nor being paid. `PayingInv` ties the
  win being paid to the settlement loop's place in the code.
- `MoneyInv` is an inequality of sums: the balance and the stakes of the bets debited
  are at most the opening balance and the payouts credited. Every debit adds its
  stake to the left once (a second debit of a bet only lowers the balance), a credit
  happens once by `PaidInv`.
- `SilenceHasCauses` counts the bets that the consumer has met, that have no answer and
  that no handler is about to answer (`Silenced`). A bet joins them when the handler
  that was to answer it stops, which takes a crash or a failing call, and one handler
  stops at a time (`OneHandlerMoves`). That every bet of the topic was met at rest is
  delivery again, with the met bets as the set that only grows (`ReachedSteps`).
- `DebitsInv` says of each bet that its debits, the handlers that hold it before its
  debit and its copies ahead of the position are together at most its copies times
  one more than the faults. A fetch moves a copy from ahead to the hands, a debit from the
  hands to the debits; a rebalance puts at most all copies ahead again, for one fault.
  It needs that a bet's copies are in its user's partition (`KeyedByUser`), and
  nothing of the keys.
- `AnswerInv` says of each bet whose key is taken that it is on the books, refused, or in
  the hands of a handler that will do one of the two.
- `RecordedInv` makes `WalletReconciles` inductive: the balance is the opening one plus
  the recorded transactions plus what each process has booked and not yet
  recorded. `PublishedInv` does the same for Mongo and the topic, `SavingInv` says that
  no bet is inserted by two processes, so that no transaction is recorded twice.

Sums over finite sets are recursive functions on the parts of a set that pick one
element after the other. `Sums_proofs` proves what the audit needs (type, one term
more, a part of the terms, a bound), by well-founded induction on the parts,
with the parts that fail the claim as the set whose smallest element is
contradicted (`SmallestSet`). That any term may come last (`SumGrows`) makes the
results independent of the order that `CHOOSE` picks.

*Fraud.* `PlacedInv` says that windows and topics hold only what was placed, under its
own stamp, and that what a handler found was placed before it looked. `ScreenInv`
says what a handler must have found: everything that lies before its message in
the partition, is within the window and was added by a handling without a failed
call (`FoundAll`); that each rule already passed is in `checked`; and that a check
without an alert was right not to raise one (`Justified`).

*Odds.*

- `OfferInv` extends the property to the odds in the cache and in the engines' hands.
- `CourseInv` says that a match's phase in the feed's memory is past every whistle on
  the topic, while the feed was not restarted.
- `StaleInv` calls an outcome up to date when the cache has no odds of it, or those of an
  update after which none of its updates has been handled; it says that the others
  are at most as many as the faults. After a rebalance the message in hand may not be
  the last one fetched, and its commit may run ahead of the position: on such a
  detour the outcome in hand may be behind too, and the rebalance is the fault that
  pays for it. The argument needs the one odds-consumer: with three, one rebalance may
  let two of them finish an old update after the third has written a new one.
- `QuietInv` says that, without goals and red cards, every update on the topic is a
  change of at most `velocityThreshold` and so is everything in the history. A
  factor between 0.96 and 1.04 and the rounding of odds of 1.01 or more give less
  than 5 % (`SmallMove`), and the average of small changes is small (`SmallChanges`,
  which relates `FoldLeft` to the sums of `Sums_proofs`).

`KeepsTheBooks` maps `DebitStake` to `TakeStake`, `SaveBet` to `OpenBet`,
`UpdateBet` to `Decide`, `CreditPayout` to `PayOut`, everything else to a stutter.
The `Bookmaker`'s variables are the model's own, so the mapping is the identity;
faults may drop steps, which the `Bookmaker` allows, but never reorder them.
`ServesTheBoard` maps each SET, suspension and expiring key to an action of
`OddsBoard` in the same way; what remains to be shown is that a SET names one
outcome and odds that can be offered, which is in the types.

The proofs rest on the named `ASSUME`s of the modules (the types of the
constants), which TLC evaluates in every run.

Only model-checked: the five liveness properties, `EverythingTried`,
`AcceptedBetIsAnswered`, `PendingBetIsDecided`, `CacheCatchesUp` and
`VolatileMarketIsSuspended` (TLAPS does not reason about `ENABLED`, so nothing that
rests on fairness is proved), and the four disagreements, which are
counterexamples. `StaleOddsNeedFaults` and `CacheCatchesUp` are about one
odds-consumer in the runs too.

## 5. What is not modelled

- **Reading handlers** (`event_handler.go`, `wallet_handler.go`, the getters of the
  other two), with the queries only they use (`GetEventOdds`, the finders of the
  repositories): they change nothing, and what they return is a state the model has.
- **Metrics, HTTP decoding and validation, configuration, JSON and environment
  helpers**: no state that a handler reads. Validation is in the type of `Slip`.
- **Graceful shutdown**: at worst a crash between two calls.
- `UpdateOutcomeResult` has no caller.
- The **seeder** is the initial state; a seeder that runs while the services are up
  is not modelled.
- **Players, correlation ids and time stamps** of game events.
- Kafka, Redis and Mongo themselves: their calls are atomic steps that may fail.
  The coordinator is modelled as the code meets it: a late commit is stored.

## 6. Known disagreements

Besides the four runs above, these were met while modelling. The behaviour is in
the model; a run that states the other side is easy to add.

- README:195, idempotency keys "with TTL": `Check` sets the key before the work.
  A process that dies in between makes the redelivered bet a duplicate, which is
  neither on the books nor refused, and its stake may be gone
  (`ReadBetIsAnswered` fails with crashes; `SilenceNeedsFaults` counts those bets). And a
  redelivery later than 60 s finds no key and debits again (`AtMostOneDebit` fails
  when keys expire; `DebitsNeedFaults` bounds it).
- README:201 "All bets on suspended markets are rejected": the suspension is read
  four calls before the bet is inserted, so a bet past that check gets through;
  `ChecksHold` says that no other does.
- README:210 "`user_id` for bets and wallet - ensures per-user ordering": placement
  and settlement publish a user's entries from two loops. `WalletReconciles` compares
  the trails as sets.
- A bet inserted after its market's settlement was read stays pending for ever: the
  two come from different topics, and nothing looks for such bets.
- README:48 gives `event_id` as the key of settlements; `producer.go:72` uses the
  market's id.
- README:160 compares a slip's odds with the cache's; when the cache holds none,
  any odds pass (`bet_processor.go:85`). They lapse after 5 minutes without an update.
- `bet_processor.go:176`: an update of a bet that fails is logged, the message is
  committed, and the bet stays pending (`FoundBetsAreDecided` counts these).
- `fraud_window.go:29`: bets are added to a user's sorted set and never removed; only
  ten minutes without a bet empty it.
- `data-feed-simulator/main.go:53`: a restarted feed plays every live match from its
  first minute, so `MatchGoesForward` speaks of a feed that was not restarted.
- README:205 "> 5 bets in 60 seconds": the rule looks at the bets before the
  current one, so the alert comes with the seventh (`fraud_processor.go:34`). And the
  window is cut when the bet is handled: bets in a backlog longer than the window
  are never looked at together.

## 7. Plan

Done: `Consumer`, `ConsumerGroup`; the money path with `Bookmaker`; the odds
pipeline with the feed and `OddsBoard`; the fraud detector; a theorem for every
safety invariant and action property of the runs.

Left:

1. What several odds-consumers guarantee: a rebalance leaves at most one outcome stale
   per process. The count of `StaleInv` would be per process.
2. Safety halves of the liveness properties: for `PendingBetIsDecided`, that at rest
   no bet a settlement found is pending (the theorem behind it is
   `SettlementsAreComplete`); for `CacheCatchesUp`, that without failing calls
   the cache holds the last odds, or none, at rest.
