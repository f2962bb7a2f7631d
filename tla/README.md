# kotsin-nse: a verification project

kotsin-nse is a trading engine for NSE and MCX options: one Python process on
one asyncio loop, with a ledger in SQLite, a broker behind REST and a
websocket, and an operator's API. This directory models it in TLA+,
model-checks the models with TLC and proves theorems about them with TLAPS. All
source paths below are relative to `src/backend/kotsin_nse/`.

Contents: [the system](#1-the-system), [the modules](#2-the-modules),
[the runs](#3-the-runs), [the proofs](#4-the-proofs),
[what is not modelled](#5-what-is-not-modelled), [seen while modelling](#6-seen-while-modelling),
[what is left](#7-what-is-left).

## 1. The system

Ticks become bars. A closed 30-minute bar is confirmed against the exchange, the
strategies look at it, and what they signal is given a plan (stop, targets), a
contract, a size, an order. A fill becomes a position; a clock evaluates every
position once a second and sends the exits. Each strategy ("book") has a purse of
its own. The RT books mirror their parent's fills and the CT books trade against
a trigger that runs into a wall. Around this stand a reconciler, an operator with
an API, cards and a day book, advisory detectors, a review committee, a tape of
quotes and a backtester.

| component | state | operations | what makes it correct | module |
|---|---|---|---|---|
| purse, `risk/wallet.py` | balance, deployed, peak, halt | reserve, commit, release, close, breakers, rollover, reset | no rupee is deployed twice; every hold is settled; a halt lifts at a midnight the process lives through | `Wallet`, `PurseDay` |
| gateway, `exec/gateway.py` | ids seen, rejects in a row, breaker | precheck, submit, caps, reset | an id is sent once; exits are never blocked | `Gateway` |
| entry path, `engine.py` | a suspended task per signal | admit, hold, submit, record, save, mirror | one position per order; order row first; money accounted for | `EntryPath` |
| exit path, `engine.py`, `api/routes.py` | one exit under way per actor | decide, submit, book, save, trade | money follows lots; book equals broker; every close is a trade | `ExitPath`, `Holding` |
| exit rules, `risk/exits.py`, `risk/limits.py` | clocks, stops, rungs, peaks | evaluate, apply_exit | stops only rise; a sustain is continuous; nothing is stranded | `ExitLadder` |
| control and reconciliation, `engine.py`, `exec/reconcile.py` | mode, arming, halt, freeze | set_mode, set_halt, kill, run, acknowledge | live only while armed; a mismatch that stands freezes | `Control` |
| bars, `bars/aggregator.py`, `bars/verify.py`, `bars/store.py` | forming and closed bars, day state | on_tick, flush_stale, verify, sweep | a bar is decided on once and is the exchange's; no share is counted twice | `Bars` |
| daily series and pivots, `bars/daily.py`, `bars/periods.py`, `bars/pivots.py` | daily bars, cache, levels | backfill, refetch, audit, zones, plan | levels are the broker's; plans can be traded | `Daily`, `Levels` |
| leg ladders, `instrument/legs.py` | ladder per contract | load, repair, rungs, plan | a failed leg is asked again; the plan shown is the plan sold | `Legs`, `LegRungs` |
| strategies, `strategy/*` | parked triggers | on_bar, on_signal, gates, counter | promoted at most once, within its time | `Gates`, `Decision`, `Counter` |
| universe, `instrument/catalogue.py`, `universe.py`, `select.py` | master, groups, subscriptions | ensure, build, repick, select | what is picked or held is priced; quotes are fresh | `Universe`, `Strikes` |
| session and feed, `venue/fivepaisa/*`, `engine.py` | session, window, socket, subscriptions | login, invalidate, reconnect, follow, sync | one code per window; subscriptions survive | `Session`, `Feed` |
| book cards and day book, `engine.py`, `api/daybook.py` | none; rows of the ledger | assemble, take | what was entered is shown | `Trigger` |
| alerts, `alerts/*` | cooldowns, living signals | detect, re-evaluate | a retirement is announced | `Alerts` |
| committee, `committee/*` | budget, locks, hypotheses | review, propose, grade, nightly | each process keeps the day's cap | `Committee` |
| tape, `ops/tape.py`, `ops/archive.py` | watches, buffers, day files | record, flush, prune | every hold can be replayed | `Tape` |
| backtester, `research/backtest.py`, `research/rl/env.py` | one trade | fill, walk a bar | the two orders of a bar agree | `Replay` |
| ledger, `ledger/db.py` | rows | upserts, reload | a restart finds a consistent past | with each path |

How they interact: everything shares memory, and a coroutine runs alone from
one `await` to the next. The suspension points that matter are the broker's
answers, the ledger's writes, the model's answers and the worker thread of the
tape. Decision tasks (one per symbol and bar), the clock, housekeeping, the
repair task and API handlers interleave there, over the same purses, positions,
gateway, series and subscriptions. The process can die at any of those points
and comes back from the ledger and a few files.

What is hard to test follows from that: two entries of one bar boundary in
flight together; the clock and an operator selling one position; a copy taken
before an await and used after it; a broker that refuses, answers late or never
answers; a write that fails, or a crash between two writes; a midnight between
two steps. `PROJECT.json` lists these hazards with the line where each bites and
the properties aimed at it, and every component, modelled or not.

## 2. The modules

**One action is what runs between two awaits**, with every change the handler
makes up to its next one. A record's `stage`, `step` or `at` is the await it is
suspended in, and its other fields are what the handler carries across. The
environment chooses what the broker answers and when, which writes fail, when the
process dies, and what the operator does.

| module | models | its state, in the code's terms |
|---|---|---|
| `Wallet`, `Gateway` | operators on a purse and on the gateway's bookkeeping | used by the paths |
| `EntryPath` | signal to saved position and its mirrors | task per signal; purses, positions, gateway; the ledger's rows beside them |
| `ExitPath` | decision to closed position and its trade | the clock and an operator, each with the exit it has under way; the broker's orders and lots |
| `Holding` | what the exits promise of a position, and nothing of how | lots held, lots in the row, trades |
| `ExitLadder` | what the rules decide, read after read, and after a restart from the row | one position; a policy is the record of knobs that tell the books of `limits.py` apart |
| `Control` | mode, arming, halts, kill, freeze, boots, orders and the mirrors that follow a fill, and the comparison with the broker | memory, control row, call in flight, book, mirrors still to be opened, orders nobody waits for any more, the broker's net positions |
| `PurseDay` | roll-over, reset, load, an entry over each of them | the Wallet object of now, and the replaced one an entry still holds |
| `Gates`, `Decision` | gate chains; what a decision bar sets off | last bars, FUKAA's parked trigger, the steps of each decision |
| `Counter`, `Levels` | classic pivots, zones, stops, targets, grades; the fade of a trigger | integer prices in a small unit |
| `Legs`, `LegRungs` | the contracts' ladders, their loads, a position on one of them; what a ladder is made of | ladders, failed and refused codes, calls in flight |
| `Daily` | the daily series, its cache and its repair | what each day's bar is made of |
| `Universe` | scrip masters, groups, subscriptions over boots and midnights | day files, catalogue, load under way, groups, what the feed is asked for |
| `Strikes` | which contract a signal is traded in | quotes with their instants, what was asked again |
| `Trigger` | who enters a trigger, and what cards and day book say of it | ledger rows of signals, positions and events |
| `Feed` | socket, subscriptions frame by frame, depth following | desired, streamed, following, watched |
| `Session` | login under a lock, one code per window | session, lock, window used |
| `Bars` | ticks to bars, closes, the exchange's bar, the decision that waits | SymbolState, forming and closed bars, sweep |
| `Alerts`, `Committee`, `Tape`, `Replay` | what watches the trading | see their headers |

Composition. `EntryPath` and `ExitPath` EXTEND `Wallet` and `Gateway`; `PurseDay`
EXTENDS `Wallet`; `Decision` uses `Gates`; `Counter` and `LegRungs` EXTEND `Levels`;
`Legs` takes a contract's ladder as a constant, and `MCLegs` gives it the one `LegRungs` makes;
`ExitPath` is shown to implement `Holding`. What crosses a boundary between two
other modules is an input of the second, chosen from everything the first can
produce: `ExitPath` lets `evaluate` decide whatever it may (`MayDecide`), and
`ExitLadder` opens that choice; `Trigger` knows an order only as filled or not;
`Universe` knows a subscription only as asked for, and `Feed` follows it to the
broker.

Where a definition stands for something simpler than the code: the key of a tape row is
the quote's own time and values (`ops/tape.py:190`), and `Tape.Key` has the day in their
place, which differs for a quote that is the same over a midnight; `ExitPath.Reasons` has
one rule for all those about the market; a candle of MCX taken in mid-session is
official in `Daily.Candles`, as the code takes it to be.

Abstractions shared by the modules: a price is a member of a small set, or left
out where only money moves; charges are a constant; positions and signals are
model values; logging, Telegram and wording are left out. A failing write raises
where the code would raise, and the rest of the handler is lost. Ghost variables
are marked `ghost` where they are declared; they decide nothing, except that
`Decision` bounds by one of them how often a bar is decided on again.

Definitions beginning with a comment `Mutant:` are not part of the model. They
are the plausible bugs with which each property is tested: with the
definition they replace, the property must fail.

## 3. The runs

Each run checks its properties over every reachable state of one small instance,
at every interleaving of its actors.

| run | module | states | the question |
|---|---|---|---|
| `entry` | `MCEntryPath` | 350 274 | Do three handlers on two signals, with a mirror book, keep money, orders, positions and rows consistent, and is every hold settled? |
| `exit` | `MCExitPath` | 97 094 | Do the clock and an operator, selling two positions, keep money, lots, broker, ledger and trades in step; do the lots live the life `Holding` promises; does a halt flatten what the rules go on looking at? |
| `ladder` | `MCExitLadder` | 212 714 | Do the rules of every book keep their promises under any reads, gaps, refusals and a restart? And is a bar decided on once, as the exchange has it? |
| `market` | `MCMarket` | 288 545 | Do subscriptions and followed books survive reconnects, expiries and lapsing watches? Does a login ever present a used code? |
| `control` | `MCControl` | 644 829 | Is the engine live only while armed; does what disagrees with the broker and goes on disagreeing freeze entries; does a halt lift at a midnight; does a trigger speak once? |
| `books` | `MCBooks` | 226 380 | What can a day's reviews come to; is a retired signal announced; can every hold be replayed; do backtester and exit environment agree? |
| `daily` | `MCDaily` | 147 323 | Are levels the broker's own, and does the series heal? |
| `legs` | `MCLegs` | 173 438 | Is the plan on a card the plan that is sold, and is a failed leg asked for again? |
| `desk` | `MCDesk` | 738 784 | From the universe to the contract: is what is traded priced, entered once, shown, planned soundly and picked on fresh quotes? |

Parts of the engine that share nothing are checked in one run: its module has a
variable `part`, chosen once, and the variables of the other parts stand still.
Such a run explores the union of its parts, not their product; that the parts do
not interact is a fact of the code (section 2) and not something the run shows.

What the properties say:

* Money. `DeployedIsAccountedFor` (deployed is holds plus cost, after every step of
  every task), `NoDoubleSpend` (deployed never exceeds what the purse has had but
  for slippage), `DeployedTracksRemaining` (through partial exits and two sellers),
  `MidnightLiftsHalt` (over resets, and entries that hold a replaced purse, in a
  process that lives through the midnight), `HoldsSettle`.
* Orders and lots. `OnePositionPerOrder`, `OrderRowFirst`, `SentOnce` (exits),
  `BookEqualsBroker`, `EveryCloseIsATrade`, `OneEntryPerSignal`, and the refinement
  `HoldingIsImplemented`: `ExitPath` with the held lots, the stored lots and the
  trades mapped from its state is a behaviour of `Holding`, in which lots are only
  sold, a row is only ever a state the position has been in, and a trade is only
  written of a closed position.
* Rules. `Unstranded`, `StaircaseHolds` (floors under rungs that were sold, whatever
  re-projections follow), `SustainIsContinuous`, `ForcedOut`, `PlansAreSound`,
  `PlanIsKept`, `AgeIsBounded`.
* Control. `LiveOnlyWhileArmed`, `HaltFlattens`, `StandingMismatchFreezes` (what disagrees
  with the broker from the start of a comparison to its end, among fills, mirrors, exits
  and trades by hand that come between).
* Data. `DecidesOnTheExchangesBar`, `VolumeIsCountedOnce`, `OneSignalPerTrigger`,
  `LevelsAreTheBrokers`, `Heals`, `FailedLegsAreAskedAgain`, `UniverseIsPriced`,
  `OiSourceSurvivesRoll`, `SubscriptionsSurvive`, `DepthConverges`, `CodeNotReplayed`.
* What watches. `EntriesAreShown`, `SpendIsBounded` (a UTC day's reviews, over the processes
  the day saw), `EveryHoldIsReplayable`, `RetirementIsAnnounced`, `LadderIsTheBacktester`.

Where a property excuses something, the case is one in which the code does not keep it:

* `SentOnce` speaks of one process life: an exit whose order's row a crash took is sent
  again. `BookEqualsBroker` speaks of a position nobody traded by hand, squared off or
  refused, in a life without a crash or a failed write. `LadderIsTheBacktester` leaves
  the price apart at a gap and at the clock, where the two engines mean to differ.
* `CodeNotReplayed` excuses a code whose acceptance was in a lost answer, and one whose
  lookup of the public address ran into the next window. `RetirementIsAnnounced`
  excuses a signal whose row was lost with its card (`muted`), until it is adopted again
  or the day begins.
* `EveryHoldIsReplayable` excuses what a death took since the last flush that went
  well, and a code whose last row was appended to a list the worker had just taken.
* `OneEntryPerSignal` is per id: a mirror and an operator's take of one trigger in one book
  have two ids and are not compared. `EntriesAreShown` is about what the engine entered: a
  take into an RT or CT book is on no card, which only looks up the ids it makes itself
  (`engine.py:1431-1432`).
* `PlanIsKept` ends at a rung that was given no lot; `OiSourceSurvivesRoll` is about one
  expiry in a process life.

Three runs exhibit disagreements between the code and what it says of itself.
Each checks one property that states what is said, and TLC's counterexample is the
finding:

| run | it is said | the code does |
|---|---|---|
| `exit_blocked` | "Exits are never blocked" (`exec/gateway.py:12`) | an exit's id is remembered before its outcome is known and depends on position, rung and reason only: after one refusal every retry is a duplicate |
| `day_halt` | the daily-loss breaker "lifts on the next IST day" (`docs/RUNBOOK.md:56-57`) | the pass that rolls purses over counts from the day its process began (`engine.py:2389`), and a boot loads the row as it is (`_load_wallets`, 2498-2507): booted on the next day, the halt and the balance the day's loss is measured from stay for all of it |
| `daily_batch` | "A name is asked about once per expected session" (`engine.py:659`) | every name wanted is marked as asked, and a batch of them is asked |

**Bounds, and why they are enough.** A hazard of this code needs two actors and
one mishap: the instances have the least number that can meet it, and let the
mishap come at every step.

* `entry`: three tasks put two signals on one boundary and two handlers on one
  signal; two books are a parent and a mirror; 10 rupees against outlays of 5 and a
  slippage of 1 make the second entry the one that does not fit; one crash or
  failing write (`MaxMishaps`) and one intervention; a breaker of one reject, so
  that it trips. A boot starts from the ledger alone, so one crash at any step
  meets every half-written ledger one failure can leave; more of them are covered
  by the theorems.
* `exit`: two lots behind two rungs have a partial and a final exit, one lot
  without targets has neither; 20 rupees against losses of 2 reach the daily-loss
  halt; one trouble of any kind, or a refusal and a halt, or two halts (`MaxTrouble`,
  in which anything but those two counts twice). One rule stands for those about the
  market (`Rules`): what tells them apart here is only that they differ from HALT.
* `ladder`: two rungs are the first and the last, three lots one more; four policies
  are the base book and three own books which between them have every knob both
  ways; the reads lie at each level the rules compare with and on both sides of it,
  with quote and last trade apart, stale and absent, with every kind of closing;
  one restart. The bars: two days of two units and a night, two frames, two trades,
  one cut of the connection.
* `market`: three contracts, one of them pinned, with room to follow all of them
  and to watch two; two callers around one midnight, a window of three units so
  that it has two edges and a middle. `control`: a position and its mirror in
  one contract, of which the broker shows one lot either way, two calls, of which a
  failing write uses one up, and one trouble; a purse over three days with one reset and
  one crash; three decisions
  with volumes under and over the threshold and one shown again.
* `books`: two coroutines on a budget of one with one midnight or restart, two hypotheses, two living signals of
  opposite direction, a tape of two days with one window kept, five bars. `daily`:
  two names, one week of two sessions, an undeclared holiday, one restart; a cache is
  met in a week without that holiday and a name nobody trades in one with it. `legs`:
  two strikes, five sessions of history of which one strike has thin ones, one
  refused call. `desk`: two slots, one operator, one restart; five contracts over
  two midnights with an expiry between them; quotes at every age around the
  policy's. In its `pick` part FUKAA sees no liquidity, nor does a signal without an
  ATR: there is no watch then and liquidity is not read.

Symmetry is used in `books` only, over coroutines and hypotheses, which are
interchangeable there and whose run checks no liveness. `CHECK_DEADLOCK` is off
because the behaviours end: all tasks done, all positions closed, the horizon
reached.

**Fairness.** Stated where a property is a liveness property, in the module that
models the code:

* `EntryPath`, `ExitPath`: `WF(Resume)` of each task and actor. The event loop
  resumes what can run, `_await_fill` polls to a deadline and then answers, a
  ledger write returns or raises. The broker need not fill, an operator need not
  act, a signal need not come, and no exit need be decided: the clock looks at every
  open position each second, but a contract that has not printed is passed over, a
  touched stop not yet sustained ends an evaluation, and for an own book a stale price
  under its stop ends every one of them. So `HaltFlattens` supposes, position by
  position, that the evaluations go on coming to the halt (`ComesToTheHalt`), and of
  the rest: no crash or failing write, an engine out of SHADOW, a broker that is done
  with its orders again and again, and no refusal of a halt exit itself. Refusals of
  other exits are let in, and they are the point: an exit's id is used up by one.
* `Feed`: WF of the connection loop (token, connect, resubscribe, reconnect), of the
  one-second pass, of the follow that waits for it, and of the frames of each task.
* `Daily`: WF of the boot, of housekeeping when its interval has passed and of the
  repair; SF, per name, of an answer: a name asked about again and again is answered
  in the end, and a call ends. WF would not do, since refusals disable it each
  time. `Legs` likewise: WF of its loads and of an outcome of a call, SF of an
  answer per strike.

`Heals` and `FailedLegsAreAskedAgain` say no more than that: with a broker that
answers sometimes, nothing is forgotten. The other modules state no fairness and
no liveness.

## 4. The proofs

TLAPS checks these theorems for every value of the constants under the
assumptions their modules name: any number of tasks, signals, books, positions,
lots, rungs, prices and callers, any bounds on mishaps.

| theorem | property | inductive invariant |
|---|---|---|
| `EntryPathProofs!TypeCorrect` | every state has its type | `TypeOK` |
| `EntryPathProofs!OrderRowsComeFirst`, `OnePositionPerOrderHolds`, `SentOnceHolds` | `OrderRowFirst`, `OnePositionPerOrder`, the module's `SentOnce` | `IdInv` |
| `EntryPathProofs!BreakerLatchesHolds` | the module's `BreakerLatches`, an action property | `BreakerInv` |
| `EntryPathProofs!DeployedIsAccountedForHolds`, `NoDoubleSpendHolds` | `DeployedIsAccountedFor`, `NoDoubleSpend` | `MoneyInv` (with `PurseInv`) |
| `ExitPathProofs!TypeCorrect` | every state has its type | `TypeOK` |
| `ExitPathProofs!LedgerNeverAheadHolds` | the module's `LedgerNeverAhead` | `LedgerInv` |
| `ExitPathProofs!SentOnceHolds` | `SentOnce` | `SentInv` |
| `ExitPathProofs!BookEqualsBrokerHolds` | `BookEqualsBroker` | `BookInv` |
| `ExitPathProofs!DeployedTracksRemainingHolds` | `DeployedTracksRemaining` | `MoneyInv` |
| `ExitPathProofs!HoldingImplemented` | `HoldingIsImplemented` | `LifeInv` |
| `ExitPathProofs!EveryCloseIsATradeHolds` | `EveryCloseIsATrade` | `TradeInv` |
| `ExitPathProofs!PlanIsKeptHolds` | `PlanIsKept`, of `Legs` | `PlanInv` |
| `ExitLadderProofs!TypeCorrect`, `UnstrandedHolds`, `StaircaseHoldsAlways`, `SustainIsContinuousHolds`, `ForcedOutHolds` | `Unstranded`, `StaircaseHolds`, `SustainIsContinuous`, `ForcedOut` | `IInv` |
| `ExitLadderProofs!DecidesOnTheExchangesBarHolds` | `DecidesOnTheExchangesBar`, of `Bars` | `Settled` |
| `ExitLadderProofs!VolumeIsCountedOnceHolds` | `VolumeIsCountedOnce`, of `Bars` | `Tallied` (with `Settled`) |
| `ControlProofs!LiveOnlyWhileArmedHolds` | `LiveOnlyWhileArmed` | `Armed` |
| `ControlProofs!StandingMismatchFreezesHolds` | `StandingMismatchFreezes`, an action property | `Standing` |
| `ControlProofs!MidnightLiftsHaltHolds` | `MidnightLiftsHalt`, of `PurseDay` | `Lived` |
| `ControlProofs!OneSignalPerTriggerHolds` | `OneSignalPerTrigger`, of `Decision` | `Told` |
| `SessionProofs!CodeNotReplayedHolds` | `CodeNotReplayed` | `Safe` |
| `SessionProofs!SubscriptionsSurviveHolds` | `SubscriptionsSurvive`, of `Feed` | `Kept` |
| `SessionProofs!LevelsAreTheBrokersHolds` | `LevelsAreTheBrokers`, of `Daily` | `Official` |
| `UniverseProofs!UniverseIsPricedHolds` | `UniverseIsPriced` | `Priced` |
| `UniverseProofs!OiSourceSurvives` | `OiSourceSurvivesRoll`, under `OneExpiry` | `Mastered` |
| `UniverseProofs!OneEntryPerSignalHolds`, `EntriesAreShownHolds` | `OneEntryPerSignal`, `EntriesAreShown`, of `Trigger` | `DeskInv` |
| `UniverseProofs!AgeIsBoundedHolds` | `AgeIsBounded`, of `Strikes` | `PickInv` |
| `UniverseProofs!PlansAreSoundHolds` | `PlansAreSound`, of `Counter` | `PlanInv` (the trigger's) |
| `CommitteeProofs!SpendIsBoundedHolds`, `OneReviewEachHolds` | `SpendIsBounded`, one review of a subject at a time | `CommitteeInv` |
| `CommitteeProofs!RetirementIsAnnouncedHolds` | `RetirementIsAnnounced`, of `Alerts` | `Announced` |
| `CommitteeProofs!EveryHoldIsReplayableHolds` | `EveryHoldIsReplayable`, of `Tape` | `Replayable` |
| `CommitteeProofs!LadderIsTheBacktesterHolds` | `LadderIsTheBacktester`, of `Replay` | `Replayed` |

**Assumptions.** Each module's `...Assumptions` says what a configuration must be
(numbers are numbers, every task has a book, a book is not its own mirror, rungs
ascend from the entry, an own book sustains for more than nothing). Those
that are more than types:

* `ExitPath.LedgerAddsUp`: each wallet's row carries the cost of the lots bought. A
  boot loads them so; TLC evaluates it on every run of that module.
* `Control.NoneIsNothing`: the value for "no order" and "no comparison" is neither;
  `Feed`, `Tape`, `Alerts` and `Trigger` say the same of the value that stands for nobody, no key, no flush, no signal, no position and no price. `Tape`'s feed has a quote.
* `Control.ControlAssumptions`: a mirror is in its parent's contract, and an order buys
  `Lots` of anything. Any number of positions may share a contract.
* `Bars.BarsAssumptions`: the frame decided on is not the one swept, and neither is
  the daily one. The verifier's defaults are thirty minutes and one
  (`bars/verify.py`). The session closes before its day does.
* `CodeNotReplayedHolds` supposes `SessionAssumptions`: a window has a middle.
* `OiSourceSurvives` supposes `OneExpiry`: two futures or more are taken of a name, one
  contract at most of a name's expires in the time looked at, and no master lists it
  as the only future. Groups keep their futures until the next boot or repick, so a
  process that outlives every expiry it picked has none left; the policy promises no
  more than one. `MCDesk`'s masters are such.
* `Counter.CounterAssumption`: a trigger's close is on a tick, as the exchange quotes it.
  A stop is rounded to a tick and the close is not, so off the ticks a stop half a tick
  behind the close could be rounded onto it or beyond.
* `Replay.ReplayAssumptions`: a give-back is a percentage of at most a hundred. With
  more the trail would stand behind the entry and the two engines differ.
* `Legs.LegsAssumption`: the target ladder's shares do not come to more than the
  whole, there is one for every projected target, and a ladder has finitely many rungs.

**Why the invariants are strengthened.**

* `IdInv`. That an id opens one position does not survive a step by itself: the
  step that opens it must know no other task is about to. `OneClaim` says at most
  one task of an id is past the precheck or has ever opened anything; `Remembered`,
  that a task past the precheck has its id among those seen; `SentIsSeen`, the same
  of what the broker was sent. A restart keeps it because `OrderRowFirst` does: an
  id whose position survives is seeded from its order's row.
* `PurseInv`. What a purse has deployed is a sum of holds and a sum of costs. A step
  moves one summand from one to the other, so the step must know the other had
  none: `Unopened` says that a task before its fill has opened nothing, that a task
  elsewhere holds nothing, and that the mirrors still to be opened are not open.
  `Funded` carries `NoDoubleSpend` through fills that cost more than was held for
  them, which is what the ghost `slip` adds up.
* `ExitPathProofs!MoneyInv` is `DeployedTracksRemaining` itself, with types; the
  work is in the sums. `LedgerInv`: a row is written after the slice was booked,
  from a copy taken then, and `PendingIsBehind` says no copy still to be written is
  further along than memory. `SentInv`: `OrdersSeen`, the id of each order of this
  life is among those seen. `BookInv`: between a fill and its booking the broker is
  ahead of the book by the order's quantity; while nothing has gone wrong (`Quiet`),
  `Balanced` relates the broker's lots to the book's plus the fill not yet booked.
  `LifeInv`: a closed position is empty, no row holds more than was bought, and
  whoever is about to write a trade has seen the position closed. `TradeInv`: until a
  closed position has its trade, somebody is on the way to writing it.
* `ExitLadderProofs!IInv`. Every helper of `evaluate` keeps `Sound`: the position
  stands on a rung of its ladder, has one lot less for each rung, and its stop is
  over the ground its last rung claims. The row is `Sound` too, so a restart finds it
  so. The two promises about time compare clocks with what has been read:
  `Breaches`, the running breach is younger than the last recovery; `Agreed`, forced
  reads in a row at which nothing was decided are reads of one breach, no more of
  them than its age and one, nor than the sustain. With a sustain of zero for an own
  book `ForcedOut` fails, hence the assumption; every own book of `limits.py` has one.
* `Settled`. A bar that was formed or waits for its decision must have its bucket
  behind it, or the exchange's candle of it could still change; the one forming has
  not. A bucket no late frame opened again is formed once and its bar ends exactly when
  its decision is asked about (`WhenAsked`), so nothing newer is in the series and
  the decision reads what the task put there, or what a verification installed in
  its place. A third hand writes the series too: a boot's seed, which may hold the
  bucket the process came into, still unfinished. Found in a task's place it is not
  taken for the task's own, which lacks the volume the first frame had counted and so
  differs from the exchange's candle (`InItsPlace`). TLC checked `Settled` on the series before it was proved.
* `Tallied`. What the bars of a day hold is bounded by what had been dealt when the
  last frame was sent, and for the baseline's own day by the baseline, so that a
  frame's difference is volume no bar has yet; a day that has not come has none,
  hence the zero baseline of a process that was there at the open counts nothing
  twice. The bound must survive every hand that moves bars: closing over a bar or
  behind the newest, the cap, a sweep that confirms, replaces or inserts. The volume
  is a set of units, and each of those steps has an injection of the units after it
  into those before (`Carried`), so no sum over a series is needed.
* `Armed`. A restart believes the row and a call writes its own record into it
  later, so memory, row and the call in flight are all asked for a granted deadline.
* `Standing`. A comparison asks the broker, waits, and reads the book when the answer is
  there, while orders, mirrors, exits and trades by hand move both. What has disagreed at
  every moment since the start (ghosts `orphans`, `unmatched`) disagreed when the broker
  answered, so the answer shows it (`Shown`), and in the book when it was read: a position
  unmatched all along was held all along. The reconciler's dictionary keeps one
  position of a contract; every position is of `Lots`, so it does not matter which.
* `Lived`. A reset puts a new object in the purse's place, a restart an old one, and an
  entry may hold the one before, so none of the three counts a day to come (`Calendar`).
  In a process born on an earlier day, the purse counts today once the pass has seen it
  (`Rolled`), and one that counts today was halted today, also before the pass has
  seen the day (`TrippedToday`). The day of the boot itself is what `day_halt` is about.
* `Told`. A bar decided on for the first time is newer than every trigger spoken of and
  than the one parked, and no parked trigger was spoken of; both are excused for a bar
  that a late frame has had decided on before.
* `Kept`. Between a wish and the stream stands a frame, and a frame may be lost with
  its connection or take away what was wished again since. `Covered` says that while
  the socket is read every desired contract is streamed or has a frame on its way on
  this connection; `Outgoing`, that a frame that takes a contract away is never for a
  desired one, because the contract stays followed until its frames are out. That the
  frames of a set leave no contract of it out is `FramesCover`: a contract's rank
  among the codes names its frame, and no rank is skipped (`EveryRankIsTaken`).
* `Official`. The engine checks the previous session's bar and reads whole weeks, so
  behind a bar of the broker's there must be none of ours (`KeptTo`). An answer keeps it
  so, because it covers every day traded up to the one asked for (`SeededIsKept`), and
  our own bar does, because nothing stands after the day it is built on. The cache has
  none of ours at all, so a boot finds it so. Levels, once cached, stay what they were.
* `Safe`. The windows a login chooses only grow, and the lock means nobody else moves
  the choice. `Priced`: the shape of groups, since a repicked group keeps its futures.
* `DeskInv`. Who is past the gateway's check of an id, and what is opened under it in
  memory or in the ledger, are followed together. One task at most has an id past the
  check (`Claims`); until its fill nothing is open under the id, and until its mirror
  only its own book's (`NotYet`); what is open is under an id that was checked and has
  its signal recorded (`Once`). A restart forgets who was checked and keeps what was
  opened, and the ids it begins with are those of recorded signals. For the cards,
  `OfABar`: what the engine entered is of a bar, half an hour old when it was, and of a
  book whose card of that bar looks it up.
* `PickInv` follows how far the clock can have run past the one that judges a quote:
  nothing before the chain is followed, one wait after it, both after the answer. The
  rest is that the selector returns a strike it judged at all. `select_option` takes
  the first tradeable strike of a walk; the strikes sort by tuples of numbers, no two
  of them the same (`WalkIsOrdered`), so there is a first one (`WalkBegins`).
* `Announced` is the property with its types. The minute that takes a signal off the
  living is the one that rings EXPIRED of it, all verdicts before the first row; a row
  lost with its card mutes the signal until it is adopted again or the day begins.
* `Replayable`. A held second is answered by a row that lies in the buffer, with the
  worker, in its day's file or set aside. No step but a death moves a row out of all
  four, a death takes only rows younger than the last flush that went well
  (`Unflushed`), and what was due after that flush is no longer due. While the key of
  a code stands, its last row answers for it (`Remembered`).
* `CommitteeInv`: a review is counted when its answer comes and admitted before, so what
  is bounded is what was asked plus what waits, process by process. The count in memory
  bounds what this process asked; the earlier ones of the day are bounded by the cap and
  the coroutines each (`Allowed`). A restart cancels what waits, which moves from waiting to
  asked, and a midnight carries what waits into the new day.
* `Mastered`. A group's futures always hold one that outlives the roll: the load that
  makes a group takes the nearest two, and at most one of them expires.
* `Replayed` says the backtester's trade and the environment's episode are twins: the
  same fill, stop, peak, rungs sold and bars held. The engines set the stop by
  different rules, one only ever raises it and the other sets it outright; they
  come to the same because the stop lies behind the entry until the trail is armed and
  behind the trail after (`Behind`), and the rung sold last lies behind the peak (`Climbed`).
* `PlanInv` of a trigger keeps that both plans were graded better than F on its own
  zones and close; the rest is what `compute_confluence` returns then, for any zones at
  whole prices (`TradableIsSound`). Rounding moves a target outward by up to a fifth of
  its distance, by a step that changes with the price and not at all when that is too
  much, so that it never moves past the next wall's has to be shown: the threshold
  between two step sizes is a multiple of both (`StepsMeet`), and where a wall would be
  moved past a further one, the further one is moved to the same number (`SnapUp`,
  `SnapDown`). A wall at the close is on both sides of a short, where it makes the stop
  the close and the plan is blocked (`StopIsBehind`).
* `PlanInv` of `Legs`. While every rung so far was given a lot, what is left is the hand less what
  the plan gave them (`Remains`), so a share is never more than what is left
  (`PartFits`), and the last rung finds what the card says is the rest. A rung given
  none sells everything, and the promise ends there. A ladder is finite because the
  answer it was loaded from is (`LoadedInv`).

**Sums.** `PurseGatewayProofs` has the lemmas the paths share: what each operation
of purse and gateway preserves, and what a sum over a finite set is. The sum of the
community modules is a recursive function on subsets, and an induction theorem
over sets takes a predicate as a parameter, which these backends cannot
instantiate. Facts about it come from a minimal counterexample instead: the subsets
for which the fact fails, ordered by strict inclusion, have a minimal member if
there is any (`WFMin`), and it cannot be the empty set nor one with an element to
take away. From that: a sum of naturals is a natural, functions that agree on a set
have one sum, a changed summand changes the sum by the difference (`SumChanged`),
zeros sum to zero. The same argument gives `UniverseProofs` what a fold is at all
(`FoldExists`): for `sorted`, a list of the whole set in order of its key
(`InOrderIs`), and for a zone's weighted mean, a whole number (`ZonePriceIsInt`).

**Only model-checked**, and why:

* Liveness (`HoldsSettle`, `HaltFlattens`, `DepthConverges`, `Heals`,
  `FailedLegsAreAskedAgain`): fairness and ENABLED are beyond the provers used.
* The levels and zones of a contract's ladder, which `PlanIsKeptHolds` takes as they
  come: it holds for any.

Every invariant and action property of the runs is stated by a theorem.

## 5. What is not modelled

| part | why |
|---|---|
| implied volatility, expected moves, scores, most indicators (`market/iv.py`, `market/volatility.py`, `strategy/conviction.py`, `strategy/gapscore.py`, `bars/indicators.py`) | floating-point numerics; the flip of the SuperTrend and the volume surges, on which decisions turn, are in `Decision`, the scores are inputs |
| strategy catalogue and keys | tables of names and texts |
| cost schedule, position size, part fills of the paper matcher | tables and arithmetic; a constant charge and outlay stand for them |
| `_peak_ratchet`, `replay_gap` (`risk/exits.py`) | no book switches the first on, only tests call the second |
| day file of holidays, the master's line format, REST and socket formats | inputs and wire formats |
| alert cards (`alerts/rtcard.py`, `alerts/plan.py`, `alerts/entry.py`) | advice put together anew from one set of quotes, in floats; nothing is traded from it. Where a card's stop and the position's part is in section 6 |
| committee evidence, prompts and answers | text; `Committee` takes the outcome as a choice |
| health, Telegram, reports, hot stocks, research statistics and learning | read-only, or nothing reads them back |
| event bus and websocket (`bus.py`, `api/ws.py`) | the engine publishes on three topics and nothing in the repository subscribes, so no queue fills |
| start-up, settings, log, frontend, deployment | wiring and constants; the constants appear in the configurations |

"Partly" in `PROJECT.json` marks the components of which a part named there is left
out, with the reason. The ledger has no module: its rows are variables of the path
that writes them.

## 6. Seen while modelling

Disagreements and surprises in the code that models have shown or that reading for
them has. The first three have runs (section 3); the properties behind the next
group were checked and found violated, and their runs gave way to others; the
last group is read from the code.

* An exit's id is used up by a refusal, an unanswered order or a SHADOW pass.
* A daily-loss halt outlasts its day when the engine is booted on the next one.
* Names are marked as asked that are not asked.

Refuted on earlier instances:

* Two live entries of one boundary both pass a cap of one on open positions,
  before either is registered (`engine.py:2070`).
* In LIVE, mirrors are opened without an order: positions the broker never sold
  (`engine.py:1326`).
* A parent closed while its handler is still saving is copied as closed, and the
  copy's money never returns (`engine.py:1344`).
* A crash between the broker's answer and the order's row lets the next life send an
  exit again (`engine.py:2199`).
* Kill squares off at the broker and leaves the book open, so the HALT exits sell
  the same lots again (`api/routes.py:837`).
* Under a sustain policy a stale price under the stop holds a halted position for
  good; and a feed gap in a breach counts as time held.

Read:

* The forced refetch of 09:20 falls back to an older file of the master, although
  `engine.py:954` says that a failed rebuild keeps the overnight universe; and the
  rebuild marks its day before it fetches (`engine.py:2454`).
* The candle of the running bucket, seeded over REST at boot, is kept as closed.
* The depth cap, `sorted(want)[:250]`, may cut an open position's contract
  (`engine.py:2323`).
* The acknowledge and reconcile handlers (`api/routes.py:842-854`) call `engine.reconciler`,
  the reconciler of bars, which has no `run` and no `acknowledge`: the request fails and
  the freeze stays, where `docs/RUNBOOK.md:53-54` has it retried and accepted.
* A position and its mirrors in one contract collapse in the reconciler's dictionary
  (`exec/reconcile.py:117`), so the broker is compared with one of them: two entries that
  bought twice freeze for nothing. `abs(net)` takes a short for a long.
* `committee_max_runs_per_day` (`docs/COMMITTEE.md:88`) is a cap per process:
  `runs_today` is in memory only. The reflection on an experiment asks without counting
  (`committee/service.py:445-465`).
* The stop on an alert card is projected like the position's and not floored like it:
  `map_levels_to_option` is said to make the two one (`alerts/rtcard.py:172-174`,
  `alerts/engine.py:175-178`), and `floored_option_stop` (`engine.py:1924-1930`) then moves
  the position's to at least eight ticks from its premium, in the books of
  `NO_PREMIUM_FLOOR`. At a premium of 1.20, a card's
  0.98 is a position's 0.80.
* "The last row is the decision that stands" (`engine.py:1391`), where the ledger keeps the
  first row of an id (`ledger/db.py:239`).
* A DRAWDOWN halt is not lifted by the roll-over (`risk/wallet.py:91`), which
  `docs/RUNBOOK.md:56-57` says of every breaker; the gateway's trips at twelve
  rejects in the code and at three in the runbook.
* A freeze taken in PAPER after arming expired is not looked at again
  (`engine.py:2421`).
* A trade's gross uses the last exit's price for the whole quantity
  (`engine.py:2807`); a part fill on paper is booked at the quantity decided
  (`engine.py:2228`).
* An exception in one live exit ends the clock's pass over the positions
  (`engine.py:2374`).
* In the backtester a stop hit at an entry gap books a profit.
* `book_cards` keeps the oldest ENTRY row while `mark_*` stamp the newest.

## 7. What is left

* `ExitPath` lets `evaluate` decide what `MayDecide` allows. That every decision of
  `ExitLadder` is one of those is read off the two modules and not proved.
* A composition of `Control` with the paths in LIVE: each has the other as an input.
