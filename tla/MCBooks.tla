------------------------------- MODULE MCBooks -------------------------------
(* The parts that watch the trading and touch nothing of it - the committee, the    *)
(* advisory books, the tape, the backtester - each on its own while the others      *)
(* stand still.                                                                     *)
EXTENDS Committee

CONSTANTS Frame, Cooldown, DayCap, Ttl, Reeval, Gate, Signals, Ids, Prices, MaxTime,
          Options, Legs, Quotes, Secs, Days, CandidateTtl, AfterClose, FlushEvery, Keep,
          Ticks, Levels, Slip, Purse, Lot, Arm, Giveback, TimeStop, PerDay, Warm, MaxBars

VARIABLES part,
          now, closed, bar, cooldown, taken, living, ring, muted,
          clock, quote, open, watch, last, buffer, flush, flushed, file, aside, due, torn, saved,
          holding, n, pending, trade, close, ended

Advice == INSTANCE Alerts
Record == INSTANCE Tape
Backtest == INSTANCE Replay WITH Prices <- Ticks, Budget <- Purse, last <- ended

ASSUME BooksAssumption == Advice!AlertAssumptions /\ Record!TapeAssumptions /\ Backtest!ReplayAssumptions

committeeVars == <<task, running, spent, hyps, asked>>
adviceVars == <<now, closed, bar, cooldown, taken, living, ring, muted>>
recordVars == <<clock, quote, open, watch, last, buffer, flush, flushed, file, aside, due, torn, saved>>
replayVars == <<holding, n, pending, trade, close, ended>>

MCCooldown == [b \in {"BB", "FUDKOI", "PIVOTBOSS"} |-> IF b = "PIVOTBOSS" THEN 4 ELSE 6]

\* A trigger upwards and the derived book's copy of one downwards.
MCSignals == <<[strategy |-> "FUDKII", entry |-> 3, stop |-> 2, target |-> 5],
               [strategy |-> "FUKAA", entry |-> 3, stop |-> 4, target |-> 1]>>

MCSymmetry == Permutations(Tasks) \union Permutations(Keys)

MCInit ==
  /\ part \in {"committee", "frames", "living", "tape", "replay"}
  /\ Init /\ Advice!Init /\ Record!Init /\ Backtest!Init
  /\ part # "replay" => holding = "intraday"

\* The detectors' cadence and the living signals share only the clock: each is checked while
\* the other is quiet.
Advising ==
  /\ Advice!Next
  /\ part = "frames" => living' = living
  /\ part = "living" => cooldown' = cooldown /\ bar'.shows = {}

\* Bounds: positions open, candidates are looked at and quotes rise on the first day only.
Recording ==
  /\ Record!Next
  /\ clock' # clock => \A c \in Record!Codes : quote'[c] >= quote[c]
  /\ Record!Today > 0 => open' \subseteq open /\ quote' = quote
  /\ clock' >= Secs => \A c \in Options : watch[c] = None => watch'[c] = None

MCNext ==
  /\ UNCHANGED part
  /\ \/ part = "committee" /\ Next /\ UNCHANGED <<adviceVars, recordVars, replayVars>>
     \/ part \in {"frames", "living"} /\ Advising /\ UNCHANGED <<committeeVars, recordVars, replayVars>>
     \/ part = "tape" /\ Recording /\ UNCHANGED <<committeeVars, adviceVars, replayVars>>
     \/ part = "replay" /\ Backtest!Next /\ UNCHANGED <<vars, adviceVars, recordVars>>

MCSpec == MCInit /\ [][MCNext]_<<part, vars, adviceVars, recordVars, replayVars>>

\* Of Alerts, of Tape and of Replay.
RetirementIsAnnounced == Advice!RetirementIsAnnounced
EveryHoldIsReplayable == Record!EveryHoldIsReplayable
LadderIsTheBacktester == Backtest!LadderIsTheBacktester

=============================================================================
