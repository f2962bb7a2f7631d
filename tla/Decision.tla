------------------------------ MODULE Decision ------------------------------
(* What a closed decision bar of one underlying sets off: Engine._decide asks   *)
(* FUDKII, which fires on a SuperTrend flip with a band break (fudkii.py), and  *)
(* FUKAA, which confirms that trigger by volume, parks it for one bar or        *)
(* rejects it (fukaa.py); then writes, enters and fades one step after another. *)
(* A step is what runs between two awaits. What the indicators and the          *)
(* confluence say of a bar is an input; trend and volume stay with the bar.     *)
EXTENDS Integers, Sequences, FiniteSets, Gates

CONSTANTS
  BarLength,   \* a decision bar, in units of time
  Ttl,         \* watching_ttl_minutes
  MinBars,     \* FudkiiConfig.min_bars
  AvgBars,     \* FukaaConfig.avg_bars: the baseline's length
  Multiplier,  \* the volume multiple of the exchange
  Floor,       \* avg_volume_floor
  Volumes,     \* the volumes a bar may have
  MaxDecisions, \* bound: decisions
  MaxSilent,   \* bound: buckets in which nothing trades
  MaxAgain,    \* bound: bars emitted once more by a late frame
  MaxTroubles, \* bound: failures of a step, and restarts
  None

DecisionAssumptions ==
  /\ {BarLength, Ttl, MinBars, AvgBars, Multiplier, Floor} \subseteq Nat
  /\ Volumes \subseteq Nat
  /\ BarLength < Ttl /\ Ttl < 2 * BarLength
  /\ AvgBars > 0 /\ Floor > 0 /\ AvgBars + 2 <= MinBars

VARIABLES
  hist,      \* the store's bars of the decision frame, the last ones
  due,       \* the last of them is still to be decided on
  parked,    \* StrategyContext._state["watching"] for this underlying
  decisions, \* the decisions so far, each with the steps it has left
  silent, troubles,
  redone,    \* ghost: the bars decided on more than once
  spoken     \* ghost: FUKAA's signals, each with the trigger it comes from

vars == <<hist, due, parked, decisions, silent, troubles, redone, spoken>>

Directions == {1, -1}

If(condition, element) == IF condition THEN <<element>> ELSE <<>>

\* What the strategies read off a bar and its surroundings: "weak" is a signal too weak for
\* the session's last bar.
Facts == [shape : {"cold", "inside", "broke"}, priced : {"F", "weak", "ok"},
          oi : {None, "low", "high"}, convinced : BOOLEAN]

LastN(s, n) == IF Len(s) <= n THEN s ELSE SubSeq(s, Len(s) - n + 1, Len(s))

-----------------------------------------------------------------------------
(* fudkii.py *)

\* bars_in_trend: the trend is this bar's and not the one's before.
Flipped == Len(hist) = 1 \/ hist[Len(hist) - 1].trend # Last(hist).trend

\* The chain as far as Fudkii.on_bar takes it before it returns. Its score is reached when
\* both the flip and the break are there, so that gate never binds.
BaseGates(f) ==
  LET history == <<Closed("history", TRUE, Len(hist) >= MinBars)>>
      trigger == history \o <<Closed("st_flip", f.shape # "cold", Flipped)>>
                   \o If(f.shape # "cold", Closed("bb_break", TRUE, f.shape = "broke"))
      priced == trigger \o <<Verdict("confluence_grade", f.priced # "F"),
                             Open("eod_strong_only", TRUE, f.priced # "weak")>>
  IN  IF ~ChainPassed(history) THEN history
      ELSE IF ~ChainPassed(trigger) THEN trigger ELSE priced

-----------------------------------------------------------------------------
(* fukaa.py *)

\* volume_baseline: the AvgBars volumes before the last two bars, floored.
\* Everything is kept times AvgBars.
Baseline ==
  LET window == SubSeq(hist, Len(hist) - 1 - AvgBars, Len(hist) - 2)
      total == FoldLeft(LAMBDA sum, b : sum + b.vol, 0, window)
  IN  IF total > Floor * AvgBars THEN total ELSE Floor * AvgBars

\* volume_surges: the higher of the bar's and the one's before it.
Surges ==
  \E b \in {Last(hist), hist[Len(hist) - 1]} : b.vol * AvgBars >= Multiplier * Baseline

\* The gates behind the volume gate. A trigger's RR is never under the floor: its grade is not F.
ConvictionGates(f) ==
  <<Closed("composite", TRUE, f.convinced), Closed("rr", TRUE, TRUE),
    Closed("ref_oi", f.oi # None, f.oi = "high"), Verdict("conviction_tier", f.convinced)>>

VolumeGates ==
  LET history == <<Closed("history", TRUE, Len(hist) >= AvgBars + 2)>>
  IN  IF ChainPassed(history) THEN Append(history, Closed("volume_surge", TRUE, Surges))
                              ELSE history

\* What FUKAA leaves parked, the trigger it signals and the reason it writes down.
Outcome(stays, signal, reject) == [parked |-> stays, signal |-> signal, reject |-> reject]

Silent(stays) == Outcome(stays, None, "none")
Rejects(stays, gates) == Outcome(stays, None, BindingGate(gates))
Expires == Outcome(None, None, "watching_expired")

\* The whole chain: nothing is asked of volume without history.
AllGates(f) ==
  IF Len(VolumeGates) = 1 THEN VolumeGates ELSE VolumeGates \o ConvictionGates(f)

\* Fukaa._evaluate on a trigger of this bar: confirm it, park it or reject it.
OnSignal(bar, f) ==
  IF BindingGate(VolumeGates) = "volume_surge"
    THEN Rejects([ts |-> bar.ts, direction |-> bar.trend, expires |-> bar.ts + Ttl], VolumeGates)
  ELSE IF ChainPassed(AllGates(f)) THEN Outcome(parked, bar.ts, "none")
  ELSE Rejects(parked, AllGates(f))

\* Mutant: a parked trigger is not taken out when it is promoted.
PromotesAndKeeps(bar, f) ==
  IF parked = None \/ bar.ts = parked.ts THEN Silent(parked)
  ELSE IF bar.ts > parked.expires THEN Expires
  ELSE IF ChainPassed(AllGates(f)) THEN Outcome(parked, parked.ts, "none")
  ELSE Rejects(None, AllGates(f))

\* Fukaa.on_bar: no trigger on this bar; a parked one is promoted, rejected or has expired.
\* Only a lack of history leaves it parked.
OnBar(bar, f) ==
  IF parked = None \/ bar.ts = parked.ts THEN Silent(parked)
  ELSE IF bar.ts > parked.expires THEN Expires
  ELSE IF ChainPassed(AllGates(f)) THEN Outcome(None, parked.ts, "none")
  ELSE Rejects(IF Len(VolumeGates) = 1 THEN parked ELSE None, AllGates(f))

-----------------------------------------------------------------------------
(* engine.py, _decide *)

Step(do, book) == [do |-> do, book |-> book]

\* What the decision has to await, in order. select drops nothing: both caps are None.
Agenda(base, out) ==
  If(~base, Step("reject", "FUDKII")) \o If(out.reject # "none", Step("reject", "FUKAA"))
  \o If(base, Step("signal", "FUDKII")) \o If(out.signal # None, Step("signal", "FUKAA"))
  \o If(base, Step("counter", "FUDKII"))

\* Engine._decide up to its first await: the strategies run on the bar the store holds.
Decide(f) ==
  LET bar == Last(hist)
      base == ChainPassed(BaseGates(f))
      out == IF base THEN OnSignal(bar, f) ELSE OnBar(bar, f)
  IN  /\ due
      /\ due' = FALSE
      /\ parked' = out.parked
      /\ decisions' = Append(decisions,
           [left |-> Agenda(base, out), entered |-> 0, stopped |-> FALSE,
            owed |-> (IF base THEN 1 ELSE 0) + (IF out.signal # None THEN 1 ELSE 0)])
      /\ spoken' = IF out.signal = None THEN spoken
                   ELSE Append(spoken, [ts |-> bar.ts, src |-> out.signal, oi |-> f.oi])
      /\ UNCHANGED <<hist, silent, redone, troubles>>

NextStep(d) == Head(decisions[d].left)

StepDone(d) ==
  /\ decisions[d].left # <<>>
  /\ decisions' = [decisions EXCEPT ![d].left = Tail(@),
                     ![d].entered = IF NextStep(d).do = "signal" THEN @ + 1 ELSE @]
  /\ UNCHANGED <<hist, due, parked, silent, redone, troubles, spoken>>

Trouble == troubles < MaxTroubles /\ troubles' = troubles + 1

\* A rejection's write or an entry raises: _reconcile_then_decide logs it, and nothing
\* that was still to do is done.
StepFails(d) ==
  /\ decisions[d].left # <<>> /\ NextStep(d).do # "counter"
  /\ Trouble
  /\ decisions' = [decisions EXCEPT ![d].left = <<>>, ![d].stopped = TRUE]
  /\ UNCHANGED <<hist, due, parked, silent, redone, spoken>>

\* The fade raises, and costs only itself.
CounterFails(d) ==
  /\ decisions[d].left # <<>> /\ NextStep(d).do = "counter"
  /\ Trouble
  /\ decisions' = [decisions EXCEPT ![d].left = Tail(@)]
  /\ UNCHANGED <<hist, due, parked, silent, redone, spoken>>

-----------------------------------------------------------------------------

\* The next decision bar closes and is in the store when the strategies ask for it. A bucket
\* in which nothing trades has no bar. What the bar before set off took seconds of its length.
BarCloses(volume, trend, skipped) ==
  /\ \A d \in DOMAIN decisions : decisions[d].left = <<>>
  /\ ~due /\ Len(decisions) < MaxDecisions
  /\ silent + skipped <= MaxSilent /\ silent' = silent + skipped
  /\ hist' = LastN(Append(hist, [ts |-> Last(hist).ts + (1 + skipped) * BarLength,
                                 vol |-> volume, trend |-> trend]), AvgBars + 4)
  /\ due' = TRUE
  /\ UNCHANGED <<parked, decisions, redone, troubles, spoken>>

\* A late frame opens the bucket again: the bar is emitted, and decided on, once more.
EmittedAgain(volume) ==
  /\ ~due /\ Len(decisions) < MaxDecisions /\ decisions # <<>>
  /\ Cardinality(redone) < MaxAgain /\ Last(hist).vol <= volume
  /\ hist' = [hist EXCEPT ![Len(hist)].vol = volume]
  /\ due' = TRUE
  /\ redone' = redone \union {Last(hist).ts}
  /\ UNCHANGED <<parked, decisions, silent, troubles, spoken>>

\* The process dies and starts again: the store is filled from history, a strategy's state
\* and the decisions under way are gone.
Restart ==
  /\ Trouble
  /\ parked' = None
  /\ due' = FALSE
  /\ decisions' = [d \in DOMAIN decisions |->
       IF decisions[d].left = <<>> THEN decisions[d]
       ELSE [decisions[d] EXCEPT !.left = <<>>, !.stopped = TRUE]]
  /\ UNCHANGED <<hist, silent, redone, spoken>>

Init ==
  /\ \E n \in MinBars - 1..MinBars :
       hist = [i \in 1..n |-> [ts |-> i * BarLength, vol |-> Floor, trend |-> 1]]
  /\ due = FALSE
  /\ parked = None
  /\ decisions = <<>>
  /\ silent = 0 /\ redone = {} /\ troubles = 0
  /\ spoken = <<>>

Next ==
  \/ \E volume \in Volumes, trend \in Directions, skipped \in 0..1 :
       BarCloses(volume, trend, skipped)
  \/ \E volume \in Volumes : EmittedAgain(volume)
  \/ \E f \in Facts : Decide(f)
  \/ \E d \in DOMAIN decisions : StepDone(d) \/ StepFails(d) \/ CounterFails(d)
  \/ Restart

Spec == Init /\ [][Next]_vars

-----------------------------------------------------------------------------

\* A FUDKII trigger makes at most one FUKAA signal, at its own bar or by promotion, however
\* often later bars are decided on again. The trigger's own bar is another matter: decided on
\* twice, it may be parked first and confirmed then, and promoted once more.
OneSignalPerTrigger ==
  \A i, j \in DOMAIN spoken :
    spoken[i].src = spoken[j].src /\ spoken[i].src \notin redone => i = j

=============================================================================
