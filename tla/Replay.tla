------------------------------- MODULE Replay -------------------------------
(***************************************************************************)
(* The backtester (research/backtest.py) walks one symbol's bars and keeps *)
(* at most one trade; every fill it takes is also an episode of the exit   *)
(* environment (research/rl/env.py), here under the ladder policy, which   *)
(* is meant to be the backtester's own rules.  A direction is 1 or -1, a   *)
(* price an integer, the slippage a number of ticks.                       *)
(***************************************************************************)
EXTENDS Integers, Sequences

CONSTANTS
    Prices,       \* what bars are made of
    Levels,       \* what stops and targets are made of
    Slip,         \* BacktestParams.slippage_bps, in ticks
    Budget, Lot,  \* BacktestParams.position_budget_inr, lot_size
    Arm, Giveback,\* RiskLimits.trail_arm_pct, trail_giveback_pct
    TimeStop,     \* RiskLimits.time_stop_bars
    PerDay,       \* decision bars of a session
    Warm, MaxBars,\* bars before the range starts, and bars in all
    None

ReplayAssumptions ==
  /\ Prices \union Levels \subseteq Int
  /\ {Slip, Arm, TimeStop} \subseteq Nat /\ Giveback \in 0..100

VARIABLES holding, \* "intraday", on 30m bars, or "delivery", on daily ones
          n,       \* bars replayed
          pending, \* the signal that fills at the next open
          trade,   \* the open trade and its episode
          close,   \* of the bar being decided on, None between two bars
          last     \* the trade closed by the last bar

vars == <<holding, n, pending, trade, close, last>>

Dirs == {1, -1}
Slot(i) == i % PerDay
Day(i) == i \div PerDay

\* A bar: the extremes cover the open and the close.
Bars == {b \in [open : Prices, high : Prices, low : Prices, close : Prices] :
           /\ b.low <= b.open /\ b.open <= b.high
           /\ b.low <= b.close /\ b.close <= b.high}

Best(d, b) == IF d = 1 THEN b.high ELSE b.low
Worst(d, b) == IF d = 1 THEN b.low ELSE b.high
Further(d, x, y) == IF d * (x - y) >= 0 THEN x ELSE y

-----------------------------------------------------------------------------
(* What the strategies say of a closed bar - a trigger of FUDKII's that FUKAA   *)
(* was shown, or one FUKAA promotes: the stop is behind the close, one or two  *)
(* targets ahead.                                                              *)
Plans(at) ==
  {p \in [dir : Dirs, stop : Levels, targets : {<<x>> : x \in Levels} \union (Levels \X Levels)] :
     /\ p.dir * (at - p.stop) > 0
     /\ p.dir * (p.targets[1] - at) > 0
     /\ Len(p.targets) = 2 => p.dir * (p.targets[2] - p.targets[1]) > 0}

\* Delivery cannot be carried short.
Allowed(p) == holding = "delivery" => p.dir = 1

-----------------------------------------------------------------------------
(* The episode.  Its levels are kept as prices: an R is the distance from the  *)
(* fill to the plan's stop, on whichever side of the fill that stop is.        *)
Risk(t) == IF t.entry > t.initial THEN t.entry - t.initial ELSE t.initial - t.entry

\* Targets behind the fill are not the episode's: the first ones, as a plan's lie one beyond
\* another.
EpisodeTargets(t) ==
  LET passed == CHOOSE k \in 0..Len(t.targets) :
                  \A i \in DOMAIN t.targets : t.dir * (t.targets[i] - t.entry) <= 0 <=> i <= k
  IN  SubSeq(t.targets, passed + 1, Len(t.targets))

NewEpisode(t) ==
  [entry |-> t.entry, dir |-> t.dir, targets |-> EpisodeTargets(t),
   stop |-> t.entry - t.dir * Risk(t), peak |-> t.entry, hit |-> 0, held |-> 1,
   done |-> "no", price |-> 0]

PeakGain(e) == e.dir * (e.peak - e.entry)

Armed(e) == PeakGain(e) > 0 /\ PeakGain(e) * 100 >= Arm * e.entry

TrailLevel(e) == e.peak - e.dir * ((PeakGain(e) * Giveback) \div 100)

\* Mutant: the first target is looked at before the trail.
ActLockFirst(e) ==
  IF e.targets # <<>> /\ e.dir * (e.peak - e.targets[1]) >= 0 THEN "lock_0r"
  ELSE IF Armed(e) THEN "trail_ladder"
  ELSE "hold"

\* LadderPolicy.act.
Act(e) ==
  IF Armed(e) THEN "trail_ladder"
  ELSE IF e.targets # <<>> /\ e.dir * (e.peak - e.targets[1]) >= 0 THEN "lock_0r"
  ELSE "hold"

\* stop_after_action, for the actions of the ladder.
StopAfter(e, action) ==
  CASE action = "trail_ladder" -> Further(e.dir, e.stop, TrailLevel(e))
    [] action = "lock_0r" -> Further(e.dir, e.stop, e.entry)
    [] action = "hold" -> e.stop

\* The bar that starts in the session's last slot contains its force-flat.
ContainsFlat(i) == holding = "intraday" /\ Slot(i) = PerDay - 1

Ended(e, reason, price) == [e EXCEPT !.done = reason, !.price = price]

\* ExitEnv._check_bar: the i-th bar, the fill's own when first.
Checked(e, b, i, first) ==
  LET seen == [e EXCEPT !.peak = Further(e.dir, @, Best(e.dir, b))]
      due == seen.hit < Len(e.targets) /\ e.dir * (Best(e.dir, b) - e.targets[seen.hit + 1]) >= 0
      rung == IF due THEN [seen EXCEPT !.hit = @ + 1] ELSE seen
  IN  IF ~first /\ e.dir * (b.open - e.stop) <= 0 THEN Ended(e, "stop_gap", b.open - e.dir * Slip)
      ELSE IF e.dir * (Worst(e.dir, b) - e.stop) <= 0 THEN Ended(e, "stop", e.stop - e.dir * Slip)
      ELSE IF due /\ rung.hit = Len(e.targets) THEN Ended(rung, "target", e.targets[rung.hit])
      ELSE IF ContainsFlat(i) THEN Ended(rung, "force_flat", b.close - e.dir * Slip)
      ELSE IF e.held >= TimeStop THEN Ended(rung, "time_stop", b.close - e.dir * Slip)
      ELSE rung

\* ExitEnv.step: the policy acts on the bar before, then this one is checked.
Stepped(e, b, i) ==
  IF e.done # "no" THEN e
  ELSE Checked([e EXCEPT !.stop = StopAfter(e, Act(e)), !.held = @ + 1], b, i, FALSE)

-----------------------------------------------------------------------------
(* The backtester's trade.                                                     *)
Fill(p, b) == b.open + p.dir * Slip

Qty(fill) == ((Budget \div fill) \div Lot) * Lot

\* Backtester._open: no trade without a risk, or smaller than a lot.
Opened(p, b) ==
  IF p = None \/ Fill(p, b) = p.stop \/ Qty(Fill(p, b)) < Lot THEN None
  ELSE [dir |-> p.dir, day |-> Day(n), at |-> n,
        entry |-> Fill(p, b), stop |-> p.stop, initial |-> p.stop, targets |-> p.targets,
        qty |-> Qty(Fill(p, b)), hit |-> 0, peak |-> Fill(p, b), held |-> 0]

\* The trail, after the rung taken on this bar.
Trailed(t, rung) ==
  IF Armed(t) /\ t.dir * (TrailLevel(t) - t.stop) > 0 THEN [t EXCEPT !.stop = TrailLevel(t)] ELSE t

StopHit(t, b) == t.dir * (Worst(t.dir, b) - t.stop) <= 0

TargetHit(t, b) ==
  t.hit < Len(t.targets) /\ t.dir * (Best(t.dir, b) - t.targets[t.hit + 1]) >= 0

\* past_force_flat of the second before the next bar.
FlatInside(i) == ContainsFlat(i)

\* Backtester._manage: the trade after the bar, and the reason it closes for, if it does.
Managed(t, b) ==
  LET seen == [t EXCEPT !.held = @ + 1, !.peak = Further(t.dir, @, Best(t.dir, b))]
      rung == [seen EXCEPT !.hit = @ + 1, !.stop = t.entry]
      after == Trailed(IF TargetHit(t, b) THEN rung ELSE seen, TargetHit(t, b))
  IN  IF StopHit(t, b) THEN [trade |-> seen, reason |-> "SL_EQ", exit |-> t.stop - t.dir * Slip]
      ELSE IF TargetHit(t, b) /\ rung.hit = Len(t.targets)
        THEN [trade |-> rung, reason |-> "TARGET", exit |-> t.targets[rung.hit]]
      ELSE IF FlatInside(n) THEN [trade |-> after, reason |-> "EOD", exit |-> b.close]
      ELSE IF after.held >= TimeStop THEN [trade |-> after, reason |-> "TIME_STOP", exit |-> b.close]
      ELSE [trade |-> after, reason |-> "open", exit |-> 0]

\* Backtester._close.
Closed(m, rl) ==
  [trade |-> m.trade, rl |-> rl, reason |-> m.reason, exit |-> m.exit, day |-> Day(n),
   gross |-> (m.exit - m.trade.entry) * m.trade.dir * m.trade.qty]

Fills(b) == trade = None /\ Opened(pending, b) # None

\* One bar of _run_symbol: a pending entry fills at its open, then its range is managed.
Bar(b) ==
  LET t == IF Fills(b) THEN Opened(pending, b) ELSE trade.bt
      rl == IF Fills(b) THEN Checked(NewEpisode(t), b, n, TRUE) ELSE Stepped(trade.rl, b, n)
      m == Managed(t, b)
      none == trade = None /\ ~Fills(b)
  IN  /\ n < MaxBars /\ close = None
      /\ close' = b.close
      /\ pending' = None
      /\ trade' = IF none \/ m.reason # "open" THEN None ELSE [bt |-> m.trade, rl |-> rl]
      /\ last' = IF none \/ m.reason = "open" THEN None ELSE Closed(m, rl)
      /\ UNCHANGED <<holding, n>>

\* The bar is over: a signal is taken when flat, inside the range, with a bar left to fill on.
Decides ==
  /\ close # None
  /\ \/ pending' = None
     \/ /\ trade = None /\ Warm <= n /\ n + 1 < MaxBars
        /\ \E p \in Plans(close) : Allowed(p) /\ pending' = p
  /\ IF trade # None /\ n + 1 = MaxBars
       THEN /\ last' = Closed([trade |-> trade.bt, reason |-> "END", exit |-> close], trade.rl)
            /\ trade' = None
       ELSE UNCHANGED <<trade, last>>
  /\ n' = n + 1
  /\ close' = None
  /\ UNCHANGED holding

Init ==
  /\ holding \in {"intraday", "delivery"}
  /\ n = 0
  /\ pending = None
  /\ trade = None
  /\ close = None
  /\ last = None

Next == Decides \/ \E b \in Bars : Bar(b)

Spec == Init /\ [][Next]_vars

-----------------------------------------------------------------------------
\* The plan still lay around the fill: its stop behind it, its first target ahead.
Clean(t) ==
  /\ t.dir * (t.entry - t.initial) > 0
  /\ t.dir * (t.targets[1] - t.entry) > 0

SameReason(bt, rl) ==
  CASE bt = "SL_EQ" -> rl \in {"stop", "stop_gap"}
    [] bt = "TARGET" -> rl = "target"
    [] bt = "EOD" -> rl = "force_flat"
    [] bt = "TIME_STOP" -> rl = "time_stop"
    [] bt = "END" -> rl = "no"

(* The exit environment under the ladder policy lives a clean fill exactly as  *)
(* the backtester does - closed on the same bar, for the same reason, at the   *)
(* same price but for a gap's and the clock's - so a learned policy is         *)
(* compared with the rules it replaces (rl/env.py: "the hand rule set is       *)
(* expressible exactly").                                                      *)
LadderIsTheBacktester ==
  /\ trade # None /\ Clean(trade.bt) => /\ trade.rl.done = "no"
                                        /\ trade.rl.hit = trade.bt.hit
                                        /\ StopAfter(trade.rl, Act(trade.rl)) = trade.bt.stop
  /\ last # None /\ Clean(last.trade) =>
       /\ SameReason(last.reason, last.rl.done)
       /\ last.rl.done \in {"stop", "target"} => last.rl.price = last.exit
       /\ last.rl.done # "no" => last.trade.dir * (last.rl.price - last.exit) <= 0

=============================================================================
