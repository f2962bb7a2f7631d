------------------------------- MODULE Counter -------------------------------
(* The counter-trend route of a trigger (strategy/counter.py and                *)
(* Engine._handle_counter): the wall the signal runs into, the pivot its close  *)
(* sits on - read on the equity and on its front future, when the broker        *)
(* answers for one - and the fade that is traded instead of it by books of its  *)
(* own. One trigger.                                                            *)
EXTENDS Levels

CONSTANTS Dailies, Weeklies, \* what the last day and week can have been: high, low, close
          Closes, Candles,   \* the closes of a trigger bar, and how far below and above it went
          Atr, Tolerance,    \* ATR30m; the zones' width, in hundredths of a percent
          FutureGaps,        \* how far above the cash the future can be
          None

\* Closes are quoted in ticks.
CounterAssumption ==
  /\ {Rupee, TickSize} \subseteq Nat \ {0} /\ Atr \in Nat
  /\ Dailies \union Weeklies \subseteq Int \X Int \X Int
  /\ \A c \in Closes : c \in Int /\ c % TickSize = 0

VARIABLES dir, flipped,  \* the signal's direction, and whether its SuperTrend flipped
          equity, future,\* the trigger on the equity and on its front future
          stage, route, fade

vars == <<dir, flipped, equity, future, stage, route, fade>>

Volumes == {"unknown", "surge", "dried", "average"}

LadderOf(period, tf) == PivotPoints(ClassicPivots(period[1], period[2], period[3]), tf)

\* A leg is the trigger candle on one instrument. volume: what volume_surges says of it.
LegOf(day, week, close, candle, volume) ==
  [points |-> LadderOf(day, "d") \union LadderOf(week, "w"), close |-> close,
   high |-> close + candle[2], low |-> close - candle[1], volume |-> volume]

\* The front future beside it: the same day and week, at its own price.
Lifted(leg, gap, volume) ==
  [points |-> {[p EXCEPT !.price = @ + gap] : p \in leg.points}, close |-> leg.close + gap,
   high |-> leg.high + gap, low |-> leg.low + gap, volume |-> volume]

-----------------------------------------------------------------------------
(* evaluate_wall. Scores are tenths of a weight.                                *)

InCandle(p, leg, d) ==
  /\ leg.low <= p.price /\ p.price <= leg.high
  /\ d * (p.price - leg.close) >= 0

JustPast(p, leg, d) ==
  LET beyond == IF d = 1 THEN p.price - leg.high ELSE leg.low - p.price
  IN  0 < beyond /\ 2 * beyond <= Atr

InTheWay(leg, d) == {p \in leg.points : InCandle(p, leg, d) \/ JustPast(p, leg, d)}

Nearness == <<10, 8, 6, 4>>

\* Levels as far as one another keep the order of the points: the day's, then the week's
\* (a weight is less than a hundred).
Ranked(S, close) == InOrder(S, [p \in S |-> 100 * Abs(p.price - close) - p.weight])

Scored(p, ranked) ==
  LET i == CHOOSE k \in DOMAIN ranked : ranked[k] = p
  IN  p.weight * Nearness[IF i < 4 THEN i ELSE 4]

Around(anchor, S) == {p \in S : 4 * Abs(p.price - anchor.price) <= Atr}

SumOver(S, Of(_)) == FoldSet(LAMBDA p, acc : Of(p) + acc, 0, S)

WallStrength(leg, d) ==
  LET S == InTheWay(leg, d)
      ranked == Ranked(S, leg.close)
      totals == {SumOver(Around(a, S), LAMBDA p : Scored(p, ranked)) : a \in S}
  IN  IF S = {} THEN 0 ELSE CHOOSE t \in totals : \A u \in totals : u <= t

-----------------------------------------------------------------------------
(* at_pivot_read. A distance of half an ATR, a strength of 26 and a volume      *)
(* factor of 4 quarters are the whole of a factor.                              *)

KeyPoints(leg) == {p \in leg.points : p.name \in KeyLevels}

\* The cluster with the level nearest the close, then the strongest.
Nearest(leg, S) ==
  LET near(a) == CHOOSE x \in {Abs(p.price - leg.close) : p \in Around(a, S)} :
                   \A p \in Around(a, S) : x <= Abs(p.price - leg.close)
      strong(a) == SumOver(Around(a, S), LAMBDA p : p.weight)
      best == CHOOSE a \in S : \A b \in S :
                \/ near(a) < near(b)
                \/ near(a) = near(b) /\ strong(a) >= strong(b)
  IN  [near |-> near(best), strength |-> strong(best),
       line |-> CHOOSE x \in {p.price : p \in Around(best, S)} : Abs(x - leg.close) = near(best)]

VolumeFactor(leg, other, rejected) ==
  IF "surge" \in {leg.volume, other} THEN 0
  ELSE IF leg.volume = "dried" THEN 4
  ELSE IF other = "dried" \/ rejected THEN 3 ELSE 2

\* The extreme went through the level, the close came back, against the body.
Rejected(leg, line, d) ==
  LET pierced == IF d = 1 THEN leg.high - line ELSE line - leg.low
      opposed == IF d = 1 THEN leg.high - leg.close ELSE leg.close - leg.low
  IN  /\ 10 * pierced >= Atr
      /\ d * (leg.close - line) < 0
      /\ 10 * opposed >= 4 * (leg.high - leg.low)

Lower(a, b) == IF a <= b THEN a ELSE b
Positive(x) == IF x > 0 THEN x ELSE 0

\* The score, over 4 * 13 * Atr * Atr.
PivotScore(leg, d, other) ==
  LET S == KeyPoints(leg)
      best == Nearest(leg, S)
      crossed == d * (leg.close - best.line)
  IN  IF S = {} THEN 0
      ELSE Positive(Atr - 2 * Abs(crossed)) * Lower(26, best.strength)
             * Positive(Atr - 2 * Positive(crossed))
             * VolumeFactor(leg, other, Rejected(leg, best.line, d))

-----------------------------------------------------------------------------
(* counter_route.                                                               *)

Legs == IF future = None THEN {equity} ELSE {equity, future}

OtherVolume(leg, legs) ==
  IF Cardinality(legs) = 1 THEN "unknown" ELSE (CHOOSE x \in legs : x # leg).volume

AtPivot(legs, d) == \E leg \in legs : 2 * PivotScore(leg, d, OtherVolume(leg, legs)) >= 52 * Atr * Atr

IntoWall(legs, d) == \E leg \in legs : WallStrength(leg, d) >= 10 * WallMin

RouteOf(legs, d, flip) ==
  IF flip /\ IntoWall(legs, d) THEN "wall"
  ELSE IF AtPivot(legs, d) THEN "pivot"
  ELSE "in_trend"

Zones == ClusterZones(equity.points, Tolerance)

\* The signal has a plan of its own: what is graded F is not published.
Init ==
  /\ dir \in {1, -1}
  /\ \E day \in Dailies, week \in Weeklies, close \in Closes, candle \in Candles, v \in Volumes :
       equity = LegOf(day, week, close, candle, v)
  /\ Tradable(Confluence(Zones, equity.close, dir, Atr))
  /\ flipped \in BOOLEAN
  /\ future = None /\ stage = "legs" /\ route = None /\ fade = None

\* _counter_legs: the future's trigger bar, unless the broker has none, or fails.
AskFuture ==
  /\ stage = "legs" /\ stage' = "route"
  /\ \/ UNCHANGED future
     \/ \E gap \in FutureGaps, v \in Volumes : future' = Lifted(equity, gap, v)
  /\ UNCHANGED <<dir, flipped, equity, route, fade>>

TakeRoute ==
  /\ stage = "route"
  /\ route' = RouteOf(Legs, dir, flipped)
  /\ stage' = IF route' = "in_trend" THEN "done" ELSE "fade"
  /\ UNCHANGED <<dir, flipped, equity, future, fade>>

\* flipped_signal: the other direction's own plan, at the same close.
Fade ==
  /\ stage = "fade" /\ stage' = "done"
  /\ LET plan == Confluence(Zones, equity.close, -dir, Atr)
     IN  fade' = IF Tradable(plan) THEN plan ELSE None
  /\ UNCHANGED <<dir, flipped, equity, future, route>>

Next == AskFuture \/ TakeRoute \/ Fade

Spec == Init /\ [][Next]_vars

-----------------------------------------------------------------------------
Sound(plan, close, d) ==
  /\ d * (close - plan.stop) > 0
  /\ \A i \in DOMAIN plan.targets : d * (plan.targets[i] - close) > 0
  /\ \A i, j \in DOMAIN plan.targets : i <= j => d * (plan.targets[j] - plan.targets[i]) >= 0
  /\ Abs(plan.targets[1] - close) >= Abs(close - plan.stop)

(* A signal and its fade are plans one can trade: the stop is behind the close, *)
(* the targets ahead of it and in order although each is rounded by itself, and *)
(* the first is worth the risk (bars/pivots.py: compute_confluence).            *)
PlansAreSound ==
  /\ Sound(Confluence(Zones, equity.close, dir, Atr), equity.close, dir)
  /\ fade # None => Sound(fade, equity.close, -dir)

=============================================================================
