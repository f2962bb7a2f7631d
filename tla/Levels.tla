------------------------------- MODULE Levels -------------------------------
(* Where stops and targets come from (bars/pivots.py): a period's classic      *)
(* levels, merged into zones, and the plan - stop, targets, grade - that the   *)
(* zones give a signal.  A price is a whole number of units, Rupee units to    *)
(* the rupee; a weight is two and a half times the source's, so that it is     *)
(* whole.  Directions are 1 and -1.                                            *)
EXTENDS Integers, Sequences, FiniteSets, SequencesExt

CONSTANTS Rupee,  \* units of a rupee
          TickSize

Weight == [d |-> 10, w |-> 8, m |-> 5]   \* TF_WEIGHT: 4.0, 3.2, 2.0
WallMin == 13                            \* WALL_MIN_STRENGTH: 5.2

\* GradePolicy, in percent.
HardFloor == 100
RrA == 250
RrB == 180
RrC == 120
RoomMin == 50
FortressBlock == 30                      \* 12.0
MaxTargets == 4

Abs(x) == IF x < 0 THEN -x ELSE x

\* sorted(S, key=...): what is equal comes in some order.
InOrder(S, key) ==
  FoldSet(LAMBDA x, seq :
            InsertAt(seq, 1 + Cardinality({i \in DOMAIN seq : key[seq[i]] < key[x]}), x), <<>>, S)

-----------------------------------------------------------------------------
(* The classic levels of a period, in sixths of the units of its prices.       *)

\* The outer rungs are the pivot and whole ranges (the Kite convention).
ClassicPivots(high, low, close) ==
  LET p == 2 * (high + low + close)
      rng == 6 * (high - low)
      bc == 3 * (high + low)
      tc == 2 * p - bc
  IN  [pivot |-> p, r1 |-> 2 * p - 6 * low, s1 |-> 2 * p - 6 * high,
       r2 |-> p + rng, s2 |-> p - rng, r3 |-> p + 2 * rng, s3 |-> p - 2 * rng,
       r4 |-> p + 3 * rng, s4 |-> p - 3 * rng,
       tc |-> IF tc >= bc THEN tc ELSE bc, bc |-> IF tc >= bc THEN bc ELSE tc]

\* The levels a close can sit on: the pivot, the central range, the first two of each side.
KeyLevels == {"pivot", "tc", "bc", "r1", "s1", "r2", "s2"}

\* pivot_points: a level at or below nothing is left out.
PivotPoints(levels, tf) ==
  {[price |-> levels[name] \div 6, tf |-> tf, name |-> name, weight |-> Weight[tf]] :
     name \in {x \in DOMAIN levels : levels[x] > 0}}

-----------------------------------------------------------------------------
(* cluster_zones: walk the sorted levels; a gap wider than the tolerance       *)
(* begins a zone.                                                              *)

ByPrice(points) == InOrder(points, [p \in points |-> p.price])

SumOf(ps, Of(_)) == FoldSeq(LAMBDA p, acc : Of(p) + acc, 0, ps)

ZoneOf(ps) ==
  LET total == SumOf(ps, LAMBDA p : p.weight)
  IN  [price |-> SumOf(ps, LAMBDA p : p.price * p.weight) \div total, strength |-> total]

\* The first level of each zone.
Breaks(ps, tolPct100) ==
  {i \in DOMAIN ps : i = 1 \/ (ps[i].price - ps[i - 1].price) * 10000 > tolPct100 * ps[i].price}

EndOf(i, breaks, n) ==
  LET later == {j \in breaks : j > i} IN IF later = {} THEN n ELSE (CHOOSE j \in later : \A k \in later : j <= k) - 1

\* tolPct100 is hundredths of a percent of the price.
ClusterZones(points, tolPct100) ==
  LET ps == ByPrice({p \in points : p.price > 0})
      breaks == Breaks(ps, tolPct100)
  IN  {ZoneOf(SubSeq(ps, i, EndOf(i, breaks, Len(ps)))) : i \in breaks}

IsWall(z) == z.strength >= WallMin

-----------------------------------------------------------------------------
(* round_figure_snap: a target moves outward to a round number, by no more     *)
(* than a fifth of its distance.                                               *)

RoundStep(price) ==
  Rupee * (IF price >= 2000 * Rupee THEN 100 ELSE IF price >= 500 * Rupee THEN 50
           ELSE IF price >= 100 * Rupee THEN 10 ELSE 1)

Outward(price, dir) ==
  LET step == RoundStep(price)
      below == (price \div step) * step
  IN  IF dir = 1 /\ below # price THEN below + step ELSE below

Snap(price, dir, anchor) ==
  LET snapped == Outward(price, dir)
  IN  IF Abs(price - anchor) > 0 /\ 5 * Abs(snapped - price) > Abs(price - anchor)
        THEN price ELSE snapped

\* Rounding to a tick, a half to the even one.
OnTick(price) ==
  LET q == price \div TickSize
      r == price % TickSize
  IN  TickSize * (IF 2 * r < TickSize \/ (2 * r = TickSize /\ q % 2 = 0) THEN q ELSE q + 1)

-----------------------------------------------------------------------------
(* compute_confluence.                                                         *)

Behind(zones, close, dir) == {z \in zones : (z.price < close) = (dir = 1)}

Ahead(zones, close, dir) == {z \in zones : (z.price > close) = (dir = 1)}

\* Mutant: by price, as if every trade went up.
AscendingFrom(zones, close) == InOrder(zones, [z \in zones |-> z.price])

NearestFirst(zones, close) == InOrder(zones, [z \in zones |-> Abs(z.price - close)])

WallsAhead(zones, close, dir) ==
  LET walls == NearestFirst({z \in Ahead(zones, close, dir) : IsWall(z)}, close)
  IN  SubSeq(walls, 1, IF Len(walls) < MaxTargets THEN Len(walls) ELSE MaxTargets)

\* Without a zone behind, the stop is one ATR away.
StopOf(zones, close, dir, atr) ==
  LET behind == Behind(zones, close, dir)
  IN  IF behind = {} THEN OnTick(close - dir * atr) ELSE OnTick(NearestFirst(behind, close)[1].price)

\* A ratio in percent, compared without rounding.
AtLeast(reward, risk, pct) == reward * 100 >= pct * risk

Letter(reward, risk, fortress, room, atr) ==
  LET roomy == AtLeast(room, atr, RoomMin)
  IN  IF \/ ~AtLeast(reward, risk, HardFloor)
         \/ ~AtLeast(reward, risk, 100) /\ fortress >= FortressBlock THEN "F"
      ELSE IF AtLeast(reward, risk, RrA) /\ roomy THEN "A"
      ELSE IF AtLeast(reward, risk, RrB) THEN (IF roomy THEN "B" ELSE "C")
      ELSE IF AtLeast(reward, risk, RrC) THEN "C"
      ELSE "F"

Blocked(stop) == [stop |-> stop, targets |-> <<>>, grade |-> "F"]

Confluence(zones, close, dir, atr) ==
  LET stop == StopOf(zones, close, dir, atr)
      walls == WallsAhead(zones, close, dir)
      targets == [i \in DOMAIN walls |-> OnTick(Snap(walls[i].price, dir, close))]
      next == IF Len(walls) > 1 THEN walls[2].price ELSE targets[1]
  IN  IF stop = close \/ walls = <<>> THEN Blocked(stop)
      ELSE [stop |-> stop, targets |-> targets,
            grade |-> Letter(Abs(targets[1] - close), Abs(close - stop), walls[1].strength,
                             Abs(next - close), atr)]

Tradable(plan) == plan.targets # <<>> /\ plan.stop > 0 /\ plan.grade # "F"

=============================================================================
