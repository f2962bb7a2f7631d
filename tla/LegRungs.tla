------------------------------- MODULE LegRungs -------------------------------
(* What a contract's ladder is made of (instrument/legs.py): the classic levels   *)
(* of its last session and, when it traded enough of the week before, of that     *)
(* week, merged into zones.  A day is a trading day.                              *)
EXTENDS Levels

CONSTANTS
  PerWeek, MinWeekly,   \* days of a week, MIN_WEEKLY_SESSIONS
  MinVolume,      \* MIN_PREV_SESSION_VOLUME
  Tolerance,      \* of the zones, in hundredths of a percent
  NoLevels

Week(d) == d \div PerWeek

\* The broker's answer for the days up to asof, today's running candle with them.
Rows(candles, asof) == [d \in 0..asof |-> candles[d]]

\* levels_from_candles: the last session strictly before the day the load began on.
LastSession(asof) == asof - 1

\* weekly_from_rows: the week before, when it had sessions enough and a range.
WeekBefore(rows, asof) ==
  LET days == {d \in DOMAIN rows : Week(d) = Week(asof) - 1}
      highest == CHOOSE h \in {rows[d].high : d \in days} : \A d \in days : rows[d].high <= h
      lowest == CHOOSE l \in {rows[d].low : d \in days} : \A d \in days : l <= rows[d].low
      last == CHOOSE d \in days : \A e \in days : e <= d
  IN  IF days = {} \/ Cardinality(days) < MinWeekly THEN NoLevels
      ELSE IF highest <= lowest THEN NoLevels
      ELSE ClassicPivots(highest, lowest, rows[last].close)

Merged(daily, weekly) ==
  {z.price : z \in ClusterZones(PivotPoints(daily, "d") \union
                                (IF weekly = NoLevels THEN {} ELSE PivotPoints(weekly, "w")), Tolerance)}

\* A session too thin, or without a range, gives no ladder.
Ladder(rows, asof) ==
  LET last == rows[LastSession(asof)]
      daily == ClassicPivots(last.high, last.low, last.close)
  IN  IF asof = 0 THEN NoLevels
      ELSE IF last.volume < MinVolume \/ last.high <= last.low THEN NoLevels
      ELSE [session |-> LastSession(asof), daily |-> daily, merged |-> Merged(daily, WeekBefore(rows, asof))]

===============================================================================
