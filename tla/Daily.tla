-------------------------------- MODULE Daily --------------------------------
(* The daily series the pivots are built from: the aggregator's own bar of the  *)
(* day, the broker's candles at boot and from the repair loop, the cache on     *)
(* disk, and the levels served from them (bars/daily.py, bars/periods.py,       *)
(* Engine.zones_for, Engine._pivot_repair). A bar is what its numbers are: the  *)
(* exchange's "final" ones, a "running" candle's, or those of our "ticks";      *)
(* levels are the bars they were computed from. An action is what runs between  *)
(* two awaits. The repair's reload of the legs' ladders is left out.            *)
EXTENDS Integers, Sequences, FiniteSets

CONSTANTS
  Count,    \* underlyings, numbered in the order of their symbols
  Watched,  \* those whose levels are asked for
  Batch,    \* REPAIR_BATCH
  MinBars,  \* MIN_DAILY_BARS
  PerWeek,  \* days of a week
  First,    \* the first day the engine runs on
  Final,     \* bound: the last day
  Filed,    \* the holidays of data/holidays.txt
  Unfiled,  \* those it may be missing
  Stops,    \* bound: how often the process stops
  None

Names == 1..Count
Days == 0..Final
Week(d) == d \div PerWeek

DailyAssumptions ==
  /\ {Batch, MinBars, PerWeek, First, Final, Stops} \subseteq Nat
  /\ PerWeek > 0 /\ First \in 1..Final
  /\ Filed \subseteq Days /\ Unfiled \subseteq Days

VARIABLES
  today, phase, \* "pre", a day's first 08:30 included, "open", "post" from 15:45
  traded,       \* the days on which the exchange traded each name
  up, stops,    \* "down", "boot" or "run"
  ear,          \* what the running daily bar will be: "live", "partial" or "deaf"
  series,       \* BarStore, 1d
  file,         \* DailyCache
  zone,         \* Engine._zone_cache: the day, and the bars the levels are made of
  lastDay, slots, due, \* Engine._housekeeping
  failed, confirmed,            \* Engine._daily_failed, _daily_confirmed
  job           \* the boot's backfill, or the repair task

clock == <<today, phase>>
daily == <<series, file, zone, failed>>
house == <<lastDay, slots, due, confirmed>>
vars == <<clock, traded, up, stops, ear, daily, house, job>>

Idle == [kind |-> "idle", todo |-> <<>>, end |-> 0]
NoBars == [d \in Days |-> "none"]

-----------------------------------------------------------------------------
(* bars/periods.py and bars/daily.py, on the days that have a bar.              *)

HasBar(s) == {d \in Days : series[s][d] # "none"}
MaxOf(S) == CHOOSE x \in S : \A y \in S : y <= x
LastBefore(S, day) == LET P == {d \in S : d < day} IN IF P = {} THEN None ELSE MaxOf(P)

\* TradingCalendar.previous_trading_day.
Expected == LastBefore(Days \ Filed, today)

\* previous_session.
Prev(s) == LastBefore(HasBar(s), today)

\* previous_complete: the running week is excluded by the calendar.
Complete(weeks, s) ==
  {w \in weeks : w # Week(today) /\ \A d \in HasBar(s) : Week(d) = w => d < today}

PreviousWeek(s) ==
  LET done == Complete({Week(d) : d \in HasBar(s)}, s)
  IN  IF done = {} THEN {} ELSE {d \in HasBar(s) : Week(d) = MaxOf(done)}

\* is_official: a running candle is stamped complete too.
Official(bar) == bar \in {"final", "running"}

Kind(s) ==
  IF HasBar(s) = {} THEN "dormant"
  ELSE IF Prev(s) = None THEN "missing"
  ELSE IF ~Official(series[s][Prev(s)]) THEN "unofficial"
  ELSE IF Prev(s) < Expected THEN "stale"
  ELSE IF Cardinality(HasBar(s)) < MinBars THEN "short"
  ELSE "ok"

\* DailyAudit.holiday_suspected.
HolidaySuspected ==
  /\ \E s \in Names : Prev(s) # None
  /\ \A s \in Names : Prev(s) # None => Prev(s) < Expected
  /\ \A s \in Names : Kind(s) \notin {"ok", "missing", "unofficial"}

NeedsRefresh ==
  LET kind == [s \in Names |-> Kind(s)]
      wanted == {"missing", "unofficial", "short"} \union (IF HolidaySuspected THEN {} ELSE {"stale"})
  IN  {s \in Names : kind[s] \in wanted}

\* The bars the day's levels come from.
LevelsOf(s) ==
  [day |-> today, bar |-> <<Prev(s), series[s][Prev(s)]>>,
   week |-> {<<d, series[s][d]>> : d \in PreviousWeek(s)}]

\* Mutant: the levels of whatever bar stands there.
UsableIfLong(s) == Prev(s) # None /\ Cardinality(HasBar(s)) >= MinBars

\* zones_for computes, when the previous session's bar is official.
Usable(s) ==
  Prev(s) # None /\ Official(series[s][Prev(s)]) /\ Cardinality(HasBar(s)) >= MinBars

-----------------------------------------------------------------------------
(* The exchange's day.                                                          *)

\* BarStore.close of the bar built from ticks: a partial one never takes the place of another.
Closing(s) ==
  IF ear = "deaf" \/ today \notin traded[s] \/ up # "run" THEN series[s]
  ELSE IF ear = "partial" /\ series[s][today] # "none" THEN series[s]
  ELSE [series[s] EXCEPT ![today] = "ticks"]

Tick ==
  /\ \/ /\ phase = "pre" /\ UNCHANGED <<today, series>>
        /\ phase' = IF \E s \in Names : today \in traded[s] THEN "open" ELSE "post"
        /\ ear' = IF up = "run" THEN "live" ELSE "deaf"
     \/ /\ phase = "open" /\ phase' = "post"
        /\ series' = [s \in Names |-> Closing(s)]
        /\ UNCHANGED <<today, ear>>
     \/ /\ phase = "post" /\ today < Final /\ up # "boot" \* bound: a backfill takes minutes
        /\ today' = today + 1 /\ phase' = "pre" /\ UNCHANGED <<series, ear>>
  /\ UNCHANGED <<traded, up, stops, file, zone, failed, house, job>>

\* The broker's answer: the candles to the end asked for, today's as it stands.
Candles(s, end) ==
  [d \in Days |->
     IF d \notin traded[s] \/ d > end \/ d > today THEN "none"
     ELSE IF d < today \/ phase = "post" THEN "final"
     ELSE IF phase = "open" THEN "running"
     ELSE "none"]

\* BarStore.seed.
Seed(old, rows) == [d \in Days |-> IF rows[d] # "none" THEN rows[d] ELSE old[d]]

-----------------------------------------------------------------------------
(* Engine._backfill and _refetch_daily: one name per await.                     *)

\* DailyCache.save: the official bars, unless there are none.
Saved(s, bars) ==
  LET rows == [d \in Days |-> IF Official(bars[d]) THEN bars[d] ELSE "none"]
  IN  IF rows = NoBars THEN file[s] ELSE rows

\* Mutant: a refused call is not remembered.
RaisesUnnoticed ==
  /\ job.todo # <<>>
  /\ job' = [job EXCEPT !.todo = Tail(@)]
  /\ UNCHANGED <<clock, traded, up, stops, ear, daily, house>>

FetchRaises ==
  /\ job.todo # <<>>
  /\ failed' = failed \union {Head(job.todo)}
  /\ job' = [job EXCEPT !.todo = Tail(@)]
  /\ UNCHANGED <<clock, traded, up, stops, ear, series, file, zone, house>>

\* An empty answer marks the name at boot, and is an answer to the repair.
FailedAfter(rows, s) ==
  IF rows = NoBars /\ job.kind = "boot" THEN failed \union {s} ELSE failed \ {s}

FetchAnswers ==
  /\ job.todo # <<>>
  /\ LET s == Head(job.todo)
         rows == Candles(s, job.end)
         bars == Seed(series[s], rows)
     IN  /\ failed' = FailedAfter(rows, s)
         /\ IF rows = NoBars THEN UNCHANGED <<series, file, zone>>
            ELSE /\ series' = [series EXCEPT ![s] = bars]
                 /\ file' = [file EXCEPT ![s] = Saved(s, bars)]
                 /\ zone' = [zone EXCEPT ![s] = None]
  /\ job' = [job EXCEPT !.todo = Tail(@)]
  /\ UNCHANGED <<clock, traded, up, stops, ear, house>>

Range(f) == {f[i] : i \in DOMAIN f}

InOrder == [i \in 1..Count |-> i]

\* Engine.start: the cache, then every name from the broker.
Boot ==
  /\ up = "down"
  /\ up' = "boot"
  /\ series' = file
  /\ job' = [kind |-> "boot", todo |-> InOrder, end |-> today]
  /\ UNCHANGED <<clock, traded, stops, ear, file, zone, failed, house>>

SlotsPassed == IF phase = "post" THEN {"08:30", "15:45"} ELSE {"08:30"}

\* The backfill is over: subscriptions, then housekeeping.
Booted ==
  /\ up = "boot" /\ job.todo = <<>>
  /\ up' = "run"
  /\ ear' = IF phase = "open" THEN "partial" ELSE "deaf"
  /\ job' = Idle
  /\ lastDay' = today /\ slots' = SlotsPassed
  /\ UNCHANGED <<clock, traded, stops, daily, due, confirmed>>

Stop ==
  /\ up # "down" /\ stops < Stops
  /\ up' = "down" /\ stops' = stops + 1
  /\ ear' = "deaf"
  /\ series' = [s \in Names |-> NoBars] /\ zone' = [s \in Names |-> None]
  /\ failed' = {} /\ confirmed' = [s \in Names |-> None]
  /\ lastDay' = None /\ slots' = {} /\ due' = FALSE
  /\ job' = Idle
  /\ UNCHANGED <<clock, traded, file>>

-----------------------------------------------------------------------------
(* Engine._housekeeping and Engine._pivot_repair.                               *)

\* The slots are dated, and forgotten when the day turns.
NewSlots == IF today # lastDay THEN SlotsPassed ELSE SlotsPassed \ slots

\* A pass: the day's roll, the refresh slots, and the repair task - when something
\* is due, or the interval has elapsed.
Housekeep(elapsed) ==
  /\ up = "run"
  /\ LET roll == today # lastDay
         owed == due \/ roll \/ NewSlots # {}
     IN  /\ lastDay' = today
         /\ zone' = IF roll THEN [s \in Names |-> None] ELSE zone
         /\ due' = owed
         /\ slots' = (IF roll THEN {} ELSE slots) \union NewSlots
         /\ job' = IF job.kind = "idle" /\ (owed \/ elapsed)
                     THEN [Idle EXCEPT !.kind = "due"] ELSE job
  /\ UNCHANGED <<clock, traded, up, stops, ear, series, file, failed, confirmed>>

\* The task begins with the full refetch that is due.
FullRefetch ==
  /\ job.kind = "due" /\ due
  /\ due' = FALSE
  /\ job' = [kind |-> "full", todo |-> InOrder, end |-> today]
  /\ UNCHANGED <<clock, traded, up, stops, ear, daily, lastDay, slots, confirmed>>

Wanted == {s \in NeedsRefresh : confirmed[s] # Expected} \union failed

FirstOf(S) == SelectSeq(InOrder, LAMBDA s : s \in S /\ Cardinality({x \in S : x <= s}) <= Batch)

\* The audit marks every name it wants, and asks about a batch of them.
Audit ==
  /\ \/ job.kind = "due" /\ ~due
     \/ job.kind = "full" /\ job.todo = <<>>
  /\ LET wanted == Wanted
     IN  /\ confirmed' = [s \in Names |-> IF s \in wanted THEN Expected ELSE confirmed[s]]
         /\ job' = [kind |-> "some", todo |-> FirstOf(wanted), end |-> today]
  /\ UNCHANGED <<clock, traded, up, stops, ear, daily, lastDay, slots, due>>

RepairEnds ==
  /\ job.kind = "some" /\ job.todo = <<>>
  /\ job' = Idle
  /\ UNCHANGED <<clock, traded, up, stops, ear, daily, house>>

\* zones_for: the cached levels of the day, or those of now - the volatility band may have moved.
ZonesFor(s) ==
  /\ up = "run" /\ Usable(s)
  /\ zone' = [zone EXCEPT ![s] = LevelsOf(s)]
  /\ UNCHANGED <<clock, traded, up, stops, ear, series, file, failed, house, job>>

Fetch == FetchAnswers \/ FetchRaises
Repair == FullRefetch \/ Audit \/ RepairEnds

Init ==
  /\ today = First /\ phase = "pre"
  /\ \E off \in {{}, Unfiled} :
       traded \in [Names -> {Days \ (Filed \union off), {}}]
  /\ traded[1] # {}
  /\ up = "down" /\ stops = 0 /\ ear = "deaf"
  /\ series = [s \in Names |-> NoBars]
  /\ \E cached \in BOOLEAN :
       file = [s \in Names |-> [d \in Days |-> IF cached /\ d = 0 /\ d \in traded[s] THEN "final" ELSE "none"]]
  \* Bounds: a cache meets no unfiled holiday, and a name nobody trades does.
  /\ file[1] # NoBars => traded[1] = Days \ Filed
  /\ (\E s \in Names : traded[s] = {}) => traded[1] # Days \ Filed
  /\ zone = [s \in Names |-> None]
  /\ lastDay = None /\ slots = {} /\ due = FALSE
  /\ failed = {} /\ confirmed = [s \in Names |-> None]
  /\ job = Idle

Next ==
  \/ Tick \/ Boot \/ Booted \/ Stop
  \/ Fetch \/ Repair
  \/ \E elapsed \in BOOLEAN : Housekeep(elapsed)
  \/ \E s \in Watched : ZonesFor(s)

(* The loops run; the broker refuses a name now and then, and not for ever.     *)
Fairness ==
  /\ WF_vars(Boot \/ Booted) /\ WF_vars(Housekeep(TRUE)) /\ WF_vars(Repair)
  /\ \A s \in Names : SF_vars(job.todo # <<>> /\ Head(job.todo) = s /\ FetchAnswers)

Spec == Init /\ [][Next]_vars /\ Fairness

-----------------------------------------------------------------------------

(* No level is built from our ticks: the previous session's bar is checked, and *)
(* behind an official bar stand only official ones, so neither are the weeks'   *)
(* (PIVOTS.md: "the broker's own daily candle", never the aggregator's).        *)
LevelsAreTheBrokers ==
  \A s \in Names : zone[s] # None => /\ Official(zone[s].bar[2])
                                     /\ \A b \in zone[s].week : Official(b[2])

(* In the end the engine holds the exchange's own numbers of every day it       *)
(* traded, although candles were refused, taken mid-session, cached, or built   *)
(* from ticks on the way (PIVOTS.md: the repair loop retries every interval).   *)
Heals ==
  <>[](\A s \in Names : \A d \in traded[s] : d < today => series[s][d] = "final")

(* A name marked as asked for a session is asked (engine.py: "A name is asked   *)
(* about once per expected session").                                           *)
MarkedNamesAreAsked ==
  [][\A s \in Names : confirmed'[s] \notin {None, confirmed[s]} => s \in Range(job'.todo)]_vars

=============================================================================
