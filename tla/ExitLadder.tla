----------------------------- MODULE ExitLadder -----------------------------
(***************************************************************************)
(* The exit rules (risk/exits.py, ExitEngine.evaluate and its helpers),    *)
(* the only place that decides an exit: what a sequence of one-second      *)
(* reads does to one position under one book's policy.                     *)
(*                                                                         *)
(* risk/limits.py has two families of policies.  The base books exit on a  *)
(* touch, take shares at the targets and trail; the RT and CT books (own)  *)
(* own a ladder, need a breach to be sustained and give back from a peak.  *)
(* A policy is a record with the knobs that tell the books apart.  The     *)
(* rule _peak_ratchet belongs to neither family and is left out.           *)
(*                                                                         *)
(* Prices are in paise, so that rounding to two decimals is rounding to an *)
(* integer; quantities are in lots.  Clocks are kept as ages, in reads and *)
(* no further than the sustain they are compared with.  The option price   *)
(* is positive: the engine does not evaluate a contract without one.       *)
(*                                                                         *)
(* The position is written with each exit that fills, and with nothing     *)
(* else: a restart goes back to the last exit, and loses what the row has  *)
(* no field for.                                                           *)
(***************************************************************************)
EXTENDS Integers, Sequences, FiniteSets

CONSTANTS
    Policies,       \* the RiskLimits of the books
    Entry,          \* premium paid
    Lots,           \* lots bought
    Stop,           \* initial option-side stop
    Rungs,          \* option_targets at entry, ascending
    Shares,         \* target_ladder, in percent of the lots bought
    FloorPct,       \* hard_floor_below_stop_pct
    PeakFloorPct,   \* hard_floor_pct
    ArmPct,         \* trail_arm_pct
    GiveBackPct,    \* trail_giveback_pct
    Threshold,      \* entry * (1 + arm_min_move * option_edm), or 0
    Views,          \* what a read may see
    MaxRestarts     \* bound: restarts

Off == -1

Policy ==
    [own         : BOOLEAN,     \* own_ladder, and with it sustain_s and the re-projection
     sustain     : Nat,         \* sustain_s, in reads
     dwell       : Nat,         \* trail_dwell_samples
     immediate   : BOOLEAN,     \* arm_mode
     lag         : BOOLEAN,     \* sl_lag
     band        : {"through", "dwell", "sustain"},   \* band_exit
     lineSustain : BOOLEAN]     \* post_arm_sustain

Quotes == {"fresh", "stale", "never"}

Closings == {"no", "HALT", "DAILY_LOSS", "EOD", "TIME_STOP"}

\* MarketView, with what the read's time makes due.
View ==
    [ltp        : Nat \ {0},
     mid        : Nat \ {0},            \* the last price where there is no quote
     quote      : Quotes,
     underlying : {"stopped", "between", "at T1", "unknown"},
     give       : 0..100,               \* peak_giveback_pct, or what the spread makes of it
     projected  : Nat \cup {Off},       \* the re-projected stop, when it is due
     newMinute  : BOOLEAN,              \* the last print was in an earlier minute
     closing    : Closings]             \* the first backstop that applies

ASSUME LadderAssumptions ==
    /\ Policies \subseteq Policy
    /\ \A l \in Policies : l.own => l.sustain > 0
    /\ Entry \in Nat \ {0} /\ Lots \in Nat \ {0} /\ Stop \in Nat \ {0} /\ Stop < Entry
    /\ Rungs \in Seq(Nat)
    /\ \A i \in 1..Len(Rungs) : Rungs[i] > Entry
    /\ \A i, j \in 1..Len(Rungs) : i < j => Rungs[i] < Rungs[j]
    /\ Shares \in Seq(1..100) /\ Len(Rungs) <= Len(Shares)
    /\ {FloorPct, PeakFloorPct, GiveBackPct} \subseteq 0..100 /\ ArmPct \in Nat
    /\ Threshold \in Nat
    /\ Views \subseteq View
    /\ \A v \in Views : v.quote = "never" => v.mid = v.ltp
    /\ MaxRestarts \in Nat

VARIABLES
    lim,        \* the policy of the position's book
    pos,        \* the position
    print,      \* _minute: the option's last print, as its 1-minute close
    row,        \* the position's row in the ledger
    restarts,
    said,       \* what the last second came to: the rule that decided, none, or a gap
    watch       \* ghost: what the reads have been, for the properties

vars == <<lim, pos, print, row, restarts, said, watch>>

Larger(a, b) == IF a >= b THEN a ELSE b
Smaller(a, b) == IF a <= b THEN a ELSE b

\* round(n / 100), for a percentage of a price in paise.
PerCent(n) == (2 * n + 100) \div 200

Older(age) == IF age = Off THEN Off ELSE Smaller(age + 1, lim.sustain)

Started(age) == IF age = Off THEN 0 ELSE age

Elapsed(age) == age # Off /\ age >= lim.sustain

-----------------------------------------------------------------------------
(* The position as evaluate finds it, and what it does before any rule *)

Clocks == Nat \cup {Off}

PositionState ==
    [remaining : Nat, hits : Nat, status : {"OPEN", "CLOSED"},
     targets : Seq(Nat), t1 : Nat,
     optionSl : Nat, ratchetSl : Nat, peak : Nat,
     breach : Clocks,                          \* breach_since
     armedBy : {"", "equity", "option"}, armed : BOOLEAN, peakMid : Nat,
     dwell : Nat, line : Clocks,               \* trail_dwell, line_breach_since
     touch : Clocks, closeOk : BOOLEAN,        \* t_touch_ts, t_close_ok
     sustained : Nat]                          \* sustained_idx + 1

Bought ==
    [remaining |-> Lots, hits |-> 0, status |-> "OPEN",
     targets |-> Rungs, t1 |-> IF Rungs = <<>> THEN 0 ELSE Rungs[1],
     optionSl |-> Stop, ratchetSl |-> 0, peak |-> Entry,
     breach |-> Off, armedBy |-> "", armed |-> FALSE, peakMid |-> 0,
     dwell |-> 0, line |-> Off, touch |-> Off, closeOk |-> FALSE, sustained |-> 0]

\* The fields of _position_json: the breach's clock, the peak of the mid and the
\* dwell are not among them.
Serialised(p) == [p EXCEPT !.breach = Off, !.peakMid = 0, !.dwell = 0]

\* _position_from_json, with the clocks it kept: the time the engine was down
\* has run on them too.
Rehydrated(touch, line) == [row EXCEPT !.touch = touch, !.line = line]

\* What a clock saved at an age may read by the time the engine is back.
Since(age) == IF age = Off THEN {Off} ELSE age..lim.sustain

Fresh(v) == v.quote = "fresh"

Forced(v) == v.closing \in {"HALT", "EOD"}

\* A second has passed since the clocks were set.
Aged(p) ==
    [p EXCEPT !.breach = Older(@), !.line = Older(@), !.touch = Older(@)]

\* _track; the own books' rules never read the peak, so it is not kept for them.
Tracked(p, v) == IF lim.own THEN p ELSE [p EXCEPT !.peak = Larger(@, v.ltp)]

\* Mutant: the re-projection forgets the ground the rungs have claimed.
ReprojectedFreely(p, v) ==
    IF lim.own /\ v.projected # Off /\ v.underlying # "unknown"
    THEN [p EXCEPT !.optionSl = v.projected]
    ELSE p

Reprojected(p, v) ==
    IF lim.own /\ v.projected # Off /\ v.underlying # "unknown"
    THEN [p EXCEPT !.optionSl = Larger(v.projected, p.ratchetSl)]
    ELSE p

Marked(p, v) ==
    IF lim.own /\ Fresh(v) /\ p.armed
    THEN [p EXCEPT !.peakMid = Larger(@, v.mid)]
    ELSE p

Prepared(v) == Marked(Reprojected(Tracked(Aged(pos), v), v), v)

-----------------------------------------------------------------------------
(* Stops *)

Collapsed(p, v) ==
    lim.own /\ Fresh(v) /\ v.mid * 100 <= p.optionSl * (100 - FloorPct)

Band(p, v) ==
    IF p.armed /\ p.peakMid > 0 THEN PerCent(p.peakMid * (100 - v.give)) ELSE 0

ByBand(p, v) == Band(p, v) > p.ratchetSl

Line(p, v) == Larger(p.ratchetSl, Band(p, v))

Through(p, v) == Line(p, v) > 0 /\ v.mid <= Line(p, v)

LineMode(p, v) ==
    IF ByBand(p, v) THEN lim.band
    ELSE IF lim.lineSustain THEN "sustain" ELSE "through"

\* What _own_hard_stop does to its clocks, and whether it exits.
AtLine(p, v) ==
    CASE ~lim.own \/ ~Fresh(v) -> p
      [] lim.own /\ Fresh(v) /\ ~Through(p, v) -> [p EXCEPT !.line = Off, !.dwell = 0]
      [] lim.own /\ Fresh(v) /\ Through(p, v) ->
           [p EXCEPT !.dwell = IF LineMode(p, v) = "dwell" THEN Smaller(@ + 1, lim.dwell)
                               ELSE @,
                     !.line  = IF LineMode(p, v) = "sustain" THEN Started(@) ELSE @]

LineBroken(p, v) ==
    /\ lim.own /\ Fresh(v) /\ Through(p, v)
    /\ LineMode(p, v) = "dwell" => AtLine(p, v).dwell >= lim.dwell
    /\ LineMode(p, v) = "sustain" => Elapsed(p.line)

Breached(p, v) == v.mid <= p.optionSl

\* Mutant: a recovery leaves the clock running.
AtStopNoRecovery(p, v) ==
    IF lim.own /\ Fresh(v)
    THEN [p EXCEPT !.breach = IF Breached(p, v) THEN Started(@) ELSE @]
    ELSE p

\* Mutant: every read under the stop starts the clock again.
AtStopRestarted(p, v) ==
    IF lim.own /\ Fresh(v)
    THEN [p EXCEPT !.breach = IF Breached(p, v) THEN 0 ELSE Off]
    ELSE p

\* What _sustained_option_stop does to its clock.
AtStop(p, v) ==
    IF lim.own /\ Fresh(v)
    THEN [p EXCEPT !.breach = IF Breached(p, v) THEN Started(@) ELSE Off]
    ELSE p

Sustained(p, v) == lim.own /\ Fresh(v) /\ Breached(p, v) /\ Elapsed(p.breach)

\* A policy with a sustain holds while the mid, or the last trade, is through.
Held(p, v) == lim.own /\ (Breached(p, v) \/ v.ltp <= p.optionSl)

Touched(p, v) == ~lim.own /\ v.ltp <= p.optionSl

\* The base books' give-back of a peak of at least one R.
GaveBack(p, v) ==
    /\ ~lim.own
    /\ p.peak - Entry >= Entry - Stop
    /\ (v.ltp - Entry) * 100 <= (p.peak - Entry) * (100 - PeakFloorPct)

-----------------------------------------------------------------------------
(* Targets of the base books, and their trail *)

\* Mutant: the last rung takes its share like the others.
LadderQtyStranding(p) ==
    LET want == (Lots * Shares[p.hits + 1]) \div 100
    IN  IF want = 0 THEN p.remaining ELSE Smaller(want, p.remaining)

LadderQty(p) ==
    LET want == (Lots * Shares[p.hits + 1]) \div 100
    IN  IF p.hits = Len(p.targets) - 1 \/ want = 0 THEN p.remaining
        ELSE Smaller(want, p.remaining)

TargetHit(p, v) ==
    ~lim.own /\ p.hits < Len(p.targets) /\ v.ltp >= p.targets[p.hits + 1]

Breakeven(p) == IF p.hits >= 1 THEN Entry ELSE 0

Trail(p, v) ==
    IF (v.ltp - Entry) * 100 >= ArmPct * Entry
    THEN PerCent(100 * p.peak - (p.peak - Entry) * GiveBackPct)
    ELSE 0

Trailed(p, v) ==
    IF lim.own THEN p
    ELSE [p EXCEPT !.optionSl = Larger(@, Larger(Breakeven(p), Trail(p, v)))]

-----------------------------------------------------------------------------
(* The own ladder *)

\* The premium at or above the last touched rung, and a minute closed there.
ClosedOver(v, rung) == v.newMinute /\ print >= rung

LastRung(p) == p.targets[p.hits]

SustainOf(p, v) ==
    LET at == v.mid >= LastRung(p)
    IN  [p EXCEPT !.touch   = IF at THEN Started(@) ELSE Off,
                  !.closeOk = at /\ (@ \/ ClosedOver(v, LastRung(p)))]

Arm(p, v) ==
    [p EXCEPT !.armed = TRUE, !.peakMid = Larger(@, v.mid), !.dwell = 0]

\* Raising the rung's floor raises the stop with it.
Claim(p, level) ==
    [p EXCEPT !.ratchetSl = Larger(@, level),
              !.optionSl  = Larger(@, Larger(p.ratchetSl, level))]

Completed(p, v) ==
    LET stepped == IF lim.lag THEN p ELSE Claim(p, LastRung(p))
        armed == IF p.hits = 1 /\ ~p.armed THEN Arm(stepped, v) ELSE stepped
    IN  [armed EXCEPT !.sustained = p.hits]

\* _sustain.
AtRung(p, v) ==
    IF p.hits > p.sustained /\ p.hits <= Len(p.targets) /\ Fresh(v)
    THEN LET s == SustainOf(p, v)
         IN  IF Elapsed(s.touch) /\ s.closeOk THEN Completed(s, v) ELSE s
    ELSE p

\* The rung below the one touched; breakeven under the first.
TouchFloor(p) == IF p.hits = 0 THEN Entry ELSE p.targets[p.hits]

TouchArms(p, by, v) ==
    LET named == [p EXCEPT !.armedBy = by]
    IN  IF p.hits > 0 THEN p
        ELSE IF lim.immediate THEN Arm(named, v) ELSE named

\* _touch, without the exit it returns.
AfterTouch(p, by, v) ==
    [TouchArms(Claim(p, TouchFloor(p)), by, v) EXCEPT
        !.touch = IF v.mid >= p.targets[p.hits + 1] THEN 0 ELSE Off,
        !.closeOk = FALSE]

Tranche(p) ==
    IF p.hits >= Len(p.targets) - 1 THEN p.remaining ELSE Smaller(1, p.remaining)

Unarmed(p) == p.hits = 0 /\ p.armedBy = ""

EquityTouch(p, v) ==
    Unarmed(p) /\ v.underlying = "at T1" /\ v.ltp >= Threshold

\* The option's price at that instant becomes its T1, and the rungs over it follow:
\* of the ascending targets, those after the ones it has reached.
LadderFrom(p, v) ==
    LET reached == {i \in 1..Len(p.targets) : p.targets[i] <= v.ltp}
        ladder  == <<v.ltp>> \o SubSeq(p.targets, Cardinality(reached) + 1, Len(p.targets))
    IN  [p EXCEPT !.targets = SubSeq(ladder, 1, Smaller(4, Len(ladder))),
                  !.t1 = v.ltp]

CloseTouch(p, v) ==
    lim.immediate /\ Unarmed(p) /\ p.t1 > 0 /\ ClosedOver(v, p.t1)

RungTouch(p, v) ==
    /\ ~(lim.immediate /\ Unarmed(p))
    /\ p.hits < Len(p.targets)
    /\ v.ltp >= p.targets[p.hits + 1]
    /\ p.hits = 0 => v.ltp >= Threshold

AnyTouch(p, v) == lim.own /\ (EquityTouch(p, v) \/ CloseTouch(p, v) \/ RungTouch(p, v))

\* The position and the rung after the touch, by the first trigger that fires.
TouchedBy(p, v) ==
    IF EquityTouch(p, v) THEN AfterTouch(LadderFrom(p, v), "equity", v)
    ELSE AfterTouch(p, "option", v)

-----------------------------------------------------------------------------
(* One read: the first rule that fires *)

\* apply_exit, when the exit fills.
AfterExit(p, reason, qty) ==
    LET left == p.remaining - Smaller(qty, p.remaining)
    IN  [p EXCEPT !.remaining = left,
                  !.hits      = IF reason = "TARGET" THEN @ + 1 ELSE @,
                  !.status    = IF left = 0 THEN "CLOSED" ELSE @]

\* The engine sends what was decided; it may be refused, or fill in full.
Decide(rule, p, reason, qty) ==
    /\ said' = rule
    /\ \/ pos' = p /\ row' = Aged(row)
       \/ pos' = AfterExit(p, reason, qty) /\ row' = Serialised(pos')

All(rule, p, reason) == Decide(rule, p, reason, p.remaining)

Wait(p) == said' = "none" /\ pos' = p /\ row' = Aged(row)

Equity(v) == v.underlying = "stopped"

\* The stops of the own books: some rule decides, or the breach holds the rest back.
Stopped(p, v) ==
    lim.own /\ (Collapsed(p, v) \/ LineBroken(p, v) \/ Equity(v) \/ Sustained(p, v))

StopDecides(p, v) ==
    LET l == AtLine(p, v)
        broken == LineBroken(p, v)
    IN  /\ Stopped(p, v)
        /\ \/ /\ Collapsed(p, v)
              /\ All("collapse", p, "SL_OP")
           \/ /\ ~Collapsed(p, v) /\ broken
              /\ All("line", l, IF ByBand(p, v) THEN "TRAIL" ELSE "SL_OP")
           \/ /\ ~Collapsed(p, v) /\ ~broken /\ Equity(v)
              /\ All("equity", l, "SL_EQ")
           \/ /\ ~Collapsed(p, v) /\ ~broken /\ ~Equity(v)
              /\ All("sustained", AtStop(l, v), "SL_OP")

\* The stops of the base books, on a touch.
BaseStopped(p, v) == ~lim.own /\ (Touched(p, v) \/ Equity(v) \/ GaveBack(p, v))

BaseStopDecides(p, v) ==
    /\ BaseStopped(p, v)
    /\ \/ Touched(p, v) /\ All("touch", p, "SL_OP")
       \/ ~Touched(p, v) /\ Equity(v) /\ All("equity", p, "SL_EQ")
       \/ ~Touched(p, v) /\ ~Equity(v) /\ All("gave back", p, "TRAIL")

\* Past the stops: a target, or else the trail and the backstops.
Rest(p, v) ==
    LET r == AtRung(p, v)
        t == TouchedBy(r, v)
    IN  /\ print' = v.ltp
        /\ \/ AnyTouch(r, v) /\ Decide("rung", t, "TARGET", Tranche(t))
           \/ ~AnyTouch(r, v) /\ v.closing # "no" /\ All("backstop", r, v.closing)
           \/ ~AnyTouch(r, v) /\ v.closing = "no" /\ Wait(r)

BaseRest(p, v) ==
    LET t == Trailed(p, v)
    IN  \/ TargetHit(p, v) /\ Decide("target", p, "TARGET", LadderQty(p))
        \/ ~TargetHit(p, v) /\ v.closing # "no" /\ All("backstop", t, v.closing)
        \/ ~TargetHit(p, v) /\ v.closing = "no" /\ Wait(t)

Evaluate(p, v) ==
    LET s == AtStop(AtLine(p, v), v)
    IN  \/ UNCHANGED print /\ StopDecides(p, v)
        \/ UNCHANGED print /\ ~Stopped(p, v) /\ Held(p, v) /\ Wait(s)
        \/ lim.own /\ ~Stopped(p, v) /\ ~Held(p, v) /\ Rest(s, v)
        \/ UNCHANGED print /\ BaseStopDecides(p, v)
        \/ UNCHANGED print /\ ~lim.own /\ ~BaseStopped(p, v) /\ BaseRest(p, v)

-----------------------------------------------------------------------------
(* The ghost: counts of reads, no further than Beyond *)

Beyond == lim.sustain + 2

Tick(n) == Smaller(n + 1, Beyond)

Unwatched == [calm |-> 0, agreed |-> 0]

\* The mid and the last trade are on the same side of the stop.
Agreeing(v) ==
    Fresh(v) /\ (Breached(Prepared(v), v) <=> v.ltp <= Prepared(v).optionSl)

\* A known quote back over the stop, at a read no other rule decided first.
Recovered(v) == Fresh(v) /\ ~Breached(Prepared(v), v) /\ said' \in {"none", "rung", "backstop"}

\* calm: reads since the last recovery; agreed: forced reads in a row, whose
\* quote and last trade agree, that nothing was decided at.
Watched(v) ==
    [calm   |-> IF Recovered(v) THEN 0 ELSE Tick(watch.calm),
     agreed |-> IF Forced(v) /\ Agreeing(v) /\ said' = "none"
                THEN Tick(watch.agreed) ELSE 0]

-----------------------------------------------------------------------------
Init ==
    /\ lim \in Policies
    /\ pos = Bought
    /\ print = 0
    /\ row = Bought
    /\ restarts = 0
    /\ said = "none"
    /\ watch = Unwatched

\* One pass of the clock over the position.  A stale quote is evaluated only
\* when the exit is forced; the policies with a sustain have no time stop.
Read(v) ==
    /\ pos.status = "OPEN"
    /\ v.quote = "stale" => Forced(v)
    /\ v.closing = "TIME_STOP" => ~lim.own
    /\ Evaluate(Prepared(v), v)
    /\ watch' = Watched(v)
    /\ UNCHANGED <<lim, restarts>>

\* A second in which the position is not evaluated: its quote is stale and
\* nothing is forced, or the clock is still waiting for a broker.
Gap ==
    /\ pos.status = "OPEN"
    /\ pos' = Aged(pos)
    /\ row' = Aged(row)
    /\ said' = "gap"
    /\ watch' = [watch EXCEPT !.calm = Tick(@), !.agreed = 0]
    /\ UNCHANGED <<lim, print, restarts>>

\* The process dies between two reads and comes back with the row.
Restart ==
    /\ pos.status = "OPEN"
    /\ restarts < MaxRestarts
    /\ restarts' = restarts + 1
    /\ \E touch \in Since(row.touch), line \in Since(row.line) :
           pos' = Rehydrated(touch, line)
    /\ print' = 0
    /\ said' = "restart"
    /\ watch' = Unwatched
    /\ UNCHANGED <<lim, row>>

Next == Gap \/ Restart \/ \E v \in Views : Read(v)

Spec == Init /\ [][Next]_vars

-----------------------------------------------------------------------------
(* Properties *)

\* No position is stranded: whatever sequence of rungs, part exits and
\* refusals brought it there, an open position has lots and a rung that sells
\* the last of them, and an own book has sold one lot for each rung it took.
Unstranded ==
    pos.status = "OPEN" =>
        /\ pos.remaining > 0
        /\ pos.targets # <<>> => pos.hits < Len(pos.targets)
        /\ lim.own => pos.remaining = Lots - pos.hits

\* The staircase of _touch and of _trail: once a rung is sold, the floor is at
\* least the rung below it (entry, under the first), although the stop itself
\* is re-projected every few seconds and a decided exit may have been refused;
\* a base book has its breakeven as soon as a read waits.
StaircaseHolds ==
    pos.hits >= 1 =>
        /\ lim.own =>
            /\ pos.optionSl >= pos.ratchetSl
            /\ pos.ratchetSl >= IF pos.hits = 1 THEN Entry ELSE pos.targets[pos.hits - 1]
        /\ ~lim.own /\ said = "none" => pos.optionSl >= Entry

\* "A touch now and another in five minutes is not a five-minute sustain": a
\* sustained stop exits only when every read of the last sustain_s was without
\* a recovery.
SustainIsContinuous == said = "sustained" => watch.calm > lim.sustain

\* A halt or a force-flat sells within the sustain, when the quote and the last
\* trade are on the same side of the stop; a base book sells at once.
ForcedOut == watch.agreed <= IF lim.own THEN lim.sustain ELSE 0

=============================================================================
