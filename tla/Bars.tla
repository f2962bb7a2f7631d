-------------------------------- MODULE Bars --------------------------------
(* From ticks to the bar a strategy decides on: bars/aggregator.py builds bars  *)
(* from snapshot frames, bars/store.py keeps them, bars/verify.py replaces a    *)
(* closed bar by the exchange's, and Engine._reconcile_then_decide holds the    *)
(* decision until it has. One symbol.                                           *)
(*                                                                              *)
(* The exchange is a tape of trades. A frame of the feed is a snapshot of the   *)
(* tape at some trade: its time, its price, the day's volume and extremes. The  *)
(* feed skips trades and delivers late. An action is what runs between two      *)
(* awaits; the awaits of on_bar_close inside _apply and flush_stale touch       *)
(* neither the store nor the symbol's state, so a tick is one step.             *)
EXTENDS Integers, Sequences, FiniteSets

CONSTANTS
  Step,        \* frame -> length of its buckets, in units of time
  DecisionTf,  \* the frame strategies decide on
  SweepTf,     \* the frame the periodic sweep reconciles
  DaySpan,     \* units of time from one midnight to the next
  Close,       \* the session is the first Close units of a day
  Horizon,     \* bound: the last time
  MaxTrades,   \* bound: trades on the tape
  MaxCuts,     \* bound: reconnects of the feed
  MaxBars,     \* bars a series keeps
  Prices,
  None

Daily == "1d"
Frames == DOMAIN Step \union {Daily}

BarsAssumptions ==
  /\ Step \in [DOMAIN Step -> Nat \ {0}] /\ Daily \notin DOMAIN Step
  /\ {DecisionTf, SweepTf} \subseteq DOMAIN Step /\ DecisionTf # SweepTf
  /\ DaySpan \in Nat /\ Close \in 1..(DaySpan - 1) /\ Horizon \in Nat
  /\ {MaxTrades, MaxCuts, MaxBars} \subseteq Nat /\ MaxBars > 0
  /\ Prices \subseteq Nat \ {0}

VARIABLES
  now,       \* wall time
  tape,      \* the exchange's trades, oldest first
  resend,    \* the snapshot that follows a subscription is still to come
  cuts,      \* the decision buckets in which the socket was down
  seen,      \* the last trade a frame showed us
  joined,    \* SymbolState.connected_since
  st,        \* the rest of SymbolState: volume baseline, day, extremes
  forming,   \* frame -> the bar it is building
  closed,    \* frame -> the closed bars, as stored
  tasks,     \* the decision tasks, in the order they were created
  sweep,     \* the bars a sweep is asking about
  touched,   \* ghost: buckets that a late frame opened a second time
  official   \* the last day whose daily refresh has run

vars == <<now, tape, resend, cuts, seen, joined, st, forming, closed, tasks,
          sweep, touched, official>>

Bar == [ts: Nat, o: Prices, h: Prices, l: Prices, c: Prices, v: Nat,
        src: {"live", "partial", "rest"}, confirmed: BOOLEAN]

TaskState == [bar: Bar, stage: {"ask", "again", "skipped", "decided"},
              found: BOOLEAN, on: Bar \union {None}]

-----------------------------------------------------------------------------
(* market/session.py: buckets are anchored on the session's open.               *)

DayOf(t) == t \div DaySpan
OpenOf(d) == d * DaySpan
CloseOf(d) == d * DaySpan + Close
InSession(t) == t < CloseOf(DayOf(t))

BucketStart(tf, t) ==
  LET open == OpenOf(DayOf(t)) IN
  IF tf = Daily THEN open ELSE open + ((t - open) \div Step[tf]) * Step[tf]

Lesser(a, b) == IF a <= b THEN a ELSE b
Greater(a, b) == IF a >= b THEN a ELSE b

BucketEnd(tf, b) ==
  IF tf = Daily THEN CloseOf(DayOf(b)) ELSE Lesser(b + Step[tf], CloseOf(DayOf(b)))

-----------------------------------------------------------------------------
(* The exchange and its historical endpoint.                                    *)

TradesIn(tf, b) ==
  {n \in DOMAIN tape : InSession(tape[n].t) /\ BucketStart(tf, tape[n].t) = b}

LeastOf(S) == CHOOSE x \in S : \A y \in S : x <= y
GreatestOf(S) == CHOOSE x \in S : \A y \in S : x >= y
PricesOf(N) == {tape[n].p : n \in N}

\* The exchange's candle of a bucket that has traded, as the bar Aggregator.seed makes of it.
Candle(tf, b) ==
  LET N == TradesIn(tf, b) IN
  [ts |-> b, o |-> tape[LeastOf(N)].p, c |-> tape[GreatestOf(N)].p,
   h |-> GreatestOf(PricesOf(N)), l |-> LeastOf(PricesOf(N)), v |-> Cardinality(N),
   src |-> "rest", confirmed |-> FALSE]

Ohlcv(bar) == <<bar.o, bar.h, bar.l, bar.c, bar.v>>

Candles(tf, from) ==
  {Candle(tf, b) : b \in {x \in from..now : TradesIn(tf, x) # {}}}

-----------------------------------------------------------------------------
(* bars/store.py                                                                *)

Capped(s) == IF Len(s) > MaxBars THEN SubSeq(s, Len(s) + 1 - MaxBars, Len(s)) ELSE s

\* BarStore.close: the newest bar of the same bucket gives way, unless that
\* would put a partial bar over a better one.
CloseInto(s, bar) ==
  IF s # <<>> /\ s[Len(s)].ts = bar.ts
    THEN IF bar.src = "partial" /\ s[Len(s)].src # "partial" THEN s
         ELSE [s EXCEPT ![Len(s)] = bar]
    ELSE Capped(Append(s, bar))

\* BarStore.replace_closed: over the bar of the same bucket, or in its place,
\* looking from the newest down.
ReplaceClosed(s, bar) ==
  LET upTo == {i \in DOMAIN s : s[i].ts <= bar.ts}
      at == IF upTo = {} THEN 0 ELSE GreatestOf(upTo)
  IN  IF at > 0 /\ s[at].ts = bar.ts THEN [s EXCEPT ![at] = bar]
      ELSE SubSeq(s, 1, at) \o <<bar>> \o SubSeq(s, at + 1, Len(s))

\* BarStore.seed: the rows win over what is held for the same bucket, and the
\* series comes out sorted.
Seeded(s, rows) ==
  LET kept == {s[i] : i \in {j \in DOMAIN s :
                 /\ \A r \in rows : r.ts # s[j].ts
                 /\ \A k \in DOMAIN s : s[k].ts = s[j].ts => j <= k}}
      all == rows \union kept
      Rank(x) == Cardinality({y \in all : y.ts <= x.ts})
  IN  Capped([i \in 1..Cardinality(all) |-> CHOOSE x \in all : Rank(x) = i])

-----------------------------------------------------------------------------
(* Aggregator.on_tick                                                           *)

\* What a frame sent after trade n says.
Frame(n) ==
  LET day == {m \in 1..n : DayOf(tape[m].t) = DayOf(tape[n].t)} IN
  [ts |-> tape[n].t, ltp |-> tape[n].p, total |-> Cardinality(day),
   high |-> GreatestOf(PricesOf(day)), low |-> LeastOf(PricesOf(day))]

\* Aggregator._roll_day: a zero baseline is claimed only by who was there at the open.
Rolled(f) ==
  IF DayOf(f.ts) = st.day THEN st
  ELSE [day |-> DayOf(f.ts), dh |-> 0, dl |-> 0,
        base |-> IF joined <= OpenOf(DayOf(f.ts)) THEN 0 ELSE None]

\* Aggregator._volume_delta
Delta(s, f) == IF s.base = None \/ f.total < s.base THEN 0 ELSE f.total - s.base

\* Aggregator._day_extreme_moves: a day extreme that moved since the last frame
\* was printed in the gap.
NewHigh(s, f) == IF s.dh > 0 /\ f.high > s.dh THEN f.high ELSE None
NewLow(s, f) == IF s.dl > 0 /\ f.low < s.dl THEN f.low ELSE None

\* Mutant: the baseline stays at the day's first frame.
BookedOnFirstBaseline(s, f) ==
  [s EXCEPT !.base = IF @ = None THEN f.total ELSE @, !.dh = Greater(@, f.high),
            !.dl = IF @ = 0 THEN f.low ELSE Lesser(@, f.low)]

Booked(s, f) ==
  [s EXCEPT !.base = f.total, !.dh = Greater(@, f.high),
            !.dl = IF @ = 0 THEN f.low ELSE Lesser(@, f.low)]

\* Aggregator._open_bar: a bucket that began before we connected lacks its start.
Opened(tf, f) ==
  LET b == BucketStart(tf, f.ts) IN
  [ts |-> b, o |-> f.ltp, h |-> f.ltp, l |-> f.ltp, c |-> f.ltp, v |-> 0,
   src |-> IF b < joined THEN "partial" ELSE "live", confirmed |-> FALSE]

\* UnifiedBar.merge_tick and the extremes of the gap.
Merged(bar, f, qty, high, low) ==
  LET h == Greater(bar.h, f.ltp)
      l == Lesser(bar.l, f.ltp)
  IN  [bar EXCEPT !.c = f.ltp, !.v = @ + qty,
                  !.h = IF high # None /\ high > h THEN high ELSE h,
                  !.l = IF low # None /\ low < l THEN low ELSE l]

Late(tf, f) == forming[tf] # None /\ BucketStart(tf, f.ts) < forming[tf].ts
Over(tf, f) == forming[tf] # None /\ BucketStart(tf, f.ts) > forming[tf].ts

\* Aggregator._apply for one frame length.
Applied(tf, f, s) ==
  IF Late(tf, f) THEN forming[tf]
  ELSE Merged(IF forming[tf] = None \/ Over(tf, f) THEN Opened(tf, f) ELSE forming[tf],
              f, Delta(s, f), NewHigh(s, f), NewLow(s, f))

\* Aggregator._close, and Engine._on_bar_close for the decision frame: the
\* decision is a task of its own.
Closing(tfs) ==
  /\ closed' = [tf \in Frames |-> IF tf \in tfs THEN CloseInto(closed[tf], forming[tf])
                                  ELSE closed[tf]]
  /\ tasks' = IF DecisionTf \in tfs
              THEN Append(tasks, [bar |-> forming[DecisionTf], stage |-> "ask",
                                  found |-> FALSE, on |-> None])
              ELSE tasks

Reopens(tf, f) ==
  /\ forming'[tf] # None /\ forming'[tf].ts = BucketStart(tf, f.ts)
  /\ forming[tf] = None \/ forming[tf].ts # forming'[tf].ts
  /\ BucketEnd(tf, BucketStart(tf, f.ts)) <= now

OnTick(n) ==
  LET f == Frame(n)
      s == Rolled(f)
  IN
  /\ n \in DOMAIN tape
  /\ n > seen \/ (n = seen /\ resend)
  /\ seen' = n /\ resend' = FALSE
  /\ IF InSession(f.ts)
       THEN /\ st' = Booked(s, f)
            /\ forming' = [tf \in Frames |-> Applied(tf, f, s)]
            /\ Closing({tf \in Frames : Over(tf, f)})
            /\ touched' = touched \union
                 {<<tf, BucketStart(tf, f.ts)>> : tf \in {x \in Frames : Reopens(x, f)}}
       ELSE UNCHANGED <<st, forming, closed, tasks, touched>>
  /\ UNCHANGED <<now, tape, cuts, joined, sweep, official>>

\* Aggregator.flush_stale, called by the clock: a bar whose bucket is over is
\* closed without waiting for a tick.
Stale(tf) == forming[tf] # None /\ now >= BucketEnd(tf, forming[tf].ts)

FlushStale ==
  LET due == {tf \in Frames : Stale(tf)} IN
  /\ due # {}
  /\ Closing(due)
  /\ forming' = [tf \in Frames |-> IF tf \in due THEN None ELSE forming[tf]]
  /\ UNCHANGED <<now, tape, resend, cuts, seen, joined, st, sweep, touched, official>>

-----------------------------------------------------------------------------
(* bars/verify.py                                                               *)

\* BarReconciler._install: a bar that agrees is confirmed where it is, one that
\* does not is replaced.
Install(s, bar, row) ==
  IF Ohlcv(bar) = Ohlcv(row)
    THEN [i \in DOMAIN s |-> IF s[i] = bar THEN [bar EXCEPT !.confirmed = TRUE] ELSE s[i]]
    ELSE ReplaceClosed(s, [row EXCEPT !.confirmed = TRUE])

\* Mutant: a partial bar is decided on as it is.
DecidedOnPartial(task, found, series) ==
  LET last == series[Len(series)] IN
  [task EXCEPT !.stage = "decided", !.found = found,
     !.on = IF series # <<>> /\ last.ts = task.bar.ts THEN last ELSE task.bar]

\* The rest of Engine._reconcile_then_decide once reconcile_bar has answered.
Decided(task, found, series) ==
  LET last == series[Len(series)] IN
  IF ~found /\ task.bar.src = "partial" THEN [task EXCEPT !.stage = "skipped"]
  ELSE [task EXCEPT !.stage = "decided", !.found = found,
          !.on = IF series # <<>> /\ last.ts = task.bar.ts THEN last ELSE task.bar]

Pending(i) == i \in DOMAIN tasks /\ tasks[i].stage \in {"ask", "again"}

\* The exchange's candle has come: install it and decide.
AskFound(i) ==
  LET bar == tasks[i].bar IN
  /\ Pending(i)
  /\ TradesIn(DecisionTf, bar.ts) # {}
  /\ LET series == Install(closed[DecisionTf], bar, Candle(DecisionTf, bar.ts)) IN
       /\ closed' = [closed EXCEPT ![DecisionTf] = series]
       /\ tasks' = [tasks EXCEPT ![i] = Decided(@, TRUE, series)]
  /\ UNCHANGED <<now, tape, resend, cuts, seen, joined, st, forming, sweep, touched, official>>

\* An answer without the bucket is asked for once more; a second one, an error
\* and the timeout leave the bar unconfirmed.
AskMissing(i) ==
  /\ Pending(i)
  /\ tasks' = [tasks EXCEPT ![i] =
       IF @.stage = "ask" THEN [@ EXCEPT !.stage = "again"]
       ELSE Decided(@, FALSE, closed[DecisionTf])]
  /\ UNCHANGED <<now, tape, resend, cuts, seen, joined, st, forming, closed, sweep, touched, official>>

AskFails(i) ==
  /\ Pending(i)
  /\ tasks' = [tasks EXCEPT ![i] = Decided(@, FALSE, closed[DecisionTf])]
  /\ UNCHANGED <<now, tape, resend, cuts, seen, joined, st, forming, closed, sweep, touched, official>>

\* BarReconciler.sweep, up to the call: today's closed bars nobody confirmed.
SweepAsks ==
  LET s == closed[SweepTf]
      due == {s[i] : i \in {j \in DOMAIN s : /\ DayOf(s[j].ts) = DayOf(now)
                                              /\ ~s[j].confirmed /\ s[j].src # "rest"}}
  IN
  /\ InSession(now) /\ sweep = {} /\ due # {}
  /\ sweep' = due
  /\ UNCHANGED <<now, tape, resend, cuts, seen, joined, st, forming, closed, tasks, touched, official>>

\* ... and from its answer: the bars it holds candles for are installed at once.
SweepAnswered ==
  LET rows == {bar \in sweep : TradesIn(SweepTf, bar.ts) # {}}
      after[R \in SUBSET rows] ==
        IF R = {} THEN closed[SweepTf]
        ELSE LET bar == CHOOSE x \in R : \A y \in R : x.ts <= y.ts
             IN  Install(after[R \ {bar}], bar, Candle(SweepTf, bar.ts))
  IN
  /\ sweep # {}
  /\ sweep' = {}
  /\ closed' = [closed EXCEPT ![SweepTf] = after[rows]]
  /\ UNCHANGED <<now, tape, resend, cuts, seen, joined, st, forming, tasks, touched, official>>

SweepFails ==
  /\ sweep # {} /\ sweep' = {}
  /\ UNCHANGED <<now, tape, resend, cuts, seen, joined, st, forming, closed, tasks, touched, official>>

-----------------------------------------------------------------------------
(* The daily series: Engine._refetch_daily and what the pivots may read.        *)

\* daily.py previous_session: the last bar strictly before today, or none.
PreviousSession ==
  LET s == closed[Daily]
      prior == {i \in DOMAIN s : DayOf(s[i].ts) < DayOf(now)}
  IN  IF prior = {} THEN None ELSE s[GreatestOf(prior)]

\* Engine.zones_for: there are levels only of an official bar.
HasLevels == PreviousSession # None /\ PreviousSession.src = "rest"

\* The refresh slots lie outside the session (daily_refresh_hm); in between, the
\* repair loop asks for what the audit does not call ok.
LastClosedDay == IF InSession(now) THEN DayOf(now) - 1 ELSE DayOf(now)
RefetchDue == (~InSession(now) /\ official < LastClosedDay) \/ ~HasLevels

RefetchDaily ==
  /\ RefetchDue
  /\ closed' = [closed EXCEPT ![Daily] = Seeded(@, Candles(Daily, 0))]
  /\ official' = LastClosedDay
  /\ UNCHANGED <<now, tape, resend, cuts, seen, joined, st, forming, tasks, sweep, touched>>

-----------------------------------------------------------------------------
(* The environment.                                                             *)

Trade(p) ==
  /\ Len(tape) < MaxTrades
  /\ tape' = Append(tape, [t |-> now, p |-> p])
  /\ UNCHANGED <<now, resend, cuts, seen, joined, st, forming, closed, tasks, sweep, touched, official>>

\* A unit of time is far longer than decision_reconcile_timeout_s, so it does
\* not pass while a decision waits, and the clock has flushed what was due.
Tick ==
  /\ now < Horizon
  /\ \A i \in DOMAIN tasks : ~Pending(i)
  /\ \A tf \in Frames : ~Stale(tf)
  /\ now' = now + 1
  /\ UNCHANGED <<tape, resend, cuts, seen, joined, st, forming, closed, tasks, sweep, touched, official>>

\* FivePaisaFeed.run: the socket goes down and comes back, subscribes again, and
\* the broker answers a subscription with a snapshot. While it is down frames are
\* missing, as they may be at any time.
Reconnect ==
  /\ Cardinality(cuts) < MaxCuts
  /\ InSession(now) /\ BucketStart(DecisionTf, now) \notin cuts
  /\ cuts' = cuts \union {BucketStart(DecisionTf, now)} /\ resend' = TRUE
  /\ UNCHANGED <<now, tape, seen, joined, st, forming, closed, tasks, sweep, touched, official>>

\* Engine._boot_market: at the open or in mid-session, the backfill done or failed.
Init ==
  /\ tape \in {<<>>} \union {<<[t |-> 0, p |-> p]>> : p \in Prices}
  /\ now = Len(tape) /\ joined = now /\ seen = 0
  /\ resend = FALSE /\ cuts = {}
  /\ st = [base |-> None, day |-> -1, dh |-> 0, dl |-> 0]
  /\ forming = [tf \in Frames |-> None]
  /\ official = -1
  /\ \E filled \in SUBSET {DecisionTf, Daily} :
       closed = [tf \in Frames |-> IF tf \in filled THEN Seeded(<<>>, Candles(tf, 0)) ELSE <<>>]
  /\ tasks = <<>> /\ sweep = {} /\ touched = {}

Ask(i) == AskFound(i) \/ AskMissing(i) \/ AskFails(i)

Next ==
  \/ \E n \in 1..MaxTrades : OnTick(n)
  \/ FlushStale \/ SweepAsks \/ SweepAnswered \/ SweepFails \/ RefetchDaily
  \/ \E i \in DOMAIN tasks : AskFound(i) \/ AskMissing(i) \/ AskFails(i)
  \/ \E p \in Prices : Trade(p)
  \/ Tick \/ Reconnect

Spec == Init /\ [][Next]_vars

-----------------------------------------------------------------------------
(* What the bars promise. A frame that is delivered after its bucket was       *)
(* flushed opens the bucket a second time (`touched`): it may be decided on     *)
(* again. The properties below hold of all other buckets.                       *)

Untouched(tf, b) == <<tf, b>> \notin touched

\* One decision per bucket, on the exchange's bar if it answered; a bar whose
\* start was missed is never decided on unconfirmed (_reconcile_then_decide).
DecidesOnTheExchangesBar ==
  \A i \in DOMAIN tasks :
    LET t == tasks[i] IN
    /\ Untouched(DecisionTf, t.bar.ts) =>
         \A j \in DOMAIN tasks : tasks[j].bar.ts = t.bar.ts => j = i
    /\ t.stage = "decided" =>
         \/ Ohlcv(t.on) = Ohlcv(Candle(DecisionTf, t.bar.ts))
         \/ ~Untouched(DecisionTf, t.bar.ts)
         \/ ~t.found /\ t.on.src # "partial"

\* The units of a day's volume in bars built from frames: a series, and at 0 the
\* bar that is forming.
Units(s, f, d) ==
  LET BarAt(i) == IF i = 0 THEN f ELSE s[i]
      bars == (IF f = None THEN 1 ELSE 0)..Len(s)
      built == {i \in bars : BarAt(i).src # "rest" /\ DayOf(BarAt(i).ts) = d}
  IN  UNION {{i} \X (1..BarAt(i).v) : i \in built}

\* Volume is attributed to at most one live-built bar, whatever frames are
\* missed, and never more of it than the day has traded (_volume_delta, _roll_day).
VolumeIsCountedOnce ==
  \A d \in 0..DayOf(now) :
    Cardinality(Units(closed[SweepTf], forming[SweepTf], d))
      <= Cardinality({n \in DOMAIN tape : DayOf(tape[n].t) = d})

=============================================================================
