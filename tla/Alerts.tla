------------------------------- MODULE Alerts -------------------------------
(* The advisory books (alerts/engine.py, alerts/detectors.py) for one           *)
(* underlying: detectors that fire on a closed bar of the decision frame, with  *)
(* their cooldowns and daily cap, and the living-signal book that re-checks a   *)
(* fired signal on the 1m close until it retires it.                            *)
EXTENDS Integers, FiniteSets

CONSTANTS
  Frame,     \* minutes of a decision bar
  Cooldown,  \* book -> its cooldown
  DayCap,    \* pivotboss.cadence.maxPerScripPerDay
  Ttl, Reeval, Gate, \* FudkiiRtConfig
  Signals,   \* signals the strategies may emit: [strategy, entry, stop, target]
  Ids,       \* their identities
  Prices,    \* prices of a 1m close
  MaxTime,   \* bound: minutes
  MaxTroubles, \* bound: cards that cannot be built, restarts and resets
  None

AlertAssumptions ==
  /\ {Frame, DayCap, Ttl, Reeval, Gate, MaxTime, MaxTroubles} \subseteq Nat
  /\ Reeval < Frame /\ Frame < Ttl /\ Frame > 0
  /\ Prices \subseteq Nat
  /\ None \notin [born : Nat, reeval : Nat]

Books == {"BB", "FUDKOI", "PIVOTBOSS"}

\* The order in which the bar is handed to them.
Turn == [BB |-> 1, FUDKOI |-> 2, PIVOTBOSS |-> 3]

VARIABLES
  now,      \* minutes of the session that are over
  closed,   \* the bars of this minute's close that are still to be handled
  bar,      \* the last decision bar of the store, and the books that see their pattern in it
  cooldown, \* Cooldown._last of each book
  taken,    \* DailyCap._by_symbol of PIVOTBOSS
  living,   \* FudkiiRtDetector.living: id -> None, or its age marks
  ring,     \* the rings, as far as they say: what fired when, and each signal's last row
  troubles,
  muted     \* ghost: signals whose rows were lost with a card that could not be built

vars == <<now, closed, bar, cooldown, taken, living, ring, troubles, muted>>

\* What a decision bar shows its detectors: the close outside the band, its volume over the
\* median, a flip that way, the open interest of the future, a narrow CPR and a score over mild.
Facts == [broke : BOOLEAN, surge : BOOLEAN, flipped : BOOLEAN, oi : {None, "low", "high"},
          narrow : BOOLEAN, scored : BOOLEAN]

Distance(a, b) == IF a > b THEN a - b ELSE b - a

Fresh == [cooldown |-> [b \in Books |-> None], living |-> [i \in Ids |-> None],
          ring |-> [row |-> [i \in Ids |-> None], fired |-> [b \in Books |-> None], said |-> 0]]

-----------------------------------------------------------------------------
(* The detectors of the decision frame *)

\* BbBreakDetector.on_bar, but for its cooldown; the score and evidence of its alert are left out.
BandBreak(f) == f.broke /\ f.surge

\* FudkoiDetector.on_bar, but for its cooldown: no open interest is no confirmation.
OiFlip(f) == f.broke /\ f.flipped /\ f.oi = "high"

\* PivotBossDetector.on_bar, but for its cadence.
TrendDay(f) == f.narrow /\ f.scored

Sees(book, f) ==
  CASE book = "BB" -> BandBreak(f) [] book = "FUDKOI" -> OiFlip(f) [] OTHER -> TrendDay(f)

\* Cooldown.ready, on the bar's own clock.
Ready(book, ts) == cooldown[book] = None \/ ts - cooldown[book] >= Cooldown[book]

\* DailyCap.take.
Counted(book) == IF book = "PIVOTBOSS" THEN taken + 1 ELSE taken

\* DailyCap.allows.
Allows(book) == book = "PIVOTBOSS" => taken < DayCap

\* AlertEngine._on_bar for a decision bar: each book in turn. The bar it is handed is the live
\* build. A book that fires has spent its cooldown before its card is built; a card that cannot
\* be built ("broken") loses its row, and the books after it never see the bar.
FrameClosed(f, broken) ==
  LET shows == {b \in Books : Sees(b, f)}
      heard == IF broken = None THEN Books ELSE {b \in Books : Turn[b] <= Turn[broken]}
      fires == {b \in shows \intersect heard : Ready(b, bar.ts) /\ Allows(b)}
      rows  == fires \ {broken}
  IN  /\ closed = "frame"
      /\ broken # None => broken \in fires /\ troubles < MaxTroubles
      /\ troubles' = IF broken = None THEN troubles ELSE troubles + 1
      /\ closed' = "none"
      /\ bar' = [bar EXCEPT !.shows = shows, !.live = TRUE]
      /\ cooldown' = [b \in Books |-> IF b \in fires THEN bar.ts ELSE cooldown[b]]
      /\ taken' = IF "PIVOTBOSS" \in fires THEN Counted("PIVOTBOSS") ELSE taken
      /\ ring' = [ring EXCEPT
           !.fired = [b \in Books |-> IF b \in rows THEN bar.ts ELSE @[b]],
           !.said = IF "PIVOTBOSS" \in rows THEN @ + 1 ELSE @]
      /\ UNCHANGED <<now, living, muted>>

\* The exchange's candle for the bar is installed, after the alerts have seen the live one.
Reconciled(f) ==
  /\ closed = "none" /\ bar.live
  /\ bar' = [bar EXCEPT !.shows = {b \in Books : Sees(b, f)}, !.live = FALSE]
  /\ UNCHANGED <<now, closed, cooldown, taken, living, ring, troubles, muted>>

\* A late frame emits the bar once more.
EmittedAgain ==
  /\ closed = "none" /\ bar.live /\ troubles < MaxTroubles
  /\ closed' = "frame"
  /\ troubles' = troubles + 1
  /\ UNCHANGED <<now, bar, cooldown, taken, living, ring, muted>>

-----------------------------------------------------------------------------
(* The living signals *)

\* AlertEngine.adopt_signal, which Engine._handle_signal calls for every signal: born now.
\* The row is written if its card can be built.
Adopt(i, carded) ==
  /\ closed = "none" /\ bar.ts + Frame = now
  /\ carded \/ troubles < MaxTroubles
  /\ living' = [living EXCEPT ![i] = [born |-> now, reeval |-> now]]
  /\ ring' = IF carded THEN [ring EXCEPT !.row[i] = "ENTRY"] ELSE ring
  /\ muted' = IF carded THEN muted \ {i} ELSE muted \union {i}
  /\ troubles' = IF carded THEN troubles ELSE troubles + 1
  /\ UNCHANGED <<now, closed, bar, cooldown, taken>>

\* LivingSignal.rr times the risk: what is left to the target.
RewardLeft(i, price) == Distance(Signals[i].target, price)
Risk(i) == Distance(Signals[i].entry, Signals[i].stop)
Bullish(i) == Signals[i].stop < Signals[i].entry

\* The reward left no longer clears the gate; no risk is no reward.
Spent(i, price) == Risk(i) = 0 \/ RewardLeft(i, price) < Gate * Risk(i)

Stopped(i, price) ==
  IF Bullish(i) THEN price <= Signals[i].stop ELSE price >= Signals[i].stop

\* Mutant: a signal past its time leaves without a word.
SaysUnlessOld(i, ts, price) ==
  LET s == living[i] IN
  IF s = None THEN "silent"
  ELSE IF ts - s.born >= Ttl THEN "gone"
  ELSE IF ts - s.reeval < Reeval THEN "silent"
  ELSE IF Stopped(i, price) \/ Spent(i, price) THEN "EXPIRED"
  ELSE "KEEPALIVE"

\* FudkiiRtDetector.on_bar: what a 1m close makes of a living signal.
Says(i, ts, price) ==
  LET s == living[i] IN
  IF s = None THEN "silent"
  ELSE IF ts - s.born >= Ttl THEN "EXPIRED"
  ELSE IF ts - s.reeval < Reeval THEN "silent"
  ELSE IF Stopped(i, price) \/ Spent(i, price) THEN "EXPIRED"
  ELSE "KEEPALIVE"

\* The 1m bar closes: all verdicts first, then each row with its card. A card that cannot be
\* built ends the loop, and the rows after it are lost with it; "carded" are those written.
MinuteClosed(price, carded) ==
  LET ts == now - 1
      verdict == [i \in Ids |-> Says(i, ts, price)]
      speaking == {i \in Ids : verdict[i] \in {"EXPIRED", "KEEPALIVE"}}
  IN  /\ closed = "minute"
      /\ carded \subseteq speaking
      /\ carded = speaking \/ troubles < MaxTroubles
      /\ troubles' = IF carded = speaking THEN troubles ELSE troubles + 1
      /\ closed' = IF now % Frame = 0 THEN "frame" ELSE "none"
      /\ living' = [i \in Ids |->
           CASE verdict[i] \in {"EXPIRED", "gone"} -> None
             [] verdict[i] = "KEEPALIVE" -> [living[i] EXCEPT !.reeval = ts]
             [] OTHER -> living[i]]
      /\ ring' = [ring EXCEPT !.row = [i \in Ids |-> IF i \in carded THEN verdict[i] ELSE @[i]]]
      /\ muted' = muted \union (speaking \ carded)
      /\ UNCHANGED <<now, bar, cooldown, taken>>

\* A minute passes; without a trade there is no bar in it. The decision bar closes with its
\* last minute.
Tick(traded) ==
  /\ closed = "none" /\ now < MaxTime
  /\ now' = now + 1
  /\ closed' = IF traded THEN "minute" ELSE IF now' % Frame = 0 THEN "frame" ELSE "none"
  /\ bar' = IF now' % Frame = 0 THEN [ts |-> now' - Frame, shows |-> {}, live |-> FALSE] ELSE bar
  /\ UNCHANGED <<cooldown, taken, living, ring, troubles, muted>>

\* AlertEngine.reset_day rebuilds rings and detectors, as a restart does.
ResetDay ==
  /\ troubles < MaxTroubles /\ closed = "none"
  /\ troubles' = troubles + 1
  /\ cooldown' = Fresh.cooldown /\ living' = Fresh.living /\ ring' = Fresh.ring
  /\ taken' = 0 /\ muted' = {}
  /\ UNCHANGED <<now, closed, bar>>

Init ==
  /\ now = Frame /\ closed = "frame"
  /\ bar = [ts |-> 0, shows |-> {}, live |-> FALSE]
  /\ cooldown = Fresh.cooldown /\ living = Fresh.living /\ ring = Fresh.ring
  /\ taken = 0 /\ troubles = 0 /\ muted = {}

Next ==
  \/ \E f \in Facts, broken \in Books \union {None} : FrameClosed(f, broken)
  \/ \E f \in Facts : Reconciled(f)
  \/ EmittedAgain
  \/ \E i \in Ids, carded \in BOOLEAN : Adopt(i, carded)
  \/ \E price \in Prices, carded \in SUBSET Ids : MinuteClosed(price, carded)
  \/ \E traded \in BOOLEAN : Tick(traded)
  \/ ResetDay

Spec == Init /\ [][Next]_vars

-----------------------------------------------------------------------------

\* A living signal that is gone was announced as expired - "a signal that quietly vanished is
\* indistinguishable from one that was never taken" - unless the card of a row could not be
\* built; and one that was announced as expired is gone until it is adopted again.
RetirementIsAnnounced ==
  \A i \in Ids \ muted :
    ring.row[i] # None => (living[i] = None <=> ring.row[i] = "EXPIRED")

=============================================================================
