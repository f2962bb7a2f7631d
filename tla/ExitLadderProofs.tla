-------------------------- MODULE ExitLadderProofs --------------------------
(***************************************************************************)
(* What the exit rules keep of a position, for every policy, ladder, lot   *)
(* count and read: nothing is stranded, the staircase holds, a sustained   *)
(* stop was sustained, and a forced exit is not held back for longer than  *)
(* the sustain.                                                            *)
(*                                                                         *)
(* The ladder and the staircase are kept by every helper of evaluate alone *)
(* (Sound), by the row as well as by the position, so a restart finds them *)
(* too.  The two promises about time compare the breach's clock with the   *)
(* reads since the last recovery and with the forced reads in a row.       *)
(*                                                                         *)
(* The last two parts are about the bars the reads are taken from, of      *)
(* Bars: a bucket is decided on once and on the exchange's bar (Settled),  *)
(* and the sweep's bars hold a day's volume once (Tallied).                *)
(***************************************************************************)
EXTENDS MCExitLadder, SequenceTheorems, FiniteSetTheorems, WellFoundedInduction, TLAPS

\* The rung a sold rung claims: entry for the first.
Ground(p) == IF p.hits = 1 THEN Entry ELSE p.targets[p.hits - 1]

\* A position's targets are the book's, and it stands on a rung of them.
OnLadder(l, p) ==
    /\ p.targets = <<>> => p.hits = 0 /\ p.t1 = 0
    /\ p.hits <= Len(p.targets)
    /\ ~l.own => p.targets = Rungs

\* Open, it has lots, a rung that sells the last, and one lot less for each rung.
Sellable(l, p) ==
    p.status = "OPEN" =>
        /\ p.remaining > 0
        /\ p.targets # <<>> => p.hits < Len(p.targets)
        /\ l.own => p.remaining = Lots - p.hits

Claimed(l, p) ==
    l.own => /\ p.optionSl >= p.ratchetSl
             /\ p.hits >= 1 => p.ratchetSl >= Ground(p)

Sound(l, p) ==
    /\ p \in PositionState
    /\ OnLadder(l, p) /\ Sellable(l, p) /\ Claimed(l, p)

Rules == {"none", "gap", "restart", "collapse", "line", "equity", "sustained", "touch",
          "gave back", "rung", "target", "backstop"}

TypeOK ==
    /\ lim \in Policies
    /\ pos \in PositionState /\ row \in PositionState
    /\ print \in Nat /\ restarts \in 0..MaxRestarts
    /\ said \in Rules
    /\ watch \in [calm : Nat, agreed : Nat]

\* A base book that waited has its breakeven.
Breakevens == pos.hits >= 1 /\ ~lim.own /\ said = "none" => pos.optionSl >= Entry

\* The breach is younger than the last recovery, and no row has one.
Breaches ==
    /\ row.breach = Off
    /\ lim.own /\ pos.breach # Off => pos.breach < watch.calm

\* Forced reads in a row that nothing was decided at are reads of one breach.
Agreed ==
    watch.agreed > 0 =>
        /\ lim.own /\ pos.breach # Off
        /\ watch.agreed <= pos.breach + 1 /\ watch.agreed <= lim.sustain

IInv ==
    /\ TypeOK
    /\ Sound(lim, pos) /\ Sound(lim, row)
    /\ Breakevens /\ Breaches /\ Agreed
    /\ said = "sustained" => watch.calm > lim.sustain

-----------------------------------------------------------------------------
(* The numbers *)

LEMMA LargerInt ==
  ASSUME NEW a \in Nat, NEW b \in Int
  PROVE  Larger(a, b) \in Nat /\ Larger(a, b) >= a /\ Larger(a, b) >= b
  BY DEF Larger

LEMMA LargerNat ==
  ASSUME NEW a \in Nat, NEW b \in Nat
  PROVE  Larger(a, b) \in Nat /\ Larger(a, b) >= a /\ Larger(a, b) >= b
  BY DEF Larger

LEMMA SmallerNat ==
  ASSUME NEW a \in Nat, NEW b \in Nat
  PROVE  Smaller(a, b) \in Nat /\ Smaller(a, b) <= a /\ Smaller(a, b) <= b
  BY DEF Smaller

LEMMA PerCentInt == ASSUME NEW n \in Int PROVE PerCent(n) \in Int
  BY DEF PerCent

LEMMA PolicyOf ==
  ASSUME lim \in Policies
  PROVE  /\ lim.own \in BOOLEAN /\ lim.sustain \in Nat /\ lim.dwell \in Nat
         /\ lim.own => lim.sustain > 0
  BY LadderAssumptions DEF Policy

LEMMA ViewOf ==
  ASSUME NEW v \in Views
  PROVE  /\ v.ltp \in Nat /\ v.mid \in Nat /\ v.give \in Nat
         /\ v.projected # Off => v.projected \in Nat
<1>1. v \in View
  BY LadderAssumptions
<1>2. v.ltp \in Nat \ {0} /\ v.mid \in Nat \ {0} /\ v.give \in 0..100
      /\ v.projected \in Nat \cup {Off}
  BY <1>1 DEF View
<1> QED
  BY <1>2

LEMMA StateOf ==
  ASSUME NEW p \in PositionState
  PROVE  /\ p.remaining \in Nat /\ p.hits \in Nat /\ p.targets \in Seq(Nat) /\ p.t1 \in Nat
         /\ p.optionSl \in Nat /\ p.ratchetSl \in Nat /\ p.peak \in Nat
         /\ p.breach \in Clocks /\ p.line \in Clocks /\ p.touch \in Clocks
         /\ p.peakMid \in Nat /\ p.dwell \in Nat /\ p.sustained \in Nat
  BY DEF PositionState

\* A clock goes on, and no further than the sustain.
LEMMA ClockOf ==
  ASSUME lim \in Policies, NEW age \in Clocks
  PROVE  /\ Older(age) \in Clocks /\ Started(age) \in Clocks
         /\ Older(age) = Off <=> age = Off
         /\ age # Off => Older(age) <= age + 1 /\ Older(age) <= lim.sustain
         /\ age # Off /\ Older(age) < lim.sustain => Older(age) = age + 1
         /\ Started(age) = IF age = Off THEN 0 ELSE age
         /\ Started(age) # Off
  BY PolicyOf DEF Older, Started, Clocks, Off, Smaller

-----------------------------------------------------------------------------
(* What each helper of evaluate keeps *)

\* What the ladder and the staircase are about.
SameLadder(p, q) ==
    /\ q.remaining = p.remaining /\ q.hits = p.hits /\ q.status = p.status
    /\ q.targets = p.targets /\ q.t1 = p.t1

\* A change that leaves the ladder alone and raises the stop with its floor.
LEMMA SoundSame ==
  ASSUME NEW l, NEW p, Sound(l, p), NEW q \in PositionState, SameLadder(p, q),
         l.own => q.optionSl >= q.ratchetSl /\ q.ratchetSl >= p.ratchetSl
  PROVE  Sound(l, q)
<1>1. Ground(q) = Ground(p)
  BY DEF Ground, SameLadder
<1>2. OnLadder(l, q) /\ Sellable(l, q)
  BY DEF Sound, OnLadder, Sellable, SameLadder
<1>3. Claimed(l, q)
  <2>1. l.own /\ p.hits >= 1 => p.ratchetSl >= Ground(p) /\ p.hits - 1 \in Nat /\ Ground(p) \in Nat
    <3>1. ASSUME p.hits > 1 PROVE p.targets[p.hits - 1] \in Nat
      <4>1. p.hits \in Nat /\ p.targets \in Seq(Nat) /\ p.hits <= Len(p.targets)
        BY StateOf DEF Sound, OnLadder
      <4>2. p.hits - 1 \in 1..Len(p.targets)
        BY <3>1, <4>1
      <4> QED
        BY <4>1, <4>2
    <3> QED
      BY <3>1, StateOf, LadderAssumptions DEF Sound, Claimed, Ground
  <2>2. q.hits = p.hits /\ q.ratchetSl \in Nat /\ p.ratchetSl \in Nat
    BY StateOf DEF Sound, SameLadder
  <2> QED
    BY <1>1, <2>1, <2>2 DEF Claimed
<1> QED
  BY <1>2, <1>3 DEF Sound

LEMMA AgedSound ==
  ASSUME lim \in Policies, NEW p, Sound(lim, p)
  PROVE  /\ Sound(lim, Aged(p)) /\ SameLadder(p, Aged(p))
         /\ Aged(p).breach = Older(p.breach) /\ Aged(p).optionSl = p.optionSl
<1>1. p \in PositionState
  BY DEF Sound
<1>2. /\ Older(p.breach) \in Clocks /\ Older(p.line) \in Clocks /\ Older(p.touch) \in Clocks
  BY <1>1, StateOf, ClockOf
<1>3. Aged(p) \in PositionState
  BY <1>1, <1>2 DEF Aged, PositionState
<1>4. /\ SameLadder(p, Aged(p)) /\ Aged(p).breach = Older(p.breach)
      /\ Aged(p).optionSl = p.optionSl /\ Aged(p).ratchetSl = p.ratchetSl
  BY <1>1 DEF Aged, PositionState, SameLadder
<1>5. Sound(lim, Aged(p))
  BY <1>1, <1>3, <1>4, StateOf, SoundSame DEF Sound, Claimed
<1> QED
  BY <1>4, <1>5

\* _track, _reproject_stop and the mark: the stop is never put under its floor.
LEMMA PreparedSound ==
  ASSUME lim \in Policies, Sound(lim, pos), NEW v \in Views
  PROVE  /\ Sound(lim, Prepared(v)) /\ SameLadder(pos, Prepared(v))
         /\ Prepared(v).breach = Older(pos.breach)
<1> DEFINE a == Aged(pos)
           t == Tracked(a, v)
           r == Reprojected(t, v)
           m == Marked(r, v)
<1>1. /\ Sound(lim, a) /\ SameLadder(pos, a) /\ a \in PositionState
      /\ a.breach = Older(pos.breach)
  BY AgedSound DEF Sound
<1> HIDE DEF a
<1>2. /\ t \in PositionState /\ SameLadder(pos, t) /\ t.breach = a.breach
      /\ t.optionSl = a.optionSl /\ t.ratchetSl = a.ratchetSl
  <2>1. Larger(a.peak, v.ltp) \in Nat
    BY <1>1, StateOf, ViewOf, LargerNat
  <2> QED
    BY <1>1, <2>1 DEF Tracked, PositionState, SameLadder
<1> HIDE DEF t
<1>3. /\ r \in PositionState /\ SameLadder(pos, r) /\ r.breach = a.breach
      /\ r.ratchetSl = a.ratchetSl /\ (r.optionSl = a.optionSl \/ r.optionSl >= r.ratchetSl)
  <2>1. v.projected # Off => /\ Larger(v.projected, t.ratchetSl) \in Nat
                             /\ Larger(v.projected, t.ratchetSl) >= t.ratchetSl
    BY <1>2, StateOf, ViewOf, LargerNat
  <2> QED
    BY <1>2, <2>1 DEF Reprojected, PositionState, SameLadder
<1> HIDE DEF r
<1>4. /\ m \in PositionState /\ SameLadder(pos, m) /\ m.breach = a.breach
      /\ m.ratchetSl = r.ratchetSl /\ m.optionSl = r.optionSl
  <2>1. Larger(r.peakMid, v.mid) \in Nat
    BY <1>3, StateOf, ViewOf, LargerNat
  <2> QED
    BY <1>3, <2>1 DEF Marked, PositionState, SameLadder
<1>5. m = Prepared(v)
  BY DEF Prepared, m, r, t, a
<1> HIDE DEF m
<1>6. SameLadder(a, m)
  BY <1>1, <1>4 DEF SameLadder
<1>7. lim.own => m.optionSl >= m.ratchetSl /\ m.ratchetSl >= a.ratchetSl
  BY <1>1, <1>3, <1>4, StateOf DEF Sound, Claimed
<1>8. Sound(lim, m)
  BY <1>1, <1>4, <1>6, <1>7, SoundSame
<1> QED
  BY <1>1, <1>4, <1>5, <1>8

\* The clocks of the stops move nothing else.
LEMMA AtLineSound ==
  ASSUME lim \in Policies, NEW p, Sound(lim, p), NEW v \in Views
  PROVE  /\ Sound(lim, AtLine(p, v)) /\ SameLadder(p, AtLine(p, v))
         /\ AtLine(p, v).breach = p.breach /\ AtLine(p, v).optionSl = p.optionSl
<1> DEFINE q == AtLine(p, v)
<1>1. p \in PositionState
  BY DEF Sound
<1>2. Started(p.line) \in Clocks /\ Smaller(p.dwell + 1, lim.dwell) \in Nat /\ Off \in Clocks
  <2>1. p.line \in Clocks /\ p.dwell + 1 \in Nat /\ lim.dwell \in Nat
    BY <1>1, StateOf, PolicyOf
  <2>2. Started(p.line) \in Clocks
    BY <2>1, ClockOf
  <2> QED
    BY <2>1, <2>2, SmallerNat DEF Clocks
<1>3. /\ q \in PositionState /\ SameLadder(p, q) /\ q.breach = p.breach
      /\ q.optionSl = p.optionSl /\ q.ratchetSl = p.ratchetSl
  <2>1. CASE ~lim.own \/ ~Fresh(v)
    BY <1>1, <2>1 DEF AtLine, SameLadder
  <2>2. CASE lim.own /\ Fresh(v) /\ ~Through(p, v)
    BY <1>1, <1>2, <2>2 DEF AtLine, SameLadder, PositionState
  <2>3. CASE lim.own /\ Fresh(v) /\ Through(p, v)
    <3> DEFINE d == IF LineMode(p, v) = "dwell" THEN Smaller(p.dwell + 1, lim.dwell) ELSE p.dwell
               e == IF LineMode(p, v) = "sustain" THEN Started(p.line) ELSE p.line
    <3>1. d \in Nat /\ e \in Clocks
      BY <1>1, <1>2, StateOf
    <3>2. q = [p EXCEPT !.dwell = d, !.line = e]
      BY <2>3 DEF AtLine
    <3> HIDE DEF d, e, q
    <3> QED
      BY <1>1, <3>1, <3>2 DEF SameLadder, PositionState
  <2> QED
    BY <2>1, <2>2, <2>3, PolicyOf
<1> HIDE DEF q
<1>4. Sound(lim, q)
  BY <1>1, <1>3, StateOf, SoundSame DEF Sound, Claimed
<1> QED
  BY <1>3, <1>4 DEF q

LEMMA AtStopSound ==
  ASSUME lim \in Policies, NEW p, Sound(lim, p), NEW v \in Views
  PROVE  /\ Sound(lim, AtStop(p, v)) /\ SameLadder(p, AtStop(p, v))
         /\ AtStop(p, v).optionSl = p.optionSl
         /\ AtStop(p, v).breach = IF lim.own /\ Fresh(v)
                                  THEN IF Breached(p, v) THEN Started(p.breach) ELSE Off
                                  ELSE p.breach
<1> DEFINE q == AtStop(p, v)
<1>1. p \in PositionState
  BY DEF Sound
<1>2. Started(p.breach) \in Clocks /\ Off \in Clocks
  BY <1>1, StateOf, ClockOf DEF Clocks
<1>3. /\ q \in PositionState /\ SameLadder(p, q)
      /\ q.optionSl = p.optionSl /\ q.ratchetSl = p.ratchetSl
      /\ q.breach = IF lim.own /\ Fresh(v)
                    THEN IF Breached(p, v) THEN Started(p.breach) ELSE Off
                    ELSE p.breach
  BY <1>1, <1>2 DEF AtStop, SameLadder, PositionState
<1> HIDE DEF q
<1>4. Sound(lim, q)
  BY <1>1, <1>3, StateOf, SoundSame DEF Sound, Claimed
<1> QED
  BY <1>3, <1>4 DEF q

\* The base books' trail: once a rung is sold the stop is at entry or over it.
LEMMA TrailedSound ==
  ASSUME lim \in Policies, NEW p, Sound(lim, p), NEW v \in Views
  PROVE  /\ Sound(lim, Trailed(p, v)) /\ SameLadder(p, Trailed(p, v))
         /\ Trailed(p, v).breach = p.breach
         /\ ~lim.own /\ p.hits >= 1 => Trailed(p, v).optionSl >= Entry
<1> DEFINE q == Trailed(p, v)
           b == Breakeven(p)
           t == Trail(p, v)
<1>1. p \in PositionState
  BY DEF Sound
<1>2. CASE lim.own
  BY <1>1, <1>2 DEF Trailed, SameLadder
<1>3. CASE ~lim.own
  <2>1. b \in Nat /\ (p.hits >= 1 => b = Entry)
    BY LadderAssumptions DEF Breakeven
  <2>2. t \in Int
    <3>0. GiveBackPct \in 0..100
      BY LadderAssumptions
    <3>1. p.peak \in Nat /\ Entry \in Nat /\ GiveBackPct \in Nat
      BY <1>1, <3>0, StateOf, LadderAssumptions
    <3>2. 100 * p.peak - (p.peak - Entry) * GiveBackPct \in Int
      BY <3>1
    <3> QED
      BY <3>2, PerCentInt DEF Trail
  <2> HIDE DEF b, t
  <2>3. Larger(b, t) \in Nat /\ Larger(b, t) >= b
    BY <2>1, <2>2, LargerInt
  <2>4. Larger(p.optionSl, Larger(b, t)) \in Nat /\ Larger(p.optionSl, Larger(b, t)) >= Larger(b, t)
    BY <1>1, <2>3, StateOf, LargerNat
  <2>5. q = [p EXCEPT !.optionSl = Larger(p.optionSl, Larger(b, t))]
    BY <1>3 DEF Trailed, b, t
  <2> HIDE DEF q
  <2>6. /\ q \in PositionState /\ SameLadder(p, q) /\ q.breach = p.breach
        /\ q.optionSl = Larger(p.optionSl, Larger(b, t))
    BY <1>1, <2>4, <2>5 DEF PositionState, SameLadder
  <2>7. p.hits >= 1 => q.optionSl >= Entry
    BY <2>1, <2>3, <2>4, <2>6, LadderAssumptions
  <2>8. Sound(lim, q)
    BY <1>3, <2>6, SoundSame
  <2> QED
    BY <1>3, <2>6, <2>7, <2>8 DEF q
<1> QED
  BY <1>2, <1>3, PolicyOf

-----------------------------------------------------------------------------
(* Rungs *)

\* A position on its ladder, with a rung still to sell.
OnRung(p) == p.hits < Len(p.targets)

LEMMA RungOf ==
  ASSUME NEW l, NEW p, Sound(l, p)
  PROVE  /\ p.hits \in Nat /\ Len(p.targets) \in Nat
         /\ p.hits >= 1 => p.targets[p.hits] \in Nat
         /\ OnRung(p) => p.targets[p.hits + 1] \in Nat
  BY StateOf DEF Sound, OnLadder, OnRung

LEMMA ClaimSound ==
  ASSUME lim \in Policies, NEW p, Sound(lim, p), NEW level \in Nat
  PROVE  /\ Sound(lim, Claim(p, level)) /\ SameLadder(p, Claim(p, level))
         /\ Claim(p, level).breach = p.breach /\ Claim(p, level).ratchetSl >= level
<1> DEFINE q == Claim(p, level)
           r == Larger(p.ratchetSl, level)
           o == Larger(p.optionSl, r)
<1>1. p \in PositionState
  BY DEF Sound
<1>2. r \in Nat /\ r >= level /\ r >= p.ratchetSl
  BY <1>1, StateOf, LargerNat
<1> HIDE DEF r
<1>3. o \in Nat /\ o >= r
  BY <1>1, <1>2, StateOf, LargerNat
<1> HIDE DEF o
<1>4. q = [p EXCEPT !.ratchetSl = r, !.optionSl = o]
  BY <1>1 DEF Claim, r, o, PositionState
<1> HIDE DEF q
<1>5. /\ q \in PositionState /\ SameLadder(p, q) /\ q.breach = p.breach
      /\ q.ratchetSl = r /\ q.optionSl = o
  BY <1>1, <1>2, <1>3, <1>4 DEF PositionState, SameLadder
<1>6. Sound(lim, q)
  BY <1>2, <1>3, <1>5, SoundSame
<1> QED
  BY <1>2, <1>5, <1>6 DEF q

LEMMA ArmSound ==
  ASSUME lim \in Policies, NEW p, Sound(lim, p), NEW v \in Views
  PROVE  /\ Sound(lim, Arm(p, v)) /\ SameLadder(p, Arm(p, v))
         /\ Arm(p, v).breach = p.breach /\ Arm(p, v).ratchetSl = p.ratchetSl
<1> DEFINE q == Arm(p, v)
<1>1. p \in PositionState
  BY DEF Sound
<1>2. Larger(p.peakMid, v.mid) \in Nat
  BY <1>1, StateOf, ViewOf, LargerNat
<1>3. /\ q \in PositionState /\ SameLadder(p, q) /\ q.breach = p.breach
      /\ q.ratchetSl = p.ratchetSl /\ q.optionSl = p.optionSl
  BY <1>1, <1>2 DEF Arm, PositionState, SameLadder
<1> HIDE DEF q
<1>4. Sound(lim, q)
  BY <1>1, <1>3, StateOf, SoundSame DEF Sound, Claimed
<1> QED
  BY <1>3, <1>4 DEF q

\* _sustain: a completed rung arms and claims, and sells nothing.
LEMMA AtRungSound ==
  ASSUME lim \in Policies, NEW p, Sound(lim, p), NEW v \in Views
  PROVE  /\ Sound(lim, AtRung(p, v)) /\ SameLadder(p, AtRung(p, v))
         /\ AtRung(p, v).breach = p.breach
<1> DEFINE s == SustainOf(p, v)
           stepped == IF lim.lag THEN s ELSE Claim(s, LastRung(s))
           armed == IF s.hits = 1 /\ ~s.armed THEN Arm(stepped, v) ELSE stepped
           c == Completed(s, v)
<1>1. SUFFICES ASSUME p.hits > p.sustained, AtRung(p, v) # p
               PROVE  /\ Sound(lim, s) /\ SameLadder(p, s) /\ s.breach = p.breach
                      /\ Sound(lim, c) /\ SameLadder(p, c) /\ c.breach = p.breach
  BY DEF AtRung, SameLadder
<1>2. p \in PositionState /\ p.hits \in Nat /\ p.sustained \in Nat
  BY StateOf DEF Sound
<1>3. p.hits >= 1 /\ LastRung(p) \in Nat
  BY <1>1, <1>2, RungOf DEF LastRung
<1>4. /\ s \in PositionState /\ SameLadder(p, s) /\ s.breach = p.breach
      /\ s.ratchetSl = p.ratchetSl /\ s.optionSl = p.optionSl
  <2>1. (IF v.mid >= LastRung(p) THEN Started(p.touch) ELSE Off) \in Clocks
    BY <1>2, StateOf, ClockOf DEF Clocks
  <2>2. (v.mid >= LastRung(p) /\ (p.closeOk \/ ClosedOver(v, LastRung(p)))) \in BOOLEAN
    OBVIOUS
  <2> QED
    BY <1>2, <2>1, <2>2 DEF SustainOf, PositionState, SameLadder
<1> HIDE DEF s
<1>5. Sound(lim, s)
  BY <1>2, <1>4, StateOf, SoundSame DEF Sound, Claimed
<1>6. LastRung(s) \in Nat
  BY <1>3, <1>4 DEF LastRung, SameLadder
<1>7. Sound(lim, stepped) /\ SameLadder(s, stepped) /\ stepped.breach = s.breach
  BY <1>5, <1>6, ClaimSound DEF SameLadder
<1> HIDE DEF stepped
<1>8. Sound(lim, armed) /\ SameLadder(s, armed) /\ armed.breach = s.breach
  BY <1>7, ArmSound DEF SameLadder
<1>9. c = [armed EXCEPT !.sustained = s.hits]
  BY DEF Completed, armed, stepped
<1> HIDE DEF armed, c
<1>10. armed \in PositionState /\ s.hits \in Nat
  BY <1>4, <1>8, StateOf DEF Sound
<1>11. /\ c \in PositionState /\ SameLadder(armed, c) /\ c.breach = armed.breach
       /\ c.ratchetSl = armed.ratchetSl /\ c.optionSl = armed.optionSl
  BY <1>9, <1>10 DEF PositionState, SameLadder
<1>12. Sound(lim, c)
  BY <1>8, <1>10, <1>11, StateOf, SoundSame DEF Sound, Claimed
<1> QED
  BY <1>4, <1>5, <1>8, <1>11, <1>12 DEF SameLadder

\* The ladder that starts at the price of the touch has a rung.
LEMMA LadderFromType ==
  ASSUME NEW p \in PositionState, NEW v \in Views
  PROVE  /\ LadderFrom(p, v).targets \in Seq(Nat) /\ Len(LadderFrom(p, v).targets) > 0
         /\ LadderFrom(p, v).t1 = v.ltp
<1> DEFINE n == Len(p.targets)
           reached == {i \in 1..n : p.targets[i] <= v.ltp}
           higher == SubSeq(p.targets, Cardinality(reached) + 1, n)
           ladder == <<v.ltp>> \o higher
<1>1. p.targets \in Seq(Nat) /\ n \in Nat /\ v.ltp \in Nat
  BY StateOf, ViewOf
<1>2. Cardinality(reached) \in Nat /\ Cardinality(reached) <= n
  <2>1. IsFiniteSet(1..n) /\ Cardinality(1..n) = n
    BY <1>1, FS_Interval
  <2> QED
    BY <2>1, FS_Subset, FS_CardinalityType
<1> HIDE DEF reached
<1>3. higher \in Seq(Nat)
  <2>1. \A i \in Cardinality(reached) + 1 .. n : i \in 1..n
    BY <1>1, <1>2
  <2> QED
    BY <1>1, <1>2, <2>1, SubSeqProperties
<1> HIDE DEF higher
<1>4. ladder \in Seq(Nat) /\ Len(ladder) \in Nat /\ Len(ladder) >= 1
  BY <1>1, <1>3
<1> HIDE DEF ladder
<1>5. Smaller(4, Len(ladder)) \in Nat /\ Smaller(4, Len(ladder)) <= Len(ladder)
      /\ Smaller(4, Len(ladder)) >= 1
  BY <1>4 DEF Smaller
<1>6. /\ SubSeq(ladder, 1, Smaller(4, Len(ladder))) \in Seq(Nat)
      /\ Len(SubSeq(ladder, 1, Smaller(4, Len(ladder)))) >= 1
  <2>1. \A i \in 1 .. Smaller(4, Len(ladder)) : i \in 1..Len(ladder)
    BY <1>4, <1>5
  <2> QED
    BY <1>4, <1>5, <2>1, SubSeqProperties
<1>7. LadderFrom(p, v) = [p EXCEPT !.targets = SubSeq(ladder, 1, Smaller(4, Len(ladder))),
                                   !.t1 = v.ltp]
  BY DEF LadderFrom, ladder, higher, reached
<1> DEFINE w == SubSeq(ladder, 1, Smaller(4, Len(ladder)))
<1>8. w \in Seq(Nat) /\ Len(w) > 0
  <2>1. Len(w) \in Nat
    BY <1>6, LenProperties
  <2> QED
    BY <1>6, <2>1
<1>9. LadderFrom(p, v) = [p EXCEPT !.targets = w, !.t1 = v.ltp]
  BY <1>7
<1> HIDE DEF w
<1> QED
  BY <1>8, <1>9 DEF PositionState

\* Before a rung is sold the ladder may be replaced.
LEMMA LadderFromSound ==
  ASSUME lim \in Policies, lim.own, NEW p, Sound(lim, p), p.hits = 0, NEW v \in Views
  PROVE  /\ Sound(lim, LadderFrom(p, v)) /\ OnRung(LadderFrom(p, v))
         /\ LadderFrom(p, v).breach = p.breach /\ LadderFrom(p, v).status = p.status
<1> DEFINE q == LadderFrom(p, v)
<1>1. p \in PositionState
  BY DEF Sound
<1>2. q.targets \in Seq(Nat) /\ Len(q.targets) > 0 /\ q.t1 \in Nat
  BY <1>1, LadderFromType, ViewOf
<1>3. /\ q \in PositionState /\ q.remaining = p.remaining /\ q.hits = p.hits
      /\ q.status = p.status /\ q.breach = p.breach
      /\ q.ratchetSl = p.ratchetSl /\ q.optionSl = p.optionSl
  <2>1. \E t, u : q = [p EXCEPT !.targets = t, !.t1 = u]
    BY DEF LadderFrom
  <2> HIDE DEF q
  <2> QED
    BY <1>1, <1>2, <2>1 DEF PositionState
<1> HIDE DEF q
<1>4. Len(q.targets) \in Nat
  BY <1>2
<1>5. OnLadder(lim, q) /\ Sellable(lim, q) /\ Claimed(lim, q)
  BY <1>2, <1>3, <1>4 DEF Sound, OnLadder, Sellable, Claimed
<1> QED
  BY <1>2, <1>3, <1>4, <1>5 DEF Sound, OnRung, q

\* _touch: the floor is the rung below the one touched before anything is sold.
LEMMA AfterTouchSound ==
  ASSUME lim \in Policies, NEW p, Sound(lim, p), OnRung(p), NEW v \in Views,
         NEW by \in {"equity", "option"}
  PROVE  /\ Sound(lim, AfterTouch(p, by, v)) /\ SameLadder(p, AfterTouch(p, by, v))
         /\ AfterTouch(p, by, v).breach = p.breach
         /\ AfterTouch(p, by, v).ratchetSl >= TouchFloor(p)
<1> DEFINE c == Claim(p, TouchFloor(p))
           n == [c EXCEPT !.armedBy = by]
           t == TouchArms(c, by, v)
           q == AfterTouch(p, by, v)
           s == IF v.mid >= p.targets[p.hits + 1] THEN 0 ELSE Off
<1>1. TouchFloor(p) \in Nat
  BY RungOf, LadderAssumptions DEF TouchFloor
<1>2. /\ Sound(lim, c) /\ SameLadder(p, c) /\ c.breach = p.breach
      /\ c.ratchetSl >= TouchFloor(p)
  BY <1>1, ClaimSound
<1> HIDE DEF c
<1>3. c \in PositionState /\ Off \in Clocks /\ 0 \in Clocks
  BY <1>2 DEF Sound, Clocks
<1>4. /\ n \in PositionState /\ SameLadder(c, n) /\ n.breach = c.breach
      /\ n.ratchetSl = c.ratchetSl /\ n.optionSl = c.optionSl
  BY <1>3 DEF PositionState, SameLadder
<1>5. Sound(lim, n)
  <2> HIDE DEF n
  <2> QED
    BY <1>2, <1>3, <1>4, StateOf, SoundSame DEF Sound, Claimed
<1>6. t \in {c, n, Arm(n, v)}
  BY DEF TouchArms
<1> HIDE DEF n, t
<1>7. /\ Sound(lim, t) /\ SameLadder(c, t) /\ t.breach = c.breach
      /\ t.ratchetSl = c.ratchetSl
  BY <1>2, <1>4, <1>5, <1>6, ArmSound DEF SameLadder
<1>8. t \in PositionState /\ s \in Clocks
  BY <1>3, <1>7 DEF Sound
<1>9. q = [t EXCEPT !.touch = s, !.closeOk = FALSE]
  BY DEF AfterTouch, t, c
<1> HIDE DEF q, s
<1>10. /\ q \in PositionState /\ SameLadder(t, q) /\ q.breach = t.breach
       /\ q.ratchetSl = t.ratchetSl /\ q.optionSl = t.optionSl
  BY <1>8, <1>9 DEF PositionState, SameLadder
<1>11. Sound(lim, q)
  BY <1>7, <1>8, <1>10, StateOf, SoundSame DEF Sound, Claimed
<1> QED
  BY <1>2, <1>7, <1>10, <1>11 DEF SameLadder, q

-----------------------------------------------------------------------------
(* Exits *)

LEMMA SerialisedSound ==
  ASSUME NEW l, NEW p, Sound(l, p)
  PROVE  Sound(l, Serialised(p)) /\ Serialised(p).breach = Off
<1> DEFINE q == Serialised(p)
<1>1. p \in PositionState /\ Off \in Clocks
  BY DEF Sound, Clocks
<1>2. /\ q \in PositionState /\ SameLadder(p, q) /\ q.breach = Off
      /\ q.ratchetSl = p.ratchetSl /\ q.optionSl = p.optionSl
  BY <1>1 DEF Serialised, PositionState, SameLadder
<1> HIDE DEF q
<1>3. Sound(l, q)
  BY <1>1, <1>2, StateOf, SoundSame DEF Sound, Claimed
<1> QED
  BY <1>2, <1>3 DEF q

\* What apply_exit leaves of a position.
LEMMA AfterExitIs ==
  ASSUME NEW p \in PositionState, NEW reason, NEW qty \in Nat
  PROVE  LET q == AfterExit(p, reason, qty)
         IN  /\ q \in PositionState
             /\ q.remaining = p.remaining - Smaller(qty, p.remaining)
             /\ q.hits = IF reason = "TARGET" THEN p.hits + 1 ELSE p.hits
             /\ q.status = IF q.remaining = 0 THEN "CLOSED" ELSE p.status
             /\ q.targets = p.targets /\ q.t1 = p.t1 /\ q.breach = p.breach
             /\ q.ratchetSl = p.ratchetSl /\ q.optionSl = p.optionSl
<1> DEFINE left == p.remaining - Smaller(qty, p.remaining)
           more == IF reason = "TARGET" THEN p.hits + 1 ELSE p.hits
           stat == IF left = 0 THEN "CLOSED" ELSE p.status
           q == AfterExit(p, reason, qty)
<1>1. left \in Nat /\ more \in Nat /\ stat \in {"OPEN", "CLOSED"}
  <2>1. p.remaining \in Nat /\ p.hits \in Nat
    BY StateOf
  <2>2. Smaller(qty, p.remaining) \in Nat /\ Smaller(qty, p.remaining) <= p.remaining
    BY <2>1, SmallerNat
  <2>3. p.status \in {"OPEN", "CLOSED"}
    BY DEF PositionState
  <2>4. left \in Nat
    BY <2>1, <2>2
  <2>5. more \in Nat
    BY <2>1
  <2> QED
    BY <2>3, <2>4, <2>5
<1>2. q = [p EXCEPT !.remaining = left, !.hits = more, !.status = stat]
  BY DEF AfterExit
<1> HIDE DEF left, more, stat, q
<1>3. /\ q \in PositionState /\ q.remaining = left /\ q.hits = more /\ q.status = stat
      /\ q.targets = p.targets /\ q.t1 = p.t1 /\ q.breach = p.breach
      /\ q.ratchetSl = p.ratchetSl /\ q.optionSl = p.optionSl
  BY <1>1, <1>2 DEF PositionState
<1> QED
  BY <1>3 DEF left, more, stat, q

\* Selling the rest closes the position, whatever the reason.
LEMMA AllSound ==
  ASSUME NEW l, NEW p, Sound(l, p), NEW reason, reason # "TARGET"
  PROVE  LET q == AfterExit(p, reason, p.remaining)
         IN  Sound(l, q) /\ q.breach = p.breach
<1> DEFINE q == AfterExit(p, reason, p.remaining)
<1>1. p \in PositionState /\ p.remaining \in Nat
  BY StateOf DEF Sound
<1>2. p.remaining - Smaller(p.remaining, p.remaining) = 0
  BY <1>1 DEF Smaller
<1>3. /\ q \in PositionState /\ q.hits = p.hits /\ q.status = "CLOSED"
      /\ q.targets = p.targets /\ q.t1 = p.t1 /\ q.breach = p.breach
      /\ q.ratchetSl = p.ratchetSl /\ q.optionSl = p.optionSl
  BY <1>1, <1>2, AfterExitIs
<1> HIDE DEF q
<1>4. Ground(q) = Ground(p)
  BY <1>3 DEF Ground
<1>5. OnLadder(l, q) /\ Sellable(l, q) /\ Claimed(l, q)
  BY <1>3, <1>4 DEF Sound, OnLadder, Sellable, Claimed
<1> QED
  BY <1>3, <1>5 DEF Sound, q

\* A rung sold: the next one is left, with lots for it, or nothing is.
LEMMA RungSold ==
  ASSUME NEW l, NEW p, Sound(l, p), p.status = "OPEN", OnRung(p), NEW qty \in Nat,
         qty > 0,
         p.hits >= Len(p.targets) - 1 => qty = p.remaining,
         l.own => /\ p.ratchetSl >= TouchFloor(p)
                  /\ qty = p.remaining \/ qty = 1
  PROVE  LET q == AfterExit(p, "TARGET", qty)
         IN  Sound(l, q) /\ q.breach = p.breach
<1> DEFINE q == AfterExit(p, "TARGET", qty)
<1>1. p \in PositionState /\ p.remaining \in Nat /\ p.hits \in Nat /\ Len(p.targets) \in Nat
  BY StateOf, RungOf DEF Sound
<1>2. /\ q \in PositionState /\ q.remaining = p.remaining - Smaller(qty, p.remaining)
      /\ q.hits = p.hits + 1 /\ q.status = IF q.remaining = 0 THEN "CLOSED" ELSE "OPEN"
      /\ q.targets = p.targets /\ q.t1 = p.t1 /\ q.breach = p.breach
      /\ q.ratchetSl = p.ratchetSl /\ q.optionSl = p.optionSl
  BY <1>1, AfterExitIs
<1> HIDE DEF q
<1>3. OnLadder(l, q)
  BY <1>1, <1>2 DEF Sound, OnLadder, OnRung
<1>4. Sellable(l, q)
  <2>1. SUFFICES ASSUME q.status = "OPEN"
                 PROVE  /\ q.remaining > 0 /\ q.hits < Len(q.targets)
                        /\ l.own => q.remaining = Lots - q.hits
    BY DEF Sellable
  <2>2. q.remaining # 0 /\ q.remaining \in Nat
    BY <1>2, <2>1, StateOf
  <2>3. qty < p.remaining /\ q.remaining = p.remaining - qty
    BY <1>1, <1>2, <2>2 DEF Smaller
  <2>4. p.hits < Len(p.targets) - 1
    BY <1>1, <2>3
  <2>5. l.own => p.remaining = Lots - p.hits
    BY DEF Sound, Sellable
  <2>6. q.remaining > 0 /\ q.hits < Len(q.targets)
    BY <1>1, <1>2, <2>2, <2>4
  <2>7. l.own => qty = 1
    BY <2>3
  <2> QED
    BY <1>1, <1>2, <2>3, <2>5, <2>6, <2>7, LadderAssumptions
<1>5. Claimed(l, q)
  <2>1. SUFFICES ASSUME l.own
                 PROVE  q.optionSl >= q.ratchetSl /\ q.ratchetSl >= Ground(q)
    BY DEF Claimed
  <2>2. Ground(q) = TouchFloor(p)
    BY <1>1, <1>2 DEF Ground, TouchFloor
  <2> QED
    BY <1>2, <2>1, <2>2 DEF Sound, Claimed
<1> QED
  BY <1>2, <1>3, <1>4, <1>5 DEF Sound, q

\* The position's row: as it was, or what has just been written.
RowKept == Sound(lim, row) /\ row.breach = Off

\* An exit that may be refused keeps the ladder if the sold position does.
LEMMA DecideKeeps ==
  ASSUME lim \in Policies, RowKept, NEW rule, NEW p, Sound(lim, p), NEW reason, NEW qty,
         Sound(lim, AfterExit(p, reason, qty)),
         AfterExit(p, reason, qty).breach = p.breach,
         Decide(rule, p, reason, qty)
  PROVE  /\ Sound(lim, pos') /\ Sound(lim, row') /\ row'.breach = Off
         /\ pos'.breach = p.breach /\ said' = rule
<1>1. Sound(lim, Aged(row)) /\ Aged(row).breach = Off
  <2>1. row.breach \in Clocks
    BY StateOf DEF RowKept, Sound
  <2> QED
    BY <2>1, AgedSound, ClockOf DEF RowKept
<1> QED
  BY <1>1, SerialisedSound DEF Decide

LEMMA AllKeeps ==
  ASSUME lim \in Policies, RowKept, NEW rule, NEW p, Sound(lim, p), NEW reason,
         reason # "TARGET", All(rule, p, reason)
  PROVE  /\ Sound(lim, pos') /\ Sound(lim, row') /\ row'.breach = Off
         /\ pos'.breach = p.breach /\ said' = rule
  BY AllSound, DecideKeeps DEF All

LEMMA WaitKeeps ==
  ASSUME lim \in Policies, RowKept, NEW p, Sound(lim, p), Wait(p)
  PROVE  /\ Sound(lim, pos') /\ Sound(lim, row') /\ row'.breach = Off
         /\ pos' = p /\ said' = "none"
<1>1. row.breach \in Clocks
  BY StateOf DEF RowKept, Sound
<1> QED
  BY <1>1, AgedSound, ClockOf DEF RowKept, Wait

-----------------------------------------------------------------------------
(* One read *)

\* The breach's clock after a read that got as far as _sustained_option_stop.
BreachAt(p, v) ==
    IF Fresh(v) THEN IF Breached(p, v) THEN Started(p.breach) ELSE Off ELSE p.breach

\* What the promises need to know of a read.
Outcome(p, v) ==
    /\ Sound(lim, pos') /\ Sound(lim, row') /\ row'.breach = Off
    /\ said' \in Rules \ {"gap", "restart"}
    /\ ~lim.own => said' # "sustained"
    /\ ~lim.own /\ said' = "none" =>
        ~Forced(v) /\ (pos'.hits >= 1 => pos'.optionSl >= Entry)
    /\ lim.own => pos'.breach \in {p.breach, BreachAt(p, v)}
    /\ lim.own /\ said' \in {"none", "rung", "backstop"} => pos'.breach = BreachAt(p, v)
    /\ lim.own /\ said' = "sustained" => Sustained(p, v)
    /\ lim.own /\ said' = "none" /\ Forced(v) => ~Sustained(p, v) /\ Held(p, v)

LEMMA OwnExit ==
  ASSUME lim \in Policies, lim.own, RowKept, NEW p, NEW v,
         NEW rule \in {"collapse", "line", "equity", "sustained"},
         rule = "sustained" => Sustained(p, v),
         NEW q, Sound(lim, q), q.breach = p.breach \/ q.breach = BreachAt(p, v),
         NEW reason, reason # "TARGET", All(rule, q, reason)
  PROVE  Outcome(p, v)
<1>1. /\ Sound(lim, pos') /\ Sound(lim, row') /\ row'.breach = Off
      /\ pos'.breach = q.breach /\ said' = rule
  BY AllKeeps
<1>2. said' \in Rules \ {"gap", "restart"} /\ said' \notin {"none", "rung", "backstop"}
  BY <1>1 DEF Rules
<1> QED
  BY <1>1, <1>2 DEF Outcome

LEMMA StopsKeep ==
  ASSUME lim \in Policies, RowKept, NEW p, Sound(lim, p), NEW v \in Views,
         StopDecides(p, v)
  PROVE  Outcome(p, v)
<1> DEFINE l == AtLine(p, v)
           s == AtStop(l, v)
<1>1. lim.own /\ Stopped(p, v)
  BY DEF StopDecides, Stopped
<1>2. Sound(lim, l) /\ l.breach = p.breach /\ (Breached(l, v) <=> Breached(p, v))
  BY AtLineSound DEF Breached
<1>3. Sound(lim, s) /\ s.breach = BreachAt(p, v)
  BY <1>1, <1>2, AtStopSound DEF BreachAt
<1> HIDE DEF l, s
<1>4. CASE All("collapse", p, "SL_OP")
  BY <1>1, <1>4, OwnExit
<1>5. CASE LineBroken(p, v) /\ All("line", l, IF ByBand(p, v) THEN "TRAIL" ELSE "SL_OP")
  <2>1. (IF ByBand(p, v) THEN "TRAIL" ELSE "SL_OP") # "TARGET"
    OBVIOUS
  <2> QED
    BY <1>1, <1>2, <1>5, <2>1, OwnExit
<1>6. CASE All("equity", l, "SL_EQ")
  BY <1>1, <1>2, <1>6, OwnExit
<1>7. CASE Sustained(p, v) /\ All("sustained", s, "SL_OP")
  BY <1>1, <1>3, <1>7, OwnExit
<1> QED
  BY <1>1, <1>4, <1>5, <1>6, <1>7 DEF StopDecides, Stopped, l, s

\* A touch of the own ladder sells one lot, or the rest at the last rung.
LEMMA TouchKeeps ==
  ASSUME lim \in Policies, RowKept, NEW r, Sound(lim, r), r.status = "OPEN", NEW v \in Views,
         AnyTouch(r, v), Decide("rung", TouchedBy(r, v), "TARGET", Tranche(TouchedBy(r, v)))
  PROVE  /\ Sound(lim, pos') /\ Sound(lim, row') /\ row'.breach = Off
         /\ pos'.breach = r.breach /\ said' = "rung"
<1> DEFINE t == TouchedBy(r, v)
<1>1. lim.own
  BY DEF AnyTouch
<1>2. /\ Sound(lim, t) /\ t.breach = r.breach /\ OnRung(t) /\ t.status = "OPEN"
      /\ t.ratchetSl >= TouchFloor(t)
  <2>1. CASE EquityTouch(r, v)
    <3>1. r.hits = 0
      BY <2>1 DEF EquityTouch, Unarmed
    <3> DEFINE f == LadderFrom(r, v)
    <3>2. Sound(lim, f) /\ OnRung(f) /\ f.breach = r.breach /\ f.status = "OPEN"
      BY <1>1, <3>1, LadderFromSound
    <3> HIDE DEF f
    <3>3. t = AfterTouch(f, "equity", v)
      BY <2>1 DEF TouchedBy, f
    <3> HIDE DEF t
    <3>4. /\ Sound(lim, t) /\ SameLadder(f, t) /\ t.breach = f.breach
          /\ t.ratchetSl >= TouchFloor(f)
      BY <3>2, <3>3, AfterTouchSound
    <3> QED
      BY <3>2, <3>4 DEF SameLadder, OnRung, TouchFloor
  <2>2. CASE ~EquityTouch(r, v)
    <3>1. OnRung(r)
      <4>1. r.targets \in Seq(Nat) /\ r.t1 \in Nat /\ Len(r.targets) \in Nat
        BY StateOf DEF Sound
      <4>2. CASE CloseTouch(r, v)
        <5>0. r.hits = 0 /\ r.t1 > 0
          BY <4>2 DEF CloseTouch, Unarmed
        <5>1. r.targets # <<>>
          <6>1. r.targets = <<>> => r.t1 = 0
            BY DEF Sound, OnLadder
          <6> QED
            BY <4>1, <5>0, <6>1
        <5>2. Len(r.targets) # 0
          BY <4>1, <5>1, EmptySeq
        <5> QED
          BY <4>1, <5>0, <5>2 DEF OnRung
      <4>3. CASE RungTouch(r, v)
        BY <4>3 DEF RungTouch, OnRung
      <4> QED
        BY <2>2, <4>2, <4>3 DEF AnyTouch
    <3>2. t = AfterTouch(r, "option", v)
      BY <2>2 DEF TouchedBy
    <3> HIDE DEF t
    <3>3. /\ Sound(lim, t) /\ SameLadder(r, t) /\ t.breach = r.breach
          /\ t.ratchetSl >= TouchFloor(r)
      BY <3>1, <3>2, AfterTouchSound
    <3> QED
      BY <3>1, <3>3 DEF SameLadder, OnRung, TouchFloor
  <2> QED
    BY <2>1, <2>2
<1> HIDE DEF t
<1>3. t.remaining \in Nat /\ t.remaining > 0
  BY <1>2, StateOf DEF Sound, Sellable
<1>4. /\ Tranche(t) \in Nat /\ Tranche(t) > 0
      /\ t.hits >= Len(t.targets) - 1 => Tranche(t) = t.remaining
      /\ Tranche(t) = t.remaining \/ Tranche(t) = 1
  BY <1>3 DEF Tranche, Smaller
<1>5. LET q == AfterExit(t, "TARGET", Tranche(t))
      IN  Sound(lim, q) /\ q.breach = t.breach
  BY <1>2, <1>4, RungSold
<1>6. Decide("rung", t, "TARGET", Tranche(t))
  BY DEF t
<1> QED
  BY <1>2, <1>5, <1>6, DecideKeeps

LEMMA RestKeeps ==
  ASSUME lim \in Policies, RowKept, NEW s, Sound(lim, s), s.status = "OPEN", NEW v \in Views,
         Rest(s, v)
  PROVE  /\ Sound(lim, pos') /\ Sound(lim, row') /\ row'.breach = Off
         /\ pos'.breach = s.breach /\ said' \in {"none", "rung", "backstop"}
         /\ said' = "none" => ~Forced(v)
         /\ print' = v.ltp
<1> DEFINE r == AtRung(s, v)
<1>1. Sound(lim, r) /\ r.breach = s.breach /\ r.status = "OPEN"
  BY AtRungSound DEF SameLadder
<1> HIDE DEF r
<1>2. CASE AnyTouch(r, v) /\ Decide("rung", TouchedBy(r, v), "TARGET", Tranche(TouchedBy(r, v)))
  BY <1>1, <1>2, TouchKeeps DEF Rest
<1>3. CASE v.closing # "no" /\ All("backstop", r, v.closing)
  <2>1. v.closing # "TARGET"
    BY LadderAssumptions DEF View, Closings
  <2> QED
    BY <1>1, <1>3, <2>1, AllKeeps DEF Rest
<1>4. CASE v.closing = "no" /\ Wait(r)
  BY <1>1, <1>4, WaitKeeps DEF Rest, Forced
<1> QED
  BY <1>2, <1>3, <1>4 DEF Rest, r

\* The base books: a share of the lots at a target, the rest at the last.
LEMMA TargetSold ==
  ASSUME lim \in Policies, ~lim.own, NEW p, Sound(lim, p), p.status = "OPEN",
         p.hits < Len(p.targets)
  PROVE  LET q == AfterExit(p, "TARGET", LadderQty(p))
         IN  Sound(lim, q) /\ q.breach = p.breach
<1> DEFINE want == (Lots * Shares[p.hits + 1]) \div 100
           n == LadderQty(p)
<1>1. p.hits \in Nat /\ Len(p.targets) \in Nat /\ p.remaining \in Nat /\ p.remaining > 0
  BY StateOf, RungOf DEF Sound, Sellable
<1>2. want \in Nat
  <2>1. p.hits + 1 \in 1..Len(Shares) /\ Len(Rungs) \in Nat /\ Len(Shares) \in Nat
    <3>1. Len(Rungs) \in Nat /\ Len(Shares) \in Nat /\ Len(Rungs) <= Len(Shares)
      BY LadderAssumptions
    <3>2. p.targets = Rungs
      BY DEF Sound, OnLadder
    <3> QED
      BY <1>1, <3>1, <3>2
  <2>2. Shares[p.hits + 1] \in 1..100
    <3>1. Shares \in Seq(1..100)
      BY LadderAssumptions
    <3> QED
      BY <2>1, <3>1, ElementOfSeq
  <2>3. Lots \in Nat /\ Shares[p.hits + 1] \in Nat
    <3>1. Lots \in Nat
      BY LadderAssumptions
    <3>2. \A k \in 1..100 : k \in Nat
      OBVIOUS
    <3>3. Shares[p.hits + 1] \in Nat
      BY <2>2, <3>2
    <3> QED
      BY <3>1, <3>3
  <2>4. \A m \in Nat, k \in Nat : m * k \in Nat
    OBVIOUS
  <2>5. \A m \in Nat : m \div 100 \in Nat
    OBVIOUS
  <2> QED
    BY <2>3, <2>4, <2>5
<1>3. n = IF p.hits = Len(p.targets) - 1 \/ want = 0 THEN p.remaining
          ELSE Smaller(want, p.remaining)
  BY DEF LadderQty
<1> HIDE DEF want, n
<1>4. n \in Nat /\ n > 0 /\ (p.hits >= Len(p.targets) - 1 => n = p.remaining)
  BY <1>1, <1>2, <1>3 DEF Smaller
<1>5. OnRung(p)
  BY DEF OnRung
<1> QED
  BY <1>4, <1>5, RungSold DEF n

LEMMA BaseOutcome ==
  ASSUME ~lim.own, NEW p, NEW v,
         Sound(lim, pos'), Sound(lim, row'), row'.breach = Off,
         said' \in {"touch", "equity", "gave back", "target", "backstop"}
  PROVE  Outcome(p, v)
<1>1. said' \in Rules \ {"gap", "restart"} /\ said' \notin {"none", "sustained"}
  BY DEF Rules
<1> QED
  BY <1>1 DEF Outcome

LEMMA BaseKeeps ==
  ASSUME lim \in Policies, ~lim.own, RowKept, NEW p, Sound(lim, p), p.status = "OPEN",
         NEW v \in Views, BaseStopDecides(p, v) \/ BaseRest(p, v)
  PROVE  Outcome(p, v)
<1> DEFINE t == Trailed(p, v)
<1>1. /\ Sound(lim, t) /\ SameLadder(p, t) /\ (p.hits >= 1 => t.optionSl >= Entry)
  BY TrailedSound
<1> HIDE DEF t
<1>2. CASE BaseStopDecides(p, v)
  <2>1. \E rule \in {"touch", "equity", "gave back"}, reason \in {"SL_OP", "SL_EQ", "TRAIL"} :
            All(rule, p, reason)
    BY <1>2 DEF BaseStopDecides
  <2>2. PICK rule \in {"touch", "equity", "gave back"}, reason \in {"SL_OP", "SL_EQ", "TRAIL"} :
            All(rule, p, reason)
    BY <2>1
  <2>3. reason # "TARGET"
    OBVIOUS
  <2>4. /\ Sound(lim, pos') /\ Sound(lim, row') /\ row'.breach = Off /\ said' = rule
    BY <2>2, <2>3, AllKeeps
  <2> QED
    BY <2>4, BaseOutcome
<1>3. CASE TargetHit(p, v) /\ Decide("target", p, "TARGET", LadderQty(p))
  <2>1. p.hits < Len(p.targets)
    BY <1>3 DEF TargetHit
  <2>2. LET q == AfterExit(p, "TARGET", LadderQty(p))
        IN  Sound(lim, q) /\ q.breach = p.breach
    BY <2>1, TargetSold
  <2>3. /\ Sound(lim, pos') /\ Sound(lim, row') /\ row'.breach = Off /\ said' = "target"
    BY <1>3, <2>2, DecideKeeps
  <2> QED
    BY <2>3, BaseOutcome
<1>4. CASE All("backstop", t, v.closing)
  <2>1. v.closing # "TARGET"
    BY LadderAssumptions DEF View, Closings
  <2>2. /\ Sound(lim, pos') /\ Sound(lim, row') /\ row'.breach = Off /\ said' = "backstop"
    BY <1>1, <1>4, <2>1, AllKeeps
  <2> QED
    BY <2>2, BaseOutcome
<1>5. CASE v.closing = "no" /\ Wait(t)
  <2>1. /\ Sound(lim, pos') /\ Sound(lim, row') /\ row'.breach = Off
        /\ pos' = t /\ said' = "none"
    BY <1>1, <1>5, WaitKeeps
  <2>2. ~Forced(v) /\ (pos'.hits >= 1 => pos'.optionSl >= Entry)
    BY <1>1, <1>5, <2>1 DEF Forced, SameLadder
  <2>3. said' \in Rules \ {"gap", "restart"} /\ said' # "sustained"
    BY <2>1 DEF Rules
  <2> QED
    BY <2>1, <2>2, <2>3 DEF Outcome
<1> QED
  BY <1>2, <1>3, <1>4, <1>5 DEF BaseRest, t

\* Every rule in its order.
LEMMA EvaluateKeeps ==
  ASSUME lim \in Policies, RowKept, NEW p, Sound(lim, p), p.status = "OPEN",
         NEW v \in Views, print \in Nat, Evaluate(p, v)
  PROVE  Outcome(p, v) /\ print' \in Nat
<1> DEFINE l == AtLine(p, v)
           s == AtStop(l, v)
<1>1. Sound(lim, l) /\ SameLadder(p, l) /\ l.breach = p.breach /\ (Breached(l, v) <=> Breached(p, v))
  BY AtLineSound DEF Breached
<1>2. Sound(lim, s) /\ s.status = "OPEN" /\ (lim.own => s.breach = BreachAt(p, v))
  <2> HIDE DEF l
  <2> QED
    BY <1>1, AtStopSound DEF BreachAt, SameLadder
<1> HIDE DEF l, s
<1>3. CASE UNCHANGED print /\ StopDecides(p, v)
  BY <1>3, StopsKeep
<1>4. CASE UNCHANGED print /\ ~Stopped(p, v) /\ Held(p, v) /\ Wait(s)
  <2>1. lim.own
    BY <1>4 DEF Held
  <2>2. ~Sustained(p, v)
    BY <1>4, <2>1 DEF Stopped
  <2>3. /\ Sound(lim, pos') /\ Sound(lim, row') /\ row'.breach = Off
        /\ pos' = s /\ said' = "none"
    BY <1>2, <1>4, WaitKeeps
  <2>4. said' \in Rules \ {"gap", "restart"} /\ said' # "sustained"
    BY <2>3 DEF Rules
  <2> QED
    BY <1>2, <1>4, <2>1, <2>2, <2>3, <2>4 DEF Outcome
<1>5. CASE lim.own /\ ~Stopped(p, v) /\ ~Held(p, v) /\ Rest(s, v)
  <2>1. /\ Sound(lim, pos') /\ Sound(lim, row') /\ row'.breach = Off
        /\ pos'.breach = s.breach /\ said' \in {"none", "rung", "backstop"}
        /\ said' = "none" => ~Forced(v)
        /\ print' = v.ltp
    BY <1>2, <1>5, RestKeeps
  <2>2. said' \in Rules \ {"gap", "restart"} /\ said' # "sustained"
    BY <2>1 DEF Rules
  <2> QED
    BY <1>2, <1>5, <2>1, <2>2, ViewOf DEF Outcome
<1>6. CASE UNCHANGED print /\ BaseStopDecides(p, v)
  <2>1. ~lim.own
    BY <1>6 DEF BaseStopDecides, BaseStopped
  <2> QED
    BY <1>6, <2>1, BaseKeeps
<1>7. CASE UNCHANGED print /\ ~lim.own /\ ~BaseStopped(p, v) /\ BaseRest(p, v)
  BY <1>7, BaseKeeps
<1> QED
  BY <1>3, <1>4, <1>5, <1>6, <1>7 DEF Evaluate, s, l

-----------------------------------------------------------------------------
(* The invariant *)

LEMMA TickOf ==
  ASSUME lim \in Policies, NEW n \in Nat
  PROVE  /\ Tick(n) \in Nat /\ Tick(n) <= n + 1 /\ Tick(n) > 0
         /\ Tick(n) = n + 1 \/ Tick(n) = lim.sustain + 2
  BY PolicyOf DEF Tick, Beyond, Smaller

LEMMA Initially == Init => IInv
<1> SUFFICES ASSUME Init PROVE IInv
  OBVIOUS
<1> USE DEF Init
<1>1. lim \in Policies
  OBVIOUS
<1>2. Len(Rungs) \in Nat /\ Rungs \in Seq(Nat) /\ Entry \in Nat /\ Lots \in Nat /\ Lots > 0
      /\ Stop \in Nat /\ MaxRestarts \in Nat
  BY LadderAssumptions
<1>3. Rungs # <<>> => Len(Rungs) > 0 /\ Rungs[1] \in Nat
  BY <1>2, EmptySeq, ElementOfSeq
<1>4. Bought \in PositionState
  BY <1>2, <1>3 DEF Bought, PositionState, Clocks
<1>5. /\ Bought.remaining = Lots /\ Bought.hits = 0 /\ Bought.targets = Rungs
      /\ Rungs = <<>> => Bought.t1 = 0
      /\ Bought.breach = Off /\ Bought.ratchetSl = 0 /\ Bought.optionSl = Stop
  BY DEF Bought
<1>6. Sound(lim, Bought)
  BY <1>2, <1>3, <1>4, <1>5 DEF Sound, OnLadder, Sellable, Claimed
<1>7. TypeOK
  BY <1>1, <1>2, <1>4 DEF TypeOK, Unwatched, Rules
<1>8. Breakevens /\ Breaches /\ Agreed
  BY <1>5 DEF Breakevens, Breaches, Agreed, Unwatched
<1> QED
  BY <1>6, <1>7, <1>8 DEF IInv

LEMMA ReadKeeps ==
  ASSUME IInv, NEW v \in Views, Read(v)
  PROVE  IInv'
<1> DEFINE p == Prepared(v)
           b == pos.breach
<1>1. /\ lim \in Policies /\ print \in Nat /\ restarts \in 0..MaxRestarts
      /\ watch \in [calm : Nat, agreed : Nat] /\ watch.calm \in Nat /\ watch.agreed \in Nat
      /\ RowKept /\ Sound(lim, pos) /\ b \in Clocks /\ pos.status = "OPEN"
  BY StateOf DEF IInv, TypeOK, RowKept, Breaches, Read
<1>2. Sound(lim, p) /\ p.status = "OPEN" /\ p.breach = Older(b)
  BY <1>1, PreparedSound DEF SameLadder
<1>3. p.breach \in Clocks
  BY <1>1, <1>2, ClockOf
<1>4. Outcome(p, v) /\ print' \in Nat
  <2> HIDE DEF p
  <2> QED
    BY <1>1, <1>2, EvaluateKeeps DEF Read, p
<1>5. lim' = lim /\ restarts' = restarts /\ watch' = Watched(v)
  BY DEF Read
<1>6. /\ watch'.calm = IF Recovered(v) THEN 0 ELSE Tick(watch.calm)
      /\ watch'.agreed = IF Forced(v) /\ Agreeing(v) /\ said' = "none"
                         THEN Tick(watch.agreed) ELSE 0
      /\ watch' \in [calm : Nat, agreed : Nat]
  BY <1>1, <1>5, TickOf DEF Watched
<1>7. /\ Agreeing(v) => Fresh(v) /\ (Breached(p, v) <=> v.ltp <= p.optionSl)
      /\ Recovered(v) <=> Fresh(v) /\ ~Breached(p, v) /\ said' \in {"none", "rung", "backstop"}
  BY DEF Agreeing, Recovered
<1> HIDE DEF p, b
<1>8. TypeOK'
  BY <1>1, <1>4, <1>5, <1>6 DEF TypeOK, Outcome, Sound, Rules
<1>9. Sound(lim, pos)' /\ Sound(lim, row)' /\ Breakevens'
  BY <1>4, <1>5 DEF Outcome, Breakevens
<1>10. Breaches'
  <2>1. SUFFICES ASSUME lim.own, pos'.breach # Off
                 PROVE  pos'.breach < watch'.calm
    BY <1>4, <1>5 DEF Breaches, Outcome
  <2>2. lim.sustain \in Nat /\ lim.sustain > 0
    BY <1>1, <2>1, PolicyOf
  <2>3. p.breach # Off => p.breach < Tick(watch.calm)
    <3>1. b # Off => b < watch.calm
      BY <2>1 DEF IInv, Breaches, b
    <3> SUFFICES ASSUME p.breach # Off PROVE p.breach < Tick(watch.calm)
      OBVIOUS
    <3>2. b # Off /\ p.breach <= b + 1 /\ p.breach <= lim.sustain
      BY <1>1, <1>2, ClockOf
    <3>3. b \in Nat /\ p.breach \in Nat
      BY <1>1, <1>3, <3>2 DEF Clocks
    <3>4. Tick(watch.calm) \in Nat
          /\ (Tick(watch.calm) = watch.calm + 1 \/ Tick(watch.calm) = lim.sustain + 2)
      BY <1>1, TickOf
    <3> QED
      BY <1>1, <2>2, <3>1, <3>2, <3>3, <3>4
  <2>4. CASE Recovered(v)
    <3>1. pos'.breach = BreachAt(p, v) /\ Fresh(v) /\ ~Breached(p, v)
      BY <1>4, <1>7, <2>1, <2>4 DEF Outcome
    <3> QED
      BY <2>1, <3>1 DEF BreachAt
  <2>5. CASE ~Recovered(v)
    <3>1. pos'.breach \in {p.breach, BreachAt(p, v)}
      BY <1>4, <2>1 DEF Outcome
    <3>2. pos'.breach \in {p.breach, 0}
      <4>1. Started(p.breach) = IF p.breach = Off THEN 0 ELSE p.breach
        BY <1>1, <1>3, ClockOf
      <4>2. BreachAt(p, v) \in {p.breach, Started(p.breach), Off}
        BY DEF BreachAt
      <4> QED
        BY <2>1, <3>1, <4>1, <4>2
    <3>3. Tick(watch.calm) > 0
      BY <1>1, TickOf
    <3> QED
      BY <1>6, <2>1, <2>3, <2>5, <3>2, <3>3
  <2> QED
    BY <2>4, <2>5
<1>11. Agreed'
  <2>1. SUFFICES ASSUME Forced(v), Agreeing(v), said' = "none"
                 PROVE  /\ lim.own /\ pos'.breach # Off
                        /\ Tick(watch.agreed) <= pos'.breach + 1
                        /\ Tick(watch.agreed) <= lim.sustain
    BY <1>5, <1>6 DEF Agreed
  <2>2. lim.own /\ ~Sustained(p, v) /\ Held(p, v)
    BY <1>4, <2>1 DEF Outcome
  <2>3. Fresh(v) /\ Breached(p, v)
    BY <1>7, <2>1, <2>2 DEF Held
  <2>4. pos'.breach = Started(p.breach) /\ ~Elapsed(p.breach)
    BY <1>4, <2>1, <2>2, <2>3 DEF Outcome, BreachAt, Sustained
  <2>5. lim.sustain \in Nat /\ lim.sustain > 0
    BY <1>1, <2>2, PolicyOf
  <2>6. watch.agreed > 0 => b # Off /\ watch.agreed <= b + 1
    BY DEF IInv, Agreed, b
  <2>7. Tick(watch.agreed) <= watch.agreed + 1
    BY <1>1, TickOf
  <2>8. CASE b = Off
    <3>1. p.breach = Off /\ pos'.breach = 0 /\ watch.agreed = 0
      BY <1>1, <1>2, <2>4, <2>6, <2>8, ClockOf
    <3> QED
      BY <1>1, <2>2, <2>5, <2>7, <3>1, TickOf DEF Off
  <2>9. CASE b # Off
    <3>1. p.breach # Off /\ p.breach < lim.sustain
      BY <1>1, <1>2, <1>3, <2>4, <2>5, <2>9, ClockOf DEF Elapsed, Clocks, Off
    <3>2. b \in Nat /\ p.breach = b + 1 /\ pos'.breach = b + 1
      BY <1>1, <1>2, <1>3, <2>4, <2>9, <3>1, ClockOf DEF Clocks
    <3>3. watch.agreed <= b + 1
      BY <1>1, <2>6, <3>2
    <3> QED
      BY <1>1, <2>2, <2>5, <2>7, <3>1, <3>2, <3>3, TickOf DEF Off
  <2> QED
    BY <2>8, <2>9
<1>12. said' = "sustained" => watch'.calm > lim'.sustain
  <2>1. SUFFICES ASSUME said' = "sustained" PROVE watch'.calm > lim.sustain
    BY <1>5
  <2>2. lim.own /\ Sustained(p, v)
    BY <1>1, <1>4, <2>1, PolicyOf DEF Outcome
  <2>3. p.breach # Off /\ p.breach >= lim.sustain
    BY <2>2 DEF Sustained, Elapsed
  <2>4. b # Off /\ b \in Nat /\ b < watch.calm
    BY <1>1, <1>2, <2>2, <2>3, ClockOf DEF IInv, Breaches, Clocks, b
  <2>5. p.breach <= b + 1 /\ lim.sustain \in Nat
    BY <1>1, <1>2, <2>4, ClockOf, PolicyOf
  <2>6. ~Recovered(v)
    BY <1>7, <2>1
  <2>7. watch'.calm = Tick(watch.calm)
    BY <1>6, <2>6
  <2>8. p.breach \in Nat
    BY <1>3, <2>3 DEF Clocks
  <2> QED
    BY <1>1, <2>3, <2>4, <2>5, <2>7, <2>8, TickOf
<1> QED
  BY <1>8, <1>9, <1>10, <1>11, <1>12 DEF IInv

\* A second without a read: the clocks go on, and so does the calm.
LEMMA GapKeeps ==
  ASSUME IInv, Gap
  PROVE  IInv'
<1>1. /\ lim \in Policies /\ lim' = lim /\ RowKept /\ Sound(lim, pos)
      /\ pos.breach \in Clocks /\ row.breach = Off /\ row.breach \in Clocks
      /\ watch.calm \in Nat /\ watch.agreed \in Nat
  BY StateOf DEF IInv, TypeOK, RowKept, Breaches, Gap, Sound
<1>2. /\ Sound(lim, pos') /\ pos'.breach = Older(pos.breach)
      /\ Sound(lim, row') /\ row'.breach = Off
  BY <1>1, AgedSound, ClockOf DEF Gap, RowKept
<1>3. watch'.calm = Tick(watch.calm) /\ watch'.agreed = 0 /\ watch' \in [calm : Nat, agreed : Nat]
  BY <1>1, TickOf DEF Gap, IInv, TypeOK
<1>4. TypeOK'
  BY <1>1, <1>2, <1>3 DEF IInv, TypeOK, Gap, Sound, Rules
<1>5. Breakevens' /\ Agreed' /\ said' # "sustained"
  BY <1>3 DEF Gap, Breakevens, Agreed
<1>6. Breaches'
  <2>1. SUFFICES ASSUME lim.own, pos'.breach # Off
                 PROVE  pos'.breach < watch'.calm
    BY <1>1, <1>2 DEF Breaches
  <2>2. pos.breach # Off /\ pos'.breach <= pos.breach + 1 /\ pos'.breach <= lim.sustain
        /\ pos'.breach \in Clocks
    BY <1>1, <1>2, <2>1, ClockOf
  <2>3. pos.breach \in Nat /\ pos'.breach \in Nat /\ pos.breach < watch.calm
    BY <1>1, <2>1, <2>2 DEF Clocks, IInv, Breaches
  <2>4. Tick(watch.calm) = watch.calm + 1 \/ Tick(watch.calm) = lim.sustain + 2
    BY <1>1, TickOf
  <2>5. lim.sustain \in Nat
    BY <1>1, PolicyOf
  <2> QED
    BY <1>1, <1>3, <2>2, <2>3, <2>4, <2>5
<1> QED
  BY <1>1, <1>2, <1>4, <1>5, <1>6 DEF IInv

\* A restart comes back with a row that has no breach and its ladder in order.
LEMMA RestartKeeps ==
  ASSUME IInv, Restart
  PROVE  IInv'
<1>1. /\ lim \in Policies /\ lim' = lim /\ row' = row /\ Sound(lim, row) /\ row \in PositionState
      /\ row.breach = Off /\ restarts' \in 0..MaxRestarts
  BY LadderAssumptions DEF IInv, TypeOK, Breaches, Restart, Sound
<1>2. PICK touch \in Since(row.touch), line \in Since(row.line) : pos' = Rehydrated(touch, line)
  BY DEF Restart
<1>3. touch \in Clocks /\ line \in Clocks
  <2>1. \A age \in Clocks : \A n \in Since(age) : n \in Clocks
    <3>1. lim.sustain \in Nat
      BY <1>1, PolicyOf
    <3> QED
      BY <3>1 DEF Since, Clocks, Off
  <2> QED
    BY <1>1, <2>1, StateOf
<1>4. /\ pos' \in PositionState /\ SameLadder(row, pos') /\ pos'.breach = Off
      /\ pos'.ratchetSl = row.ratchetSl /\ pos'.optionSl = row.optionSl
  BY <1>1, <1>2, <1>3 DEF Rehydrated, PositionState, SameLadder
<1>5. Sound(lim, pos')
  BY <1>1, <1>4, StateOf, SoundSame DEF Sound, Claimed
<1>6. TypeOK'
  BY <1>1, <1>4 DEF IInv, TypeOK, Restart, Unwatched, Rules
<1>7. Breakevens' /\ Breaches' /\ Agreed' /\ said' # "sustained"
  BY <1>1, <1>4 DEF Restart, Breakevens, Breaches, Agreed, Unwatched
<1> QED
  BY <1>1, <1>5, <1>6, <1>7 DEF IInv

LEMMA Inductive == IInv /\ [Next]_vars => IInv'
<1> SUFFICES ASSUME IInv, [Next]_vars PROVE IInv'
  OBVIOUS
<1>1. CASE \E v \in Views : Read(v)
  BY <1>1, ReadKeeps
<1>2. CASE Gap
  BY <1>2, GapKeeps
<1>3. CASE Restart
  BY <1>3, RestartKeeps
<1>4. CASE UNCHANGED vars
  BY <1>4 DEF vars, IInv, TypeOK, Breakevens, Breaches, Agreed
<1> QED
  BY <1>1, <1>2, <1>3, <1>4 DEF Next

LEMMA Invariant == Spec => []IInv
  BY Initially, Inductive, PTL DEF Spec

-----------------------------------------------------------------------------
\* The position and its row keep their types under every policy.
THEOREM TypeCorrect == Spec => []TypeOK
<1>1. IInv => TypeOK
  BY DEF IInv
<1> QED
  BY <1>1, Invariant, PTL

\* An open position has lots, a rung that sells the last of them and, in an own
\* book, one lot less for each rung, through part exits, refusals and restarts.
THEOREM UnstrandedHolds == Spec => []Unstranded
<1>1. IInv => Unstranded
  BY DEF IInv, Sound, Sellable, Unstranded
<1> QED
  BY <1>1, Invariant, PTL

\* A sold rung leaves its floor, which no re-projection of the stop goes under.
THEOREM StaircaseHoldsAlways == Spec => []StaircaseHolds
<1>1. IInv => StaircaseHolds
  BY DEF IInv, Sound, Claimed, Ground, Breakevens, StaircaseHolds
<1> QED
  BY <1>1, Invariant, PTL

\* A sustained stop decides only when no read of the last sustain_s was a recovery.
THEOREM SustainIsContinuousHolds == Spec => []SustainIsContinuous
<1>1. IInv => SustainIsContinuous
  BY DEF IInv, SustainIsContinuous
<1> QED
  BY <1>1, Invariant, PTL

\* A forced exit whose quote and last trade agree waits for no more than the
\* sustain, and in a base book not at all.
THEOREM ForcedOutHolds == Spec => []ForcedOut
<1>1. IInv => ForcedOut
  <2>1. SUFFICES ASSUME IInv PROVE ForcedOut
    OBVIOUS
  <2>2. watch.agreed \in Nat /\ lim.sustain \in Nat
    BY <2>1, PolicyOf DEF IInv, TypeOK
  <2> QED
    BY <2>1, <2>2 DEF IInv, Agreed, ForcedOut
<1> QED
  BY <1>1, Invariant, PTL

-----------------------------------------------------------------------------
(* The bar a strategy decides on, of Bars.  A bar that is formed or decided on     *)
(* has its bucket behind it but for the one forming, so the exchange's candle of   *)
(* it is what it will ever be.  A bucket no late frame opened again is formed once *)
(* and ends when its decision is asked about; so that decision finds it, or the    *)
(* exchange's bar in its place, at the end of the series.                          *)

Bucket(t) == Series!BucketStart(DecisionTf, t)
End(b) == Series!BucketEnd(DecisionTf, b)
IsBucket(b) == \E t \in Nat : Series!InSession(t) /\ b = Bucket(t)
Once(b, late) == <<DecisionTf, b>> \notin late

\* The elements of a sequence.
Els(s) == {s[k] : k \in DOMAIN s}

IsBar(x) ==
    x \in [ts : {x.ts}, o : {x.o}, h : {x.h}, l : {x.l}, c : {x.c}, v : {x.v},
          src : {x.src}, confirmed : {x.confirmed}]

IsTask(x) == x \in [bar : {x.bar}, stage : {x.stage}, found : {x.found}, on : {x.on}]

\* The trades of a bucket, and the exchange's candle of them.
Traded(tp, b) == {n \in DOMAIN tp : Series!InSession(tp[n].t) /\ Bucket(tp[n].t) = b}

CandleOf(tp, b) ==
    LET N == Traded(tp, b)
        P == {tp[n].p : n \in N}
    IN  [ts |-> b, o |-> tp[Series!LeastOf(N)].p, c |-> tp[Series!GreatestOf(N)].p,
         h |-> Series!GreatestOf(P), l |-> Series!LeastOf(P), v |-> Cardinality(N),
         src |-> "rest", confirmed |-> FALSE]

\* The trades of the first day among the first n.
FirstDay(tp, n) == {m \in 1..n : Series!DayOf(tp[m].t) = 0}

\* A tape to some time.
IsTape(tp, time) ==
    /\ tp \in Seq([t : Nat, p : Prices])
    /\ \A m, n \in DOMAIN tp : m < n => tp[m].t <= tp[n].t
    /\ \A n \in DOMAIN tp : tp[n].t <= time

\* A bar built from frames by one who listens since some time.  One of a bucket the
\* listener came into lacks what the first frame had counted.
Built(x, tp, since) ==
    /\ IsBar(x) /\ IsBucket(x.ts) /\ x.src \in {"live", "partial"}
    /\ since > 0 /\ x.ts = 0 =>
         x.src = "partial" /\ x.v \in Nat /\ x.v < Cardinality(Traded(tp, 0))

Formed(x, tp, since, late, time, s) ==
    /\ Built(x, tp, since)
    /\ Once(x.ts, late) => time <= End(x.ts)
    /\ since > 0 /\ x.ts = 0 => s.day = 0 /\ x.v < s.base

\* What a task decided on.
Upheld(t, tp, late) ==
    \/ Traded(tp, t.bar.ts) # {} /\ Series!Ohlcv(t.on) = Series!Ohlcv(CandleOf(tp, t.bar.ts))
    \/ ~Once(t.bar.ts, late)
    \/ ~t.found /\ t.on.src # "partial"

Due(t) == t.stage \in {"ask", "again"}

Asked(t, tp, since, late, time) ==
    /\ IsTask(t) /\ Built(t.bar, tp, since) /\ End(t.bar.ts) <= time
    /\ Due(t) /\ Once(t.bar.ts, late) => time <= End(t.bar.ts)
    /\ t.stage = "decided" => Upheld(t, tp, late)

\* A closed bar is a task's, the exchange's of a bucket that is over, or the boot's.
Origin(x, tp, since, time, all) ==
    \/ x.src = "rest" /\ since > 0 /\ x.ts = 0
    \/ /\ x.src = "rest" /\ Traded(tp, x.ts) # {}
       /\ Series!Ohlcv(x) = Series!Ohlcv(CandleOf(tp, x.ts))
       /\ End(x.ts) <= time
    \/ \E i \in DOMAIN all : LET b == all[i].bar IN
         b.ts = x.ts /\ b.src = x.src /\ Series!Ohlcv(b) = Series!Ohlcv(x)

Placed(x, tp, since, late, time, all) ==
    /\ IsBar(x)
    /\ x.ts = 0 \/ (IsBucket(x.ts) /\ End(x.ts) <= time)
    /\ Once(x.ts, late) => Origin(x, tp, since, time, all)

Times ==
    /\ now \in Nat /\ joined \in Nat /\ IsTape(tape, now)
    /\ seen \in Nat /\ seen <= Len(tape)
    /\ DOMAIN forming = Series!Frames /\ DOMAIN closed = Series!Frames
    /\ st \in [base : {st.base}, day : {st.day}, dh : {st.dh}, dl : {st.dl}]
    /\ joined > 0 /\ st.day = 0 =>
         st.base \in Nat /\ 0 < st.base /\ st.base <= Cardinality(FirstDay(tape, seen))

Forming == forming[DecisionTf] # None => Formed(forming[DecisionTf], tape, joined, touched, now, st)

Decisions ==
    /\ tasks \in Seq(Els(tasks))
    /\ \A i \in DOMAIN tasks : Asked(tasks[i], tape, joined, touched, now)

\* A bucket no late frame opened again is formed, then decided on, once.
Apart ==
    \A i \in DOMAIN tasks : Once(tasks[i].bar.ts, touched) =>
      /\ forming[DecisionTf] # None => forming[DecisionTf].ts # tasks[i].bar.ts
      /\ \A j \in DOMAIN tasks : tasks[j].bar.ts = tasks[i].bar.ts => j = i

Stored ==
    /\ closed[DecisionTf] \in Seq(Els(closed[DecisionTf]))
    /\ \A x \in Els(closed[DecisionTf]) : Placed(x, tape, joined, touched, now, tasks)

Settled == Times /\ Forming /\ Decisions /\ Apart /\ Stored

LEMMA SeriesFacts ==
  /\ Step[DecisionTf] \in Nat /\ Step[DecisionTf] > 0
  /\ DaySpan \in Nat /\ Close \in Nat /\ 0 < Close /\ Close < DaySpan
  /\ DecisionTf \in Series!Frames /\ DecisionTf # Series!Daily /\ DecisionTf # SweepTf
  /\ MaxBars \in Nat /\ MaxBars > 0
  BY BarsAreAssumed DEF Series!BarsAssumptions, Series!Frames

(* Days and buckets. *)

LEMMA Quotient ==
  ASSUME NEW a \in Nat, NEW n \in Nat, n > 0
  PROVE  a \div n \in Nat /\ (a \div n) * n \in Nat /\ (a \div n) * n <= a /\ a < (a \div n) * n + n
  BY Z3

LEMMA Multiples ==
  ASSUME NEW p \in Nat, NEW q \in Nat, NEW n \in Nat
  PROVE  /\ p * n \in Nat /\ q * n \in Nat
         /\ p <= q => p * n <= q * n
         /\ p < q => p * n + n <= q * n
<1>1. p * n \in Nat /\ q * n \in Nat
  BY Z3
<1>2. ASSUME p <= q PROVE p * n <= q * n
  BY <1>2, Z3
<1>3. ASSUME p < q PROVE p * n + n <= q * n
  BY <1>3, Z3
<1>. QED  BY <1>1, <1>2, <1>3

LEMMA QuotientGrows ==
  ASSUME NEW a \in Nat, NEW b \in Nat, a <= b, NEW n \in Nat, n > 0
  PROVE  a \div n <= b \div n
<1>. DEFINE p == a \div n
            q == b \div n
<1>1. p \in Nat /\ q \in Nat /\ p * n <= a /\ b < q * n + n /\ p * n \in Nat /\ q * n \in Nat
  BY Quotient
<1>. HIDE DEF p, q
<1>2. q < p => q * n + n <= p * n
  BY <1>1, Multiples
<1>3. p <= q
  BY <1>1, <1>2
<1>. QED  BY <1>3 DEF p, q

LEMMA DayFacts ==
  ASSUME NEW t \in Nat
  PROVE  /\ Series!DayOf(t) \in Nat /\ Series!OpenOf(Series!DayOf(t)) \in Nat
         /\ Series!OpenOf(Series!DayOf(t)) <= t /\ t < Series!OpenOf(Series!DayOf(t)) + DaySpan
         /\ Series!CloseOf(Series!DayOf(t)) = Series!OpenOf(Series!DayOf(t)) + Close
  BY Quotient, SeriesFacts DEF Series!DayOf, Series!OpenOf, Series!CloseOf

\* A moment's bucket: of its day, and not over in session.
LEMMA BucketOf ==
  ASSUME NEW t \in Nat
  PROVE  /\ Bucket(t) \in Nat /\ Bucket(t) <= t
         /\ Series!DayOf(Bucket(t)) = Series!DayOf(t)
         /\ End(Bucket(t)) \in Nat /\ End(Bucket(t)) <= Series!CloseOf(Series!DayOf(t))
         /\ Series!InSession(t) => Bucket(t) < End(Bucket(t)) /\ t < End(Bucket(t))
<1>. DEFINE d == Series!DayOf(t)
            open == Series!OpenOf(d)
            n == Step[DecisionTf]
            r == t - open
<1>1. open \in Nat /\ open <= t /\ t < open + DaySpan /\ Series!CloseOf(d) = open + Close /\ d \in Nat /\ open = d * DaySpan
  BY DayFacts DEF Series!OpenOf
<1>2. r \in Nat /\ r < DaySpan /\ t = open + r
  BY <1>1, SeriesFacts
<1>3. n \in Nat /\ n > 0 /\ Bucket(t) = open + (r \div n) * n
  BY SeriesFacts DEF Bucket, Series!BucketStart
<1>. HIDE DEF d, open, n, r
<1>. DEFINE k == (r \div n) * n
<1>4. k \in Nat /\ k <= r /\ r < k + n
  BY <1>2, <1>3, Quotient
<1>. HIDE DEF k
<1>5. Bucket(t) = open + k
  BY <1>3 DEF k
<1>6. Series!DayOf(Bucket(t)) = d
  <2>. DEFINE e == Series!DayOf(open + k)
  <2>1. e \in Nat /\ e * DaySpan <= open + k /\ open + k < e * DaySpan + DaySpan /\ e * DaySpan \in Nat
    BY <1>1, <1>4, DayFacts DEF Series!OpenOf
  <2>. HIDE DEF e
  <2>2. d < e => d * DaySpan + DaySpan <= e * DaySpan
    BY <1>1, <2>1, Multiples, SeriesFacts
  <2>3. e < d => e * DaySpan + DaySpan <= d * DaySpan
    BY <1>1, <2>1, Multiples, SeriesFacts
  <2>4. e = d
    BY <1>1, <1>2, <1>4, <2>1, <2>2, <2>3, SeriesFacts
  <2>. QED  BY <1>5, <2>4 DEF e
<1>7. End(Bucket(t)) = Series!Lesser(open + k + n, open + Close)
  BY <1>1, <1>5, <1>6, SeriesFacts DEF End, Series!BucketEnd, n
<1>8. Series!InSession(t) <=> t < open + Close
  BY <1>1 DEF Series!InSession, d
<1>. QED  BY <1>1, <1>2, <1>3, <1>4, <1>5, <1>6, <1>7, <1>8, SeriesFacts DEF Series!Lesser, d

\* A bucket is some multiple into its day, and ends a length later or at the close.
LEMMA BucketShape ==
  ASSUME NEW t \in Nat, Series!InSession(t)
  PROVE  \E d \in Nat, k \in Nat :
           /\ d = Series!DayOf(t) /\ k = (t - d * DaySpan) \div Step[DecisionTf]
           /\ d * DaySpan \in Nat /\ k * Step[DecisionTf] \in Nat
           /\ Bucket(t) = d * DaySpan + k * Step[DecisionTf]
           /\ End(Bucket(t)) <= Bucket(t) + Step[DecisionTf] /\ End(Bucket(t)) <= d * DaySpan + Close
           /\ k * Step[DecisionTf] < Close
<1>. DEFINE d == Series!DayOf(t)
            n == Step[DecisionTf]
            r == t - d * DaySpan
            k == r \div n
<1>1. d \in Nat /\ d * DaySpan \in Nat /\ d * DaySpan <= t /\ t < d * DaySpan + Close /\ Series!CloseOf(d) = d * DaySpan + Close
  BY DayFacts DEF Series!OpenOf, Series!InSession, Series!CloseOf
<1>2. r \in Nat /\ n \in Nat /\ n > 0
  BY <1>1, SeriesFacts
<1>3. k \in Nat /\ k * n \in Nat /\ k * n <= r
  BY <1>2, Quotient
<1>4. Bucket(t) = d * DaySpan + k * n
  BY SeriesFacts DEF Bucket, Series!BucketStart, Series!OpenOf
<1>5. Bucket(t) \in Nat /\ Series!DayOf(Bucket(t)) = d
  BY BucketOf
<1>6. End(Bucket(t)) = Series!Lesser(Bucket(t) + n, Series!CloseOf(d))
  BY <1>5, SeriesFacts DEF End, Series!BucketEnd
<1>. HIDE DEF d, n, r, k
<1>7. r = t - d * DaySpan
  BY DEF r
<1>8. End(Bucket(t)) <= Bucket(t) + n /\ End(Bucket(t)) <= d * DaySpan + Close /\ k * n < Close
  BY <1>1, <1>2, <1>3, <1>5, <1>6, <1>7, SeriesFacts DEF Series!Lesser
<1>. QED  BY <1>1, <1>3, <1>4, <1>8 DEF d, n, r, k

LEMMA BucketBounds ==
  ASSUME NEW b, IsBucket(b)
  PROVE  b \in Nat /\ End(b) \in Nat /\ b < End(b)
  BY BucketOf DEF IsBucket

\* A bucket is over when the next begins.
LEMMA NextBucket ==
  ASSUME NEW b, IsBucket(b), NEW c, IsBucket(c), b < c
  PROVE  End(b) <= c
<1>. DEFINE n == Step[DecisionTf]
<1>0. n \in Nat /\ n > 0 /\ DaySpan \in Nat /\ Close \in Nat /\ Close < DaySpan
  BY SeriesFacts
<1>1. b \in Nat /\ End(b) \in Nat /\ c \in Nat
  BY BucketBounds
<1>2. PICK d \in Nat, k \in Nat : /\ d * DaySpan \in Nat /\ k * n \in Nat /\ b = d * DaySpan + k * n
                                  /\ End(b) <= b + n /\ End(b) <= d * DaySpan + Close
  BY BucketShape DEF IsBucket
<1>3. PICK e \in Nat, m \in Nat : /\ e * DaySpan \in Nat /\ m * n \in Nat /\ c = e * DaySpan + m * n
                                  /\ m * n < Close
  BY BucketShape DEF IsBucket
<1>. HIDE DEF n
<1>4. CASE d < e
  <2>1. d * DaySpan + DaySpan <= e * DaySpan
    BY <1>0, <1>4, Multiples
  <2>. QED  BY <1>0, <1>1, <1>2, <1>3, <2>1
<1>5. CASE d = e
  <2>1. k * n < m * n
    BY <1>2, <1>3, <1>5
  <2>2. k < m
    BY <1>0, <2>1, Multiples
  <2>3. k * n + n <= m * n
    BY <1>0, <2>2, Multiples
  <2>. QED  BY <1>0, <1>1, <1>2, <1>3, <1>5, <2>3
<1>6. CASE e < d
  <2>1. e * DaySpan + DaySpan <= d * DaySpan
    BY <1>0, <1>6, Multiples
  <2>. QED  BY <1>0, <1>1, <1>2, <1>3, <2>1
<1>. QED  BY <1>4, <1>5, <1>6

LEMMA NewerIsLater ==
  ASSUME NEW b, IsBucket(b), NEW t \in Nat, Series!InSession(t), b < Bucket(t)
  PROVE  End(b) <= t
<1>1. IsBucket(Bucket(t)) /\ Bucket(t) \in Nat /\ Bucket(t) <= t
  BY BucketOf DEF IsBucket
<1>. QED  BY <1>1, NextBucket, BucketBounds

\* What is not later than a moment of the first bucket is of it.
LEMMA InFirst ==
  ASSUME NEW u \in Nat, Series!InSession(u), Bucket(u) = 0, NEW t \in Nat, t <= u
  PROVE  Series!InSession(t) /\ Bucket(t) = 0 /\ Series!DayOf(t) = 0
<1>. DEFINE n == Step[DecisionTf]
<1>0. n \in Nat /\ n > 0 /\ DaySpan \in Nat /\ Close \in Nat /\ Close < DaySpan /\ Close > 0
  BY SeriesFacts
<1>1. u < End(0) /\ End(0) \in Nat
  BY BucketOf
<1>2. PICK d \in Nat, k \in Nat :
        /\ d * DaySpan \in Nat /\ k * n \in Nat
        /\ Bucket(u) = d * DaySpan + k * n /\ End(Bucket(u)) <= Bucket(u) + n /\ End(Bucket(u)) <= d * DaySpan + Close
  BY BucketShape
<1>. HIDE DEF n
<1>3. d * DaySpan = 0 /\ End(0) <= n /\ End(0) <= Close
  <2>1. d * DaySpan = 0 /\ k * n = 0
    BY <1>2
  <2>. QED  BY <1>0, <1>2, <2>1
<1>4. t < n /\ t < Close /\ t < DaySpan
  <2>1. t < End(0)
    BY <1>1
  <2>. QED  BY <1>0, <1>1, <1>3, <2>1
<1>5. Series!DayOf(t) = 0
  <2>1. Series!DayOf(t) \in Nat /\ Series!DayOf(t) * DaySpan <= t /\ Series!DayOf(t) * DaySpan \in Nat
    BY DayFacts DEF Series!OpenOf
  <2>2. 0 < Series!DayOf(t) => 0 * DaySpan + DaySpan <= Series!DayOf(t) * DaySpan
    BY <1>0, <2>1, Multiples
  <2>3. 0 * DaySpan = 0
    BY <1>0
  <2>. QED  BY <1>0, <1>4, <2>1, <2>2, <2>3
<1>6. Series!CloseOf(0) = Close /\ Series!OpenOf(0) = 0
  BY <1>0 DEF Series!CloseOf, Series!OpenOf
<1>7. Series!InSession(t)
  BY <1>4, <1>5, <1>6 DEF Series!InSession
<1>8. Bucket(t) = 0
  <2>1. Bucket(t) = (t \div n) * n
    BY <1>0, <1>5, <1>6, SeriesFacts, Quotient DEF Bucket, Series!BucketStart, n
  <2>2. t \div n \in Nat /\ (t \div n) * n <= t /\ (t \div n) * n \in Nat
    BY <1>0, Quotient
  <2>3. 0 < t \div n => 0 * n + n <= (t \div n) * n
    BY <1>0, <2>2, Multiples
  <2>4. 0 * n = 0
    BY <1>0
  <2>5. t \div n = 0
    BY <1>0, <1>4, <2>2, <2>3, <2>4
  <2>. QED  BY <2>1, <2>4, <2>5
<1>. QED  BY <1>5, <1>7, <1>8

-----------------------------------------------------------------------------
(* The least and the greatest. *)

LEMMA LeastIsOne ==
  ASSUME NEW S, S \subseteq Nat, S # {}
  PROVE  Series!LeastOf(S) \in S /\ \A y \in S : Series!LeastOf(S) <= y
<1>1. PICK m \in S : \A k \in S : ~(<<k, m>> \in OpToRel(<, Nat))
  BY NatLessThanWellFounded, WFMin
<1>2. ASSUME NEW k \in S PROVE m <= k
  <2>1. k \in Nat /\ m \in Nat
    OBVIOUS
  <2>2. ~(k < m)
    BY <1>1, <2>1 DEF OpToRel
  <2>. QED  BY <2>1, <2>2
<1>. QED  BY <1>2 DEF Series!LeastOf

LEMMA GreatestIsOne ==
  ASSUME NEW n \in Nat, NEW S, S \subseteq 1..n, S # {}
  PROVE  Series!GreatestOf(S) \in S /\ \A y \in S : y <= Series!GreatestOf(S)
<1>. DEFINE T == {n - x : x \in S}
<1>1. T \subseteq Nat /\ T # {}
  <2>1. PICK x \in S : TRUE
    OBVIOUS
  <2>2. n - x \in T
    OBVIOUS
  <2>3. \A y \in S : n - y \in Nat
    OBVIOUS
  <2>. QED  BY <2>2, <2>3
<1>2. PICK m \in T : \A k \in T : ~(<<k, m>> \in OpToRel(<, Nat))
  BY <1>1, NatLessThanWellFounded, WFMin
<1>3. PICK x \in S : m = n - x
  OBVIOUS
<1>4. ASSUME NEW y \in S PROVE y <= x
  <2>1. n - y \in T /\ n - y \in Nat /\ m \in Nat
    BY <1>1
  <2>2. ~(n - y < m)
    BY <1>2, <2>1 DEF OpToRel
  <2>. QED  BY <1>3, <2>1, <2>2
<1>5. \A y \in S : x >= y
  BY <1>4
<1>6. Series!GreatestOf(S) \in S /\ \A y \in S : Series!GreatestOf(S) >= y
  <2>. HIDE DEF T
  <2>. QED  BY <1>5 DEF Series!GreatestOf
<1>. QED  BY <1>6

(* Series of bars, as sequences of what they hold. *)

LEMMA ElsKnown ==
  ASSUME NEW s, s \in Seq(Els(s))
  PROVE  Len(s) \in Nat /\ DOMAIN s = 1..Len(s) /\ \A k \in 1..Len(s) : s[k] \in Els(s)
  BY DEF Els

LEMMA ElsOf ==
  ASSUME NEW S, NEW s \in Seq(S)
  PROVE  Els(s) \subseteq S /\ s \in Seq(Els(s))
<1>1. Len(s) \in Nat /\ DOMAIN s = 1..Len(s) /\ \A k \in 1..Len(s) : s[k] \in S
  OBVIOUS
<1>2. \A k \in 1..Len(s) : s[k] \in Els(s)
  BY <1>1 DEF Els
<1>3. Els(s) \subseteq S
  BY <1>1 DEF Els
<1>4. s = [k \in 1..Len(s) |-> s[k]]
  BY <1>1
<1>5. s \in [1..Len(s) -> Els(s)]
  BY <1>2, <1>4
<1>6. s \in Seq(Els(s))
  BY <1>1, <1>5
<1>. QED  BY <1>3, <1>6

LEMMA ElsAppend ==
  ASSUME NEW s, s \in Seq(Els(s)), NEW x
  PROVE  /\ Append(s, x) \in Seq(Els(Append(s, x))) /\ Els(Append(s, x)) \subseteq Els(s) \union {x}
         /\ Len(s) \in Nat /\ DOMAIN s = 1..Len(s) /\ DOMAIN Append(s, x) = 1..(Len(s) + 1)
         /\ \A k \in 1..Len(s) : Append(s, x)[k] = s[k]
         /\ Append(s, x)[Len(s) + 1] = x
<1>. DEFINE S == Els(s) \union {x}
<1>1. s \in Seq(S) /\ x \in S
  BY SeqMonotonic
<1>. HIDE DEF S
<1>2. Append(s, x) \in Seq(S)
  BY <1>1
<1>3. Els(Append(s, x)) \subseteq S /\ Append(s, x) \in Seq(Els(Append(s, x)))
  BY <1>2, ElsOf
<1>4. /\ Len(s) \in Nat /\ DOMAIN s = 1..Len(s) /\ DOMAIN Append(s, x) = 1..(Len(s) + 1)
      /\ \A k \in 1..Len(s) : Append(s, x)[k] = s[k]
      /\ Append(s, x)[Len(s) + 1] = x
  BY <1>1
<1>. QED  BY <1>3, <1>4 DEF S

LEMMA ElsCapped ==
  ASSUME NEW S, NEW s \in Seq(S)
  PROVE  Series!Capped(s) \in Seq(S)
<1>1. Len(s) \in Nat
  OBVIOUS
<1>2. \A k \in (Len(s) + 1 - MaxBars)..Len(s) : Len(s) > MaxBars => s[k] \in S
  BY <1>1, SeriesFacts
<1>3. CASE Len(s) > MaxBars
  <2>1. SubSeq(s, Len(s) + 1 - MaxBars, Len(s)) \in Seq(S)
    BY <1>1, <1>3, SeriesFacts, SubSeqProperties
  <2>. QED  BY <1>3, <2>1 DEF Series!Capped
<1>. QED  BY <1>3 DEF Series!Capped

\* Closing a bar brings in that bar.
LEMMA ElsClosed ==
  ASSUME NEW s, s \in Seq(Els(s)), NEW x
  PROVE  LET u == Series!CloseInto(s, x) IN u \in Seq(Els(u)) /\ Els(u) \subseteq Els(s) \union {x}
<1>. DEFINE S == Els(s) \union {x}
            u == Series!CloseInto(s, x)
<1>1. s \in Seq(S) /\ x \in S
  BY SeqMonotonic
<1>2. Append(s, x) \in Seq(S)
  BY <1>1
<1>3. s # <<>> => [s EXCEPT ![Len(s)] = x] \in Seq(S)
  <2>. SUFFICES ASSUME s # <<>> PROVE [s EXCEPT ![Len(s)] = x] \in Seq(S)
    OBVIOUS
  <2>1. Len(s) \in 1..Len(s)
    BY <1>1, EmptySeq
  <2>. HIDE DEF S
  <2>. QED  BY <1>1, <2>1, ExceptSeq
<1>4. Series!Capped(Append(s, x)) \in Seq(S)
  BY <1>2, ElsCapped
<1>. HIDE DEF S
<1>5. u \in Seq(S)
  BY <1>1, <1>3, <1>4 DEF Series!CloseInto
<1>. HIDE DEF u
<1>6. u \in Seq(Els(u)) /\ Els(u) \subseteq S
  BY <1>5, ElsOf
<1>. QED  BY <1>6 DEF S, u

\* Replacing brings in the replacement, and puts it last if nothing is newer.
LEMMA ElsReplaced ==
  ASSUME NEW s, s \in Seq(Els(s)), \A x \in Els(s) : x.ts \in Nat, NEW cand, cand.ts \in Nat
  PROVE  LET u == Series!ReplaceClosed(s, cand) IN
         /\ u \in Seq(Els(u)) /\ Els(u) \subseteq Els(s) \union {cand}
         /\ (\A x \in Els(s) : x.ts <= cand.ts) => Len(u) > 0 /\ u[Len(u)] = cand
<1>. DEFINE S == Els(s) \union {cand}
            u == Series!ReplaceClosed(s, cand)
            n == Len(s)
            upTo == {i \in DOMAIN s : s[i].ts <= cand.ts}
            at == IF upTo = {} THEN 0 ELSE Series!GreatestOf(upTo)
            put == [s EXCEPT ![at] = cand]
            ins == SubSeq(s, 1, at) \o <<cand>> \o SubSeq(s, at + 1, Len(s))
<1>1. s \in Seq(S) /\ cand \in S /\ n \in Nat /\ DOMAIN s = 1..n /\ \A k \in 1..n : s[k] \in Els(s)
  BY SeqMonotonic, ElsKnown
<1>2. at \in 0..n /\ (at > 0 => at \in upTo)
  <2>1. upTo # {} => Series!GreatestOf(upTo) \in upTo
    BY <1>1, GreatestIsOne
  <2>. QED  BY <1>1, <2>1
<1>9. at \in Nat /\ n \in Nat /\ at <= n
  BY <1>1, <1>2
<1>3. u = IF at > 0 /\ s[at].ts = cand.ts THEN put ELSE ins
  BY DEF Series!ReplaceClosed
<1>4. (\A x \in Els(s) : x.ts <= cand.ts) => at = n
  <2>. SUFFICES ASSUME \A x \in Els(s) : x.ts <= cand.ts PROVE at = n
    OBVIOUS
  <2>1. upTo = 1..n
    BY <1>1
  <2>2. CASE n = 0
    BY <2>1, <2>2
  <2>3. CASE n > 0
    <3>1. n \in upTo
      BY <1>1, <2>1, <2>3
    <3>2. n <= Series!GreatestOf(upTo)
      BY <1>1, <2>1, <3>1, GreatestIsOne
    <3>. QED  BY <1>1, <1>2, <2>1, <3>1, <3>2
  <2>. QED  BY <1>1, <2>2, <2>3
<1>. HIDE DEF S, upTo, at, u
<1>5. at > 0 => put \in Seq(S) /\ Len(put) = n /\ put[at] = cand
  <2>. SUFFICES ASSUME at > 0 PROVE put \in Seq(S) /\ Len(put) = n /\ put[at] = cand
    OBVIOUS
  <2>1. at \in 1..Len(s)
    BY <1>1, <1>2
  <2>. QED  BY <1>1, <2>1, ExceptSeq
<1>6. ins \in Seq(S) /\ (at = n => Len(ins) = n + 1 /\ ins[n + 1] = cand)
  <2>. DEFINE a == SubSeq(s, 1, at)
              b == SubSeq(s, at + 1, Len(s))
  <2>1. a \in Seq(S) /\ Len(a) = at
    BY <1>1, <1>2, SubSeqProperties
  <2>2. b \in Seq(S) /\ (at = n => Len(b) = 0) /\ Len(b) \in Nat
    <3>1. at + 1 \in Int /\ n \in Int /\ \A k \in (at + 1)..n : s[k] \in S
      BY <1>1, <1>2
    <3>2. b \in Seq(S) /\ Len(b) = IF at + 1 <= n THEN n - (at + 1) + 1 ELSE 0
      BY <3>1, SubSeqProperties
    <3>. HIDE DEF b, n
    <3>. QED  BY <1>9, <3>2
  <2>3. <<cand>> \in Seq(S) /\ Len(<<cand>>) = 1
    BY <1>1
  <2>. HIDE DEF a, b
  <2>4. a \o <<cand>> \in Seq(S) /\ Len(a \o <<cand>>) = at + 1 /\ (a \o <<cand>>)[at + 1] = cand
    BY <1>1, <1>2, <2>1, <2>3, ConcatProperties
  <2>. DEFINE ab == a \o <<cand>>
  <2>. HIDE DEF ab
  <2>5. ab \o b \in Seq(S) /\ Len(ab \o b) = Len(ab) + Len(b) /\ Len(ab) = at + 1 /\ ab[at + 1] = cand
        /\ (at = n => (ab \o b)[at + 1] = cand)
    <3>1. ab \in Seq(S) /\ Len(ab) = at + 1 /\ ab[at + 1] = cand
      BY <2>4 DEF ab
    <3>2. ab \o b \in Seq(S) /\ Len(ab \o b) = Len(ab) + Len(b)
          /\ \A k \in 1..(Len(ab) + Len(b)) : (ab \o b)[k] = IF k <= Len(ab) THEN ab[k] ELSE b[k - Len(ab)]
      BY <2>2, <3>1, ConcatProperties
    <3>3. at + 1 \in 1..(Len(ab) + Len(b)) /\ at + 1 <= Len(ab)
      <4>. HIDE DEF n
      <4>. QED  BY <1>9, <2>2, <3>1
    <3>. QED  BY <3>1, <3>2, <3>3
  <2>6. ins = ab \o b
    BY DEF ab, a, b
  <2>. HIDE DEF ins, n
  <2>. QED  BY <1>9, <2>2, <2>5, <2>6
<1>. HIDE DEF put, ins
<1>. HIDE DEF n
<1>7. u \in Seq(S) /\ ((\A x \in Els(s) : x.ts <= cand.ts) => Len(u) > 0 /\ u[Len(u)] = cand)
  BY <1>1, <1>2, <1>3, <1>4, <1>5, <1>6
<1>8. u \in Seq(Els(u)) /\ Els(u) \subseteq S
  BY <1>7, ElsOf
<1>. QED  BY <1>7, <1>8 DEF S, u

LEMMA Confirming ==
  ASSUME NEW x, IsBar(x)
  PROVE  LET y == [x EXCEPT !.confirmed = TRUE] IN
         IsBar(y) /\ y.ts = x.ts /\ y.src = x.src /\ Series!Ohlcv(y) = Series!Ohlcv(x)
<1>. DEFINE y == [x EXCEPT !.confirmed = TRUE]
<1>1. y \in [ts : {x.ts}, o : {x.o}, h : {x.h}, l : {x.l}, c : {x.c}, v : {x.v},
             src : {x.src}, confirmed : {TRUE}]
  BY DEF IsBar
<1>. HIDE DEF y
<1>2. IsBar(y) /\ y.ts = x.ts /\ y.src = x.src /\ Series!Ohlcv(y) = Series!Ohlcv(x)
  BY <1>1 DEF IsBar, Series!Ohlcv
<1>. QED  BY <1>2 DEF y

\* Installing a candle brings in the candle or the bar it agrees with; a bar it does not
\* agree with gives way to it at the end of the series, if nothing is newer.
LEMMA Installing ==
  ASSUME NEW s, s \in Seq(Els(s)), \A x \in Els(s) : x.ts \in Nat,
         NEW b, b.ts \in Nat, NEW cand, IsBar(cand), cand.ts = b.ts
  PROVE  LET u == Series!Install(s, b, cand)
             sure == [cand EXCEPT !.confirmed = TRUE] IN
         /\ u \in Seq(Els(u))
         /\ Series!Ohlcv(b) = Series!Ohlcv(cand) => Els(u) \subseteq Els(s) \union {[b EXCEPT !.confirmed = TRUE]}
         /\ Series!Ohlcv(b) # Series!Ohlcv(cand) =>
              /\ Els(u) \subseteq Els(s) \union {sure}
              /\ (\A x \in Els(s) : x.ts <= b.ts) => Len(u) > 0 /\ u[Len(u)] = sure
<1>. DEFINE u == Series!Install(s, b, cand)
            sure == [cand EXCEPT !.confirmed = TRUE]
            ours == [b EXCEPT !.confirmed = TRUE]
<1>1. sure.ts = b.ts
  BY Confirming
<1>. HIDE DEF sure, ours
<1>2. CASE Series!Ohlcv(b) = Series!Ohlcv(cand)
  <2>. DEFINE S == Els(s) \union {ours}
  <2>1. u = [i \in DOMAIN s |-> IF s[i] = b THEN ours ELSE s[i]]
    BY <1>2 DEF Series!Install, ours
  <2>2. Len(s) \in Nat /\ DOMAIN s = 1..Len(s) /\ \A k \in 1..Len(s) : s[k] \in Els(s)
    BY ElsKnown
  <2>3. u \in Seq(S)
    <3>1. \A k \in 1..Len(s) : (IF s[k] = b THEN ours ELSE s[k]) \in S
      BY <2>2
    <3>. HIDE DEF S
    <3>. QED  BY <2>1, <2>2, <3>1
  <2>. HIDE DEF S, u
  <2>4. Els(u) \subseteq S /\ u \in Seq(Els(u))
    BY <2>3, ElsOf
  <2>. QED  BY <1>2, <2>4 DEF S, u, ours
<1>3. CASE Series!Ohlcv(b) # Series!Ohlcv(cand)
  <2>1. u = Series!ReplaceClosed(s, sure)
    BY <1>3 DEF Series!Install, sure
  <2>2. /\ u \in Seq(Els(u)) /\ Els(u) \subseteq Els(s) \union {sure}
        /\ (\A x \in Els(s) : x.ts <= sure.ts) => Len(u) > 0 /\ u[Len(u)] = sure
    BY <1>1, <2>1, ElsReplaced
  <2>. HIDE DEF u
  <2>. QED  BY <1>1, <1>3, <2>2 DEF u, sure
<1>. QED  BY <1>2, <1>3

-----------------------------------------------------------------------------
(* The tape. *)

LEMMA SameCount == \A S : Series!Cardinality(S) = Cardinality(S)
  BY DEF Series!Cardinality, Cardinality, Series!IsFiniteSet, IsFiniteSet

LEMMA TheCandle == \A b : Series!TradesIn(DecisionTf, b) = Traded(tape, b) /\ Series!Candle(DecisionTf, b) = CandleOf(tape, b)
  BY SameCount DEF Series!Candle, CandleOf, Series!TradesIn, Traded, Bucket, Series!PricesOf

LEMMA CountsGrow ==
  ASSUME NEW n \in Nat, NEW S, S \subseteq 1..n, NEW T, T \subseteq S
  PROVE  Cardinality(T) \in Nat /\ Cardinality(S) \in Nat /\ Cardinality(T) <= Cardinality(S)
         /\ (T # {} => Cardinality(T) > 0)
<1>1. IsFiniteSet(S)
  <2>1. IsFiniteSet(1..n)
    BY FS_Interval
  <2>. QED  BY <2>1, FS_Subset
<1>2. IsFiniteSet(T)
  BY <1>1, FS_Subset
<1>3. Cardinality(T) \in Nat /\ Cardinality(S) \in Nat /\ Cardinality(T) <= Cardinality(S)
  BY <1>1, <1>2, FS_Subset, FS_CardinalityType
<1>4. T # {} => Cardinality(T) # 0
  BY <1>2, FS_EmptySet
<1>5. T # {} => Cardinality(T) > 0
  BY <1>3, <1>4
<1>. QED  BY <1>3, <1>5

LEMMA TapeKnown ==
  ASSUME NEW tp, NEW time, IsTape(tp, time)
  PROVE  /\ Len(tp) \in Nat /\ DOMAIN tp = 1..Len(tp)
         /\ \A n \in 1..Len(tp) : tp[n].t \in Nat /\ tp[n].t <= time
         /\ \A b : Traded(tp, b) \subseteq 1..Len(tp)
         /\ \A n \in Nat : n <= Len(tp) => FirstDay(tp, n) \subseteq 1..Len(tp)
<1>1. Len(tp) \in Nat /\ DOMAIN tp = 1..Len(tp) /\ \A n \in 1..Len(tp) : tp[n] \in [t : Nat, p : Prices]
  <2>1. tp \in Seq([t : Nat, p : Prices])
    BY DEF IsTape
  <2>. DEFINE R == [t : Nat, p : Prices]
  <2>. HIDE DEF R
  <2>2. \A s \in Seq(R) : Len(s) \in Nat /\ DOMAIN s = 1..Len(s) /\ \A n \in 1..Len(s) : s[n] \in R
    OBVIOUS
  <2>. QED  BY <2>1, <2>2 DEF R
<1>. QED  BY <1>1 DEF IsTape, Traded, FirstDay

\* A trade now changes nothing of a bucket that is over, nor of the frames before it.
LEMMA TapeGrows ==
  ASSUME NEW tp, NEW time \in Nat, IsTape(tp, time), NEW p \in Prices
  PROVE  LET q == Append(tp, [t |-> time, p |-> p]) IN
         /\ IsTape(q, time) /\ Len(q) = Len(tp) + 1
         /\ \A b : Traded(tp, b) \subseteq Traded(q, b)
         /\ \A b : End(b) <= time => /\ Traded(q, b) = Traded(tp, b)
                                     /\ Traded(tp, b) # {} => CandleOf(q, b) = CandleOf(tp, b)
         /\ \A n \in Nat : n <= Len(tp) => FirstDay(q, n) = FirstDay(tp, n)
<1>. DEFINE x == [t |-> time, p |-> p]
            q == Append(tp, x)
<1>1. /\ Len(tp) \in Nat /\ DOMAIN tp = 1..Len(tp) /\ tp \in Seq([t : Nat, p : Prices]) /\ x \in [t : Nat, p : Prices]
      /\ \A n \in 1..Len(tp) : tp[n].t \in Nat /\ tp[n].t <= time
  BY TapeKnown DEF IsTape
<1>2. /\ q \in Seq([t : Nat, p : Prices]) /\ Len(q) = Len(tp) + 1 /\ DOMAIN q = 1..(Len(tp) + 1)
      /\ \A n \in 1..Len(tp) : q[n] = tp[n]
      /\ q[Len(tp) + 1] = x /\ x.t = time
  <2>. HIDE DEF x
  <2>1. /\ q \in Seq([t : Nat, p : Prices]) /\ Len(q) = Len(tp) + 1
        /\ \A n \in 1..Len(tp) : q[n] = tp[n]
        /\ q[Len(tp) + 1] = x
    BY <1>1, AppendProperties
  <2>2. x.t = time
    BY DEF x
  <2>. HIDE DEF q
  <2>. QED  BY <2>1, <2>2
<1>. HIDE DEF x, q
<1>3. IsTape(q, time)
  <2>1. ASSUME NEW m \in DOMAIN q, NEW n \in DOMAIN q, m < n PROVE q[m].t <= q[n].t
    <3>1. m \in 1..Len(tp)
      BY <1>1, <1>2, <2>1
    <3>2. CASE n \in 1..Len(tp)
      BY <1>1, <1>2, <2>1, <3>1, <3>2 DEF IsTape
    <3>3. CASE n = Len(tp) + 1
      BY <1>1, <1>2, <3>1, <3>3
    <3>. QED  BY <1>1, <1>2, <3>2, <3>3
  <2>2. ASSUME NEW n \in DOMAIN q PROVE q[n].t <= time
    <3>1. n \in 1..Len(tp) \/ n = Len(tp) + 1
      BY <1>1, <1>2
    <3>. QED  BY <1>1, <1>2, <3>1
  <2>. QED  BY <1>2, <2>1, <2>2 DEF IsTape
<1>4. \A b : Traded(tp, b) \subseteq Traded(q, b)
  BY <1>1, <1>2 DEF Traded
<1>5. ASSUME NEW b, End(b) <= time
      PROVE  /\ Traded(q, b) = Traded(tp, b)
             /\ Traded(tp, b) # {} => CandleOf(q, b) = CandleOf(tp, b)
  <2>1. Len(tp) + 1 \notin Traded(q, b)
    <3>1. SUFFICES ASSUME Series!InSession(time), Bucket(time) = b PROVE FALSE
      BY <1>2 DEF Traded
    <3>2. time < End(b) /\ End(b) \in Nat
      BY <3>1, BucketOf
    <3>. QED  BY <1>5, <3>2
  <2>2. Traded(q, b) = Traded(tp, b)
    <3>1. ASSUME NEW n \in Traded(q, b) PROVE n \in Traded(tp, b)
      <4>1. n \in 1..Len(tp)
        BY <1>1, <1>2, <2>1 DEF Traded
      <4>. QED  BY <1>1, <1>2, <4>1 DEF Traded
    <3>. QED  BY <1>4, <3>1
  <2>3. ASSUME Traded(tp, b) # {} PROVE CandleOf(q, b) = CandleOf(tp, b)
    <3>. DEFINE N == Traded(tp, b)
    <3>1. N \subseteq 1..Len(tp) /\ N # {} /\ Traded(q, b) = N
      BY <1>1, <2>2, <2>3, TapeKnown
    <3>2. Series!LeastOf(N) \in N
      <4>1. N \subseteq Nat
        BY <1>1, <3>1
      <4>. HIDE DEF N
      <4>. QED  BY <3>1, <4>1, LeastIsOne
    <3>3. Series!GreatestOf(N) \in N
      <4>. HIDE DEF N
      <4>. QED  BY <1>1, <3>1, GreatestIsOne
    <3>. HIDE DEF N
    <3>4. {q[n].p : n \in N} = {tp[n].p : n \in N}
      BY <1>2, <3>1
    <3>5. q[Series!LeastOf(N)] = tp[Series!LeastOf(N)] /\ q[Series!GreatestOf(N)] = tp[Series!GreatestOf(N)]
      BY <1>2, <3>1, <3>2, <3>3
    <3>6. Traded(tp, b) = N
      BY DEF N
    <3>. QED  BY <3>1, <3>4, <3>5, <3>6 DEF CandleOf
  <2>. QED  BY <2>2, <2>3
<1>6. ASSUME NEW n \in Nat, n <= Len(tp) PROVE FirstDay(q, n) = FirstDay(tp, n)
  <2>1. \A m \in 1..n : q[m] = tp[m]
    BY <1>1, <1>2, <1>6
  <2>. QED  BY <2>1 DEF FirstDay
<1>. QED  BY <1>2, <1>3, <1>4, <1>5, <1>6 DEF q, x

\* What a frame counts on the first day, and that the day before a trade of the first
\* bucket is that bucket.
LEMMA FrameOf ==
  ASSUME IsTape(tape, now), now \in Nat, NEW n \in DOMAIN tape
  PROVE  /\ Series!Frame(n).ts \in Nat /\ Series!Frame(n).ts <= now
         /\ Series!DayOf(Series!Frame(n).ts) = 0 =>
              /\ Series!Frame(n).total = Cardinality(FirstDay(tape, n))
              /\ Series!Frame(n).total \in Nat /\ Series!Frame(n).total > 0
              /\ \A m \in Nat : m <= n => /\ Cardinality(FirstDay(tape, m)) \in Nat
                                          /\ Cardinality(FirstDay(tape, m)) <= Series!Frame(n).total
         /\ Series!InSession(Series!Frame(n).ts) /\ Bucket(Series!Frame(n).ts) = 0 =>
              Series!DayOf(Series!Frame(n).ts) = 0 /\ Series!Frame(n).total <= Cardinality(Traded(tape, 0))
              /\ Cardinality(Traded(tape, 0)) \in Nat
<1>1. /\ Len(tape) \in Nat /\ n \in 1..Len(tape) /\ n \in Nat
      /\ \A m \in 1..Len(tape) : tape[m].t \in Nat /\ tape[m].t <= now
      /\ \A b : Traded(tape, b) \subseteq 1..Len(tape)
      /\ \A m \in Nat : m <= Len(tape) => FirstDay(tape, m) \subseteq 1..Len(tape)
  BY TapeKnown
<1>2. Series!Frame(n).ts = tape[n].t
  BY DEF Series!Frame
<1>3. Series!Frame(n).total = Cardinality({m \in 1..n : Series!DayOf(tape[m].t) = Series!DayOf(tape[n].t)})
  BY SameCount DEF Series!Frame
<1>4. ASSUME Series!DayOf(tape[n].t) = 0
      PROVE  /\ Series!Frame(n).total = Cardinality(FirstDay(tape, n))
             /\ Series!Frame(n).total \in Nat /\ Series!Frame(n).total > 0
             /\ \A m \in Nat : m <= n => /\ Cardinality(FirstDay(tape, m)) \in Nat
                                         /\ Cardinality(FirstDay(tape, m)) <= Series!Frame(n).total
  <2>1. Series!Frame(n).total = Cardinality(FirstDay(tape, n))
    BY <1>3, <1>4 DEF FirstDay
  <2>2. n \in FirstDay(tape, n)
    BY <1>1, <1>4 DEF FirstDay
  <2>3. FirstDay(tape, n) \subseteq 1..Len(tape)
    BY <1>1
  <2>4. Cardinality(FirstDay(tape, n)) \in Nat /\ Cardinality(FirstDay(tape, n)) > 0
    BY <1>1, <2>2, <2>3, CountsGrow
  <2>5. ASSUME NEW m \in Nat, m <= n
        PROVE  Cardinality(FirstDay(tape, m)) \in Nat /\ Cardinality(FirstDay(tape, m)) <= Cardinality(FirstDay(tape, n))
    <3>1. FirstDay(tape, m) \subseteq FirstDay(tape, n)
      BY <1>1, <2>5 DEF FirstDay
    <3>. QED  BY <1>1, <2>3, <3>1, CountsGrow
  <2>. QED  BY <2>1, <2>4, <2>5
<1>5. ASSUME Series!InSession(tape[n].t), Bucket(tape[n].t) = 0
      PROVE  /\ Series!DayOf(tape[n].t) = 0
             /\ Cardinality(FirstDay(tape, n)) <= Cardinality(Traded(tape, 0)) /\ Cardinality(Traded(tape, 0)) \in Nat
  <2>1. FirstDay(tape, n) \subseteq Traded(tape, 0)
    <3>1. ASSUME NEW m \in 1..n PROVE m \in Traded(tape, 0)
      <4>1. m \in 1..Len(tape) /\ (m = n \/ m < n)
        BY <1>1
      <4>2. tape[m].t <= tape[n].t /\ tape[m].t \in Nat /\ tape[n].t \in Nat
        BY <1>1, <4>1 DEF IsTape
      <4>3. Series!InSession(tape[m].t) /\ Bucket(tape[m].t) = 0
        BY <1>5, <4>2, InFirst
      <4>. QED  BY <1>1, <4>1, <4>3 DEF Traded
    <3>. QED  BY <3>1 DEF FirstDay
  <2>2. Series!DayOf(tape[n].t) = 0
    BY <1>1, <1>5, InFirst
  <2>. QED  BY <1>1, <2>1, <2>2, CountsGrow
<1>. QED  BY <1>1, <1>2, <1>4, <1>5

-----------------------------------------------------------------------------
(* What stands, stands as the tape grows and time passes. *)

\* A later tape: it has what was traded, and nothing new in a bucket that is over.
Follows(q, tp, time) ==
    /\ \A b : Traded(tp, b) \subseteq Traded(q, b)
    /\ \A b : End(b) <= time => /\ Traded(q, b) = Traded(tp, b)
                                /\ Traded(tp, b) # {} => CandleOf(q, b) = CandleOf(tp, b)

LEMMA BuiltStays ==
  ASSUME NEW tp, NEW q, NEW time, NEW next, IsTape(q, next), Follows(q, tp, time),
         NEW since, NEW x, Built(x, tp, since)
  PROVE  Built(x, q, since)
<1>1. Traded(tp, 0) \subseteq Traded(q, 0) /\ Traded(q, 0) \subseteq 1..Len(q) /\ Len(q) \in Nat
  BY TapeKnown DEF Follows
<1>2. Cardinality(Traded(tp, 0)) \in Nat /\ Cardinality(Traded(q, 0)) \in Nat
      /\ Cardinality(Traded(tp, 0)) <= Cardinality(Traded(q, 0))
  BY <1>1, CountsGrow
<1>3. x.v \in Nat /\ x.v < Cardinality(Traded(tp, 0)) => x.v < Cardinality(Traded(q, 0))
  BY <1>2
<1>. QED  BY <1>3 DEF Built

LEMMA UpheldStays ==
  ASSUME NEW tp, NEW q, NEW time, Follows(q, tp, time), NEW late, NEW more, late \subseteq more,
         NEW t, End(t.bar.ts) <= time, Upheld(t, tp, late)
  PROVE  Upheld(t, q, more)
  BY DEF Upheld, Follows, Once

LEMMA PlacedStays ==
  ASSUME NEW tp, NEW q, NEW time \in Nat, NEW next \in Nat, time <= next, Follows(q, tp, time),
         NEW late, NEW more, late \subseteq more, NEW since, NEW all, NEW others,
         \A i \in DOMAIN all : i \in DOMAIN others /\ others[i].bar = all[i].bar,
         NEW x, x.ts = 0 => End(x.ts) \in Nat, Placed(x, tp, since, late, time, all)
  PROVE  Placed(x, q, since, more, next, others)
<1>1. IsBar(x)
  BY DEF Placed
<1>2. x.ts = 0 \/ (IsBucket(x.ts) /\ End(x.ts) <= next)
  BY BucketBounds DEF Placed
<1>3. ASSUME Once(x.ts, more) PROVE Origin(x, q, since, next, others)
  <2>1. Origin(x, tp, since, time, all)
    BY <1>3 DEF Placed, Once
  <2>2. CASE x.src = "rest" /\ since > 0 /\ x.ts = 0
    BY <2>2 DEF Origin
  <2>3. CASE /\ x.src = "rest" /\ Traded(tp, x.ts) # {}
             /\ Series!Ohlcv(x) = Series!Ohlcv(CandleOf(tp, x.ts)) /\ End(x.ts) <= time
    <3>1. Traded(q, x.ts) # {} /\ CandleOf(q, x.ts) = CandleOf(tp, x.ts)
      BY <2>3 DEF Follows
    <3>2. End(x.ts) <= next
      BY <2>3, BucketBounds DEF Placed
    <3>. QED  BY <2>3, <3>1, <3>2 DEF Origin
  <2>4. CASE \E i \in DOMAIN all : LET b == all[i].bar IN
               b.ts = x.ts /\ b.src = x.src /\ Series!Ohlcv(b) = Series!Ohlcv(x)
    BY <2>4 DEF Origin
  <2>. QED  BY <2>1, <2>2, <2>3, <2>4 DEF Origin
<1>. QED  BY <1>1, <1>2, <1>3 DEF Placed

LEMMA FirstEnds == End(0) \in Nat
<1>1. Series!DayOf(0) \in Nat /\ Series!OpenOf(Series!DayOf(0)) \in Nat /\ Series!CloseOf(Series!DayOf(0)) = Series!OpenOf(Series!DayOf(0)) + Close
  BY DayFacts
<1>2. End(0) = Series!Lesser(0 + Step[DecisionTf], Series!CloseOf(Series!DayOf(0)))
  BY SeriesFacts DEF End, Series!BucketEnd
<1>. QED  BY <1>1, <1>2, SeriesFacts DEF Series!Lesser

LEMMA FollowsItself == ASSUME NEW tp, NEW time PROVE Follows(tp, tp, time)
  BY DEF Follows

\* Time passes, or a trade happens, and nobody builds or decides.
LEMMA TimePasses ==
  ASSUME Settled, UNCHANGED <<joined, seen, st, forming, tasks, touched>>,
         now' \in Nat, now <= now', IsTape(tape', now'), Follows(tape', tape, now), Len(tape) <= Len(tape'),
         joined > 0 /\ st.day = 0 => FirstDay(tape', seen) = FirstDay(tape, seen),
         DOMAIN closed' = Series!Frames, closed'[DecisionTf] = closed[DecisionTf],
         forming[DecisionTf] # None /\ Once(forming[DecisionTf].ts, touched) => now' <= End(forming[DecisionTf].ts),
         \A i \in DOMAIN tasks : Due(tasks[i]) => now' = now
  PROVE  Settled'
<1>1. Times'
  <2>1. Len(tape) \in Nat /\ Len(tape') \in Nat
    BY TapeKnown DEF Settled, Times
  <2>. QED  BY <2>1 DEF Settled, Times
<1>2. Forming'
  <2>. SUFFICES ASSUME forming[DecisionTf] # None
                PROVE  Formed(forming[DecisionTf], tape', joined, touched, now', st)
    BY DEF Forming
  <2>1. Formed(forming[DecisionTf], tape, joined, touched, now, st)
    BY DEF Settled, Forming
  <2>2. Built(forming[DecisionTf], tape', joined)
    BY <2>1, BuiltStays DEF Formed
  <2>. QED  BY <2>1, <2>2 DEF Formed
<1>3. Decisions'
  <2>1. ASSUME NEW i \in DOMAIN tasks PROVE Asked(tasks[i], tape', joined, touched, now')
    <3>1. Asked(tasks[i], tape, joined, touched, now) /\ now \in Nat
      BY DEF Settled, Decisions, Times
    <3>2. Built(tasks[i].bar, tape', joined)
      BY <3>1, BuiltStays DEF Asked
    <3>3. End(tasks[i].bar.ts) \in Nat /\ End(tasks[i].bar.ts) <= now'
      BY <3>1, BucketBounds DEF Asked, Built
    <3>4. tasks[i].stage = "decided" => Upheld(tasks[i], tape', touched)
      BY <3>1, UpheldStays DEF Asked
    <3>. QED  BY <3>1, <3>2, <3>3, <3>4 DEF Asked
  <2>. QED  BY <2>1 DEF Settled, Decisions
<1>4. Apart'
  BY DEF Settled, Apart
<1>5. Stored'
  <2>1. ASSUME NEW x \in Els(closed[DecisionTf]) PROVE Placed(x, tape', joined, touched, now', tasks)
    BY PlacedStays, FirstEnds DEF Settled, Stored, Times
  <2>. QED  BY <2>1 DEF Settled, Stored
<1>. QED  BY <1>1, <1>2, <1>3, <1>4, <1>5 DEF Settled

LEMMA TradeKeeps == ASSUME Settled, NEW p \in Prices, Series!Trade(p) PROVE Settled'
<1>. DEFINE q == Append(tape, [t |-> now, p |-> p])
<1>1. now \in Nat /\ IsTape(tape, now) /\ seen \in Nat /\ seen <= Len(tape) /\ Len(tape) \in Nat
  BY TapeKnown DEF Settled, Times
<1>2. /\ IsTape(q, now) /\ Len(q) = Len(tape) + 1
      /\ \A b : Traded(tape, b) \subseteq Traded(q, b)
      /\ \A b : End(b) <= now => /\ Traded(q, b) = Traded(tape, b)
                                 /\ Traded(tape, b) # {} => CandleOf(q, b) = CandleOf(tape, b)
      /\ \A n \in Nat : n <= Len(tape) => FirstDay(q, n) = FirstDay(tape, n)
  BY <1>1, TapeGrows
<1>3. tape' = q /\ UNCHANGED <<now, joined, seen, st, forming, closed, tasks, touched>>
  BY DEF Series!Trade
<1>. HIDE DEF q
<1>4. Follows(q, tape, now) /\ Len(tape) <= Len(q) /\ FirstDay(q, seen) = FirstDay(tape, seen)
  BY <1>1, <1>2 DEF Follows
<1>5. DOMAIN closed = Series!Frames /\ (forming[DecisionTf] # None /\ Once(forming[DecisionTf].ts, touched) => now <= End(forming[DecisionTf].ts))
  BY DEF Settled, Times, Forming, Formed
<1>. QED  BY <1>1, <1>2, <1>3, <1>4, <1>5, TimePasses

LEMMA TickKeeps == ASSUME Settled, Series!Tick PROVE Settled'
<1>1. now' = now + 1 /\ UNCHANGED <<tape, joined, seen, st, forming, closed, tasks, touched>>
  BY DEF Series!Tick
<1>2. \A i \in DOMAIN tasks : ~Due(tasks[i])
  BY DEF Series!Tick, Series!Pending, Due
<1>3. now \in Nat /\ IsTape(tape, now) /\ DOMAIN closed = Series!Frames /\ Len(tape) \in Nat
  BY TapeKnown DEF Settled, Times
<1>4. forming[DecisionTf] # None => now + 1 <= End(forming[DecisionTf].ts)
  <2>. SUFFICES ASSUME forming[DecisionTf] # None PROVE now + 1 <= End(forming[DecisionTf].ts)
    OBVIOUS
  <2>1. IsBucket(forming[DecisionTf].ts)
    BY DEF Settled, Forming, Formed, Built
  <2>2. End(forming[DecisionTf].ts) \in Nat
    BY <2>1, BucketBounds
  <2>3. ~(now >= End(forming[DecisionTf].ts))
    BY SeriesFacts DEF Series!Tick, Series!Stale, End
  <2>. QED  BY <1>3, <2>2, <2>3
<1>5. IsTape(tape, now + 1)
  <2>1. \A n \in DOMAIN tape : tape[n].t \in Nat /\ tape[n].t <= now
    BY <1>3, TapeKnown
  <2>2. \A n \in DOMAIN tape : tape[n].t <= now + 1
    BY <1>3, <2>1
  <2>. QED  BY <1>3, <2>2 DEF IsTape
<1>6. now + 1 \in Nat /\ now <= now + 1 /\ Len(tape) <= Len(tape)
  BY <1>3
<1>. QED  BY <1>1, <1>2, <1>3, <1>4, <1>5, <1>6, FollowsItself, TimePasses

\* What concerns neither a frame nor a decision.
LEMMA OthersKeep ==
  ASSUME Settled, \/ Series!SweepAsks \/ Series!SweepAnswered \/ Series!SweepFails
                  \/ Series!RefetchDaily \/ Series!Reconnect \/ UNCHANGED Series!vars
  PROVE  Settled'
<1>1. UNCHANGED <<now, tape, joined, seen, st, forming, tasks, touched>>
  BY DEF Series!SweepAsks, Series!SweepAnswered, Series!SweepFails, Series!RefetchDaily, Series!Reconnect, Series!vars
<1>2. now \in Nat /\ IsTape(tape, now) /\ DOMAIN closed = Series!Frames /\ Len(tape) \in Nat
  BY TapeKnown DEF Settled, Times
<1>3. DOMAIN closed' = Series!Frames /\ closed'[DecisionTf] = closed[DecisionTf]
  <2>1. CASE closed' = closed
    BY <1>2, <2>1
  <2>2. CASE Series!SweepAnswered
    <3>1. PICK u : closed' = [closed EXCEPT ![SweepTf] = u]
      BY <2>2 DEF Series!SweepAnswered
    <3>. QED  BY <1>2, <3>1, SeriesFacts
  <2>3. CASE Series!RefetchDaily
    <3>1. PICK u : closed' = [closed EXCEPT ![Series!Daily] = u]
      BY <2>3 DEF Series!RefetchDaily
    <3>. QED  BY <1>2, <3>1, SeriesFacts
  <2>. QED  BY <2>1, <2>2, <2>3 DEF Series!SweepAsks, Series!SweepFails, Series!Reconnect, Series!vars
<1>4. forming[DecisionTf] # None /\ Once(forming[DecisionTf].ts, touched) => now <= End(forming[DecisionTf].ts)
  BY DEF Settled, Forming, Formed
<1>5. now <= now /\ Len(tape) <= Len(tape)
  BY <1>2
<1>. QED  BY <1>1, <1>2, <1>3, <1>4, <1>5, FollowsItself, TimePasses

-----------------------------------------------------------------------------
(* A decision's answer. *)

LEMMA ElsPut ==
  ASSUME NEW s, s \in Seq(Els(s)), NEW i \in DOMAIN s, NEW x
  PROVE  LET u == [s EXCEPT ![i] = x] IN
         /\ u \in Seq(Els(u)) /\ DOMAIN u = DOMAIN s
         /\ u[i] = x /\ \A j \in DOMAIN s : j # i => u[j] = s[j]
<1>. DEFINE u == [s EXCEPT ![i] = x]
            S == Els(s) \union {x}
<1>1. s \in Seq(S) /\ x \in S /\ i \in 1..Len(s) /\ DOMAIN s = 1..Len(s) /\ Len(s) \in Nat
  BY SeqMonotonic, ElsKnown
<1>. HIDE DEF S
<1>2. u \in Seq(S)
  BY <1>1, ExceptSeq
<1>3. u \in Seq(Els(u))
  <2>. HIDE DEF u
  <2>. QED  BY <1>2, ElsOf
<1>. QED  BY <1>3

LEMMA DecidedIs ==
  ASSUME NEW t, IsTask(t), NEW found \in BOOLEAN, NEW s
  PROVE  LET u == Series!Decided(t, found, s) IN
         /\ IsTask(u) /\ u.bar = t.bar /\ ~Due(u)
         /\ u.stage = "decided" => /\ found \/ t.bar.src # "partial"
                                   /\ u.found = found
                                   /\ u.on = IF s # <<>> /\ s[Len(s)].ts = t.bar.ts THEN s[Len(s)] ELSE t.bar
<1>. DEFINE on == IF s # <<>> /\ s[Len(s)].ts = t.bar.ts THEN s[Len(s)] ELSE t.bar
            skipped == [t EXCEPT !.stage = "skipped"]
            chosen == [t EXCEPT !.stage = "decided", !.found = found, !.on = on]
            u == Series!Decided(t, found, s)
<1>1. u = IF ~found /\ t.bar.src = "partial" THEN skipped ELSE chosen
  BY DEF Series!Decided
<1>2. IsTask(skipped) /\ skipped.bar = t.bar /\ skipped.stage = "skipped"
  <2>1. skipped \in [bar : {t.bar}, stage : {"skipped"}, found : {t.found}, on : {t.on}]
    BY DEF IsTask
  <2>. HIDE DEF skipped
  <2>. QED  BY <2>1 DEF IsTask
<1>. HIDE DEF on
<1>3. IsTask(chosen) /\ chosen.bar = t.bar /\ chosen.stage = "decided" /\ chosen.found = found /\ chosen.on = on
  <2>1. chosen \in [bar : {t.bar}, stage : {"decided"}, found : {found}, on : {on}]
    BY DEF IsTask
  <2>. HIDE DEF chosen
  <2>. QED  BY <2>1 DEF IsTask
<1>. HIDE DEF skipped, chosen, u
<1>4. /\ IsTask(u) /\ u.bar = t.bar /\ ~Due(u)
      /\ u.stage = "decided" => (found \/ t.bar.src # "partial") /\ u.found = found /\ u.on = on
  BY <1>1, <1>2, <1>3 DEF Due
<1>. QED  BY <1>4 DEF u, on

\* One task answers; the series may gain what the answer brings.
LEMMA AnswerKeeps ==
  ASSUME Settled, NEW i \in DOMAIN tasks, NEW u, NEW s,
         UNCHANGED <<now, tape, joined, seen, st, forming, touched>>,
         tasks' = [tasks EXCEPT ![i] = u], DOMAIN closed' = Series!Frames, closed'[DecisionTf] = s,
         u.bar = tasks[i].bar, Asked(u, tape, joined, touched, now),
         s \in Seq(Els(s)), \A x \in Els(s) : Placed(x, tape, joined, touched, now, tasks)
  PROVE  Settled'
<1>1. tasks \in Seq(Els(tasks)) /\ now \in Nat /\ IsTape(tape, now) /\ DOMAIN closed = Series!Frames
  BY DEF Settled, Decisions, Times
<1>2. /\ tasks' \in Seq(Els(tasks')) /\ DOMAIN tasks' = DOMAIN tasks
      /\ tasks'[i] = u /\ \A j \in DOMAIN tasks : j # i => tasks'[j] = tasks[j]
  BY <1>1, ElsPut
<1>3. \A j \in DOMAIN tasks : tasks'[j].bar = tasks[j].bar
  BY <1>2
<1>4. Times'
  BY <1>1 DEF Settled, Times
<1>5. Forming'
  BY DEF Settled, Forming
<1>6. Decisions'
  <2>1. ASSUME NEW j \in DOMAIN tasks PROVE Asked(tasks'[j], tape, joined, touched, now)
    BY <1>2 DEF Settled, Decisions
  <2>2. Els(tasks') = Els(tasks)'
    BY DEF Els
  <2>. QED  BY <1>2, <2>1, <2>2 DEF Decisions
<1>7. Apart'
  BY <1>2, <1>3 DEF Settled, Apart
<1>8. Stored'
  <2>1. now <= now /\ touched \subseteq touched /\ Follows(tape, tape, now)
        /\ \A j \in DOMAIN tasks : j \in DOMAIN tasks' /\ tasks'[j].bar = tasks[j].bar
    BY <1>1, <1>2, <1>3, FollowsItself
  <2>2. ASSUME NEW x \in Els(s) PROVE Placed(x, tape, joined, touched, now, tasks')
    <3>1. Placed(x, tape, joined, touched, now, tasks) /\ (x.ts = 0 => End(x.ts) \in Nat)
      BY FirstEnds
    <3>. QED  BY <1>1, <2>1, <3>1, PlacedStays
  <2>. QED  BY <2>2 DEF Stored
<1>. QED  BY <1>4, <1>5, <1>6, <1>7, <1>8 DEF Settled

\* What is known of a task that is asked about, and of the series it is decided on.
LEMMA WhenAsked ==
  ASSUME Settled, NEW i \in DOMAIN tasks, Due(tasks[i]), Once(tasks[i].bar.ts, touched)
  PROVE  /\ now = End(tasks[i].bar.ts)
         /\ \A x \in Els(closed[DecisionTf]) : x.ts <= tasks[i].bar.ts
<1>. DEFINE b == tasks[i].bar.ts
<1>1. IsBucket(b) /\ b \in Nat /\ End(b) \in Nat /\ End(b) <= now /\ now <= End(b) /\ now \in Nat
  BY BucketBounds DEF Settled, Decisions, Asked, Built, Times
<1>. HIDE DEF b
<1>2. now = End(b)
  BY <1>1
<1>3. ASSUME NEW x \in Els(closed[DecisionTf]) PROVE x.ts <= b
  <2>1. x.ts = 0 \/ (IsBucket(x.ts) /\ End(x.ts) <= now)
    BY DEF Settled, Stored, Placed
  <2>2. CASE x.ts = 0
    BY <1>1, <2>2
  <2>3. CASE IsBucket(x.ts) /\ End(x.ts) <= now
    <3>1. x.ts \in Nat /\ End(x.ts) \in Nat /\ x.ts < End(x.ts)
      BY <2>3, BucketBounds
    <3>2. b < x.ts => End(b) <= x.ts
      BY <1>1, <2>3, NextBucket
    <3>. QED  BY <1>1, <1>2, <2>3, <3>1, <3>2
  <2>. QED  BY <2>1, <2>2, <2>3
<1>. QED  BY <1>2, <1>3 DEF b

\* Of the bars held in a task's bucket, one that is not the task's is the exchange's, or the
\* boot's - and then the task's own lacks volume.
LEMMA InItsPlace ==
  ASSUME Settled, NEW i \in DOMAIN tasks, Once(tasks[i].bar.ts, touched),
         NEW x \in Els(closed[DecisionTf]), x.ts = tasks[i].bar.ts
  PROVE  \/ Series!Ohlcv(x) = Series!Ohlcv(tasks[i].bar) /\ x.src = tasks[i].bar.src
         \/ /\ x.src = "rest" /\ Traded(tape, x.ts) # {}
            /\ Series!Ohlcv(x) = Series!Ohlcv(CandleOf(tape, x.ts))
         \/ x.src = "rest" /\ tasks[i].bar.src = "partial" /\ Series!Ohlcv(tasks[i].bar) # Series!Ohlcv(CandleOf(tape, x.ts))
<1>1. Origin(x, tape, joined, now, tasks)
  BY DEF Settled, Stored, Placed
<1>2. CASE x.src = "rest" /\ joined > 0 /\ x.ts = 0
  <2>1. Built(tasks[i].bar, tape, joined) /\ tasks[i].bar.ts = 0
    BY <1>2 DEF Settled, Decisions, Asked
  <2>2. tasks[i].bar.src = "partial" /\ tasks[i].bar.v \in Nat /\ tasks[i].bar.v < Cardinality(Traded(tape, 0))
    BY <1>2, <2>1 DEF Built
  <2>3. Cardinality(Traded(tape, 0)) \in Nat
    BY TapeKnown, CountsGrow DEF Settled, Times
  <2>4. tasks[i].bar.v # Cardinality(Traded(tape, 0))
    BY <2>2, <2>3
  <2>5. Series!Ohlcv(CandleOf(tape, 0))[5] = Cardinality(Traded(tape, 0)) /\ Series!Ohlcv(tasks[i].bar)[5] = tasks[i].bar.v
    BY DEF Series!Ohlcv, CandleOf
  <2>. QED  BY <1>2, <2>2, <2>4, <2>5
<1>3. CASE /\ x.src = "rest" /\ Traded(tape, x.ts) # {}
           /\ Series!Ohlcv(x) = Series!Ohlcv(CandleOf(tape, x.ts))
  BY <1>3
<1>4. CASE \E j \in DOMAIN tasks : LET b == tasks[j].bar IN
             b.ts = x.ts /\ b.src = x.src /\ Series!Ohlcv(b) = Series!Ohlcv(x)
  <2>1. PICK j \in DOMAIN tasks : tasks[j].bar.ts = x.ts /\ tasks[j].bar.src = x.src /\ Series!Ohlcv(tasks[j].bar) = Series!Ohlcv(x)
    BY <1>4
  <2>2. j = i
    BY <2>1 DEF Settled, Apart
  <2>. QED  BY <2>1, <2>2
<1>. QED  BY <1>1, <1>2, <1>3, <1>4 DEF Origin

\* The exchange's candle is what the task decides on.
LEMMA FoundKeeps == ASSUME Settled, NEW i \in DOMAIN tasks, Series!AskFound(i) PROVE Settled'
<1>. DEFINE t == tasks[i]
            b == t.bar
            cand == CandleOf(tape, b.ts)
            old == closed[DecisionTf]
            s == Series!Install(old, b, cand)
            u == Series!Decided(t, TRUE, s)
            sure == [cand EXCEPT !.confirmed = TRUE]
            ours == [b EXCEPT !.confirmed = TRUE]
<1>1. Due(t) /\ Traded(tape, b.ts) # {}
  BY TheCandle DEF Series!AskFound, Series!Pending, Due
<1>2. UNCHANGED <<now, tape, joined, seen, st, forming, touched>> /\ closed' = [closed EXCEPT ![DecisionTf] = s]
      /\ tasks' = [tasks EXCEPT ![i] = u]
  BY TheCandle DEF Series!AskFound
<1>3. IsTask(t) /\ IsBar(b) /\ Built(b, tape, joined) /\ IsBucket(b.ts) /\ End(b.ts) <= now
  BY DEF Settled, Decisions, Asked, Built
<1>4. b.ts \in Nat /\ End(b.ts) \in Nat /\ now \in Nat
  BY <1>3, BucketBounds DEF Settled, Times
<1>5. old \in Seq(Els(old)) /\ \A x \in Els(old) : Placed(x, tape, joined, touched, now, tasks)
  BY DEF Settled, Stored
<1>6. \A x \in Els(old) : x.ts \in Nat
  BY <1>5, BucketBounds DEF Placed
<1>7. IsBar(cand) /\ cand.ts = b.ts /\ cand.src = "rest"
  BY DEF CandleOf, IsBar
<1>. HIDE DEF cand
<1>8. IsBar(sure) /\ sure.ts = b.ts /\ sure.src = "rest" /\ Series!Ohlcv(sure) = Series!Ohlcv(cand)
  BY <1>7, Confirming
<1>9. IsBar(ours) /\ ours.ts = b.ts /\ ours.src = b.src /\ Series!Ohlcv(ours) = Series!Ohlcv(b)
  BY <1>3, Confirming
<1>10. /\ s \in Seq(Els(s))
       /\ Series!Ohlcv(b) = Series!Ohlcv(cand) => Els(s) \subseteq Els(old) \union {ours}
       /\ Series!Ohlcv(b) # Series!Ohlcv(cand) =>
            /\ Els(s) \subseteq Els(old) \union {sure}
            /\ (\A x \in Els(old) : x.ts <= b.ts) => Len(s) > 0 /\ s[Len(s)] = sure
  BY <1>4, <1>5, <1>6, <1>7, Installing
<1>. HIDE DEF sure, ours, s, old
<1>11. Placed(ours, tape, joined, touched, now, tasks)
  BY <1>3, <1>9 DEF Placed, Origin
<1>12. Placed(sure, tape, joined, touched, now, tasks)
  <2>1. Series!Ohlcv(sure) = Series!Ohlcv(CandleOf(tape, sure.ts)) /\ Traded(tape, sure.ts) # {}
    BY <1>1, <1>8 DEF cand
  <2>. QED  BY <1>3, <1>8, <2>1 DEF Placed, Origin
<1>13. \A x \in Els(s) : Placed(x, tape, joined, touched, now, tasks)
  BY <1>5, <1>10, <1>11, <1>12
<1>14. /\ IsTask(u) /\ u.bar = b /\ ~Due(u)
       /\ u.stage = "decided" => u.on = IF s # <<>> /\ s[Len(s)].ts = b.ts THEN s[Len(s)] ELSE b
  BY <1>3, DecidedIs
<1>. HIDE DEF u
<1>15. ASSUME u.stage = "decided", Once(b.ts, touched) PROVE Series!Ohlcv(u.on) = Series!Ohlcv(cand)
  <2>1. \A x \in Els(old) : x.ts <= b.ts
    BY <1>1, <1>15, WhenAsked DEF old
  <2>2. CASE Series!Ohlcv(b) # Series!Ohlcv(cand)
    <3>1. Len(s) > 0 /\ s[Len(s)] = sure
      BY <1>10, <2>1, <2>2
    <3>2. s # <<>>
      BY <3>1
    <3>. QED  BY <1>8, <1>14, <1>15, <3>1, <3>2
  <2>3. CASE Series!Ohlcv(b) = Series!Ohlcv(cand)
    <3>1. CASE u.on = b
      BY <2>3, <3>1
    <3>2. CASE s # <<>> /\ s[Len(s)].ts = b.ts /\ u.on = s[Len(s)]
      <4>1. s[Len(s)] \in Els(s)
        BY <1>10, <3>2, ElsKnown, EmptySeq
      <4>2. s[Len(s)] \in Els(old) \/ s[Len(s)] = ours
        BY <1>10, <2>3, <4>1
      <4>3. CASE s[Len(s)] = ours
        BY <1>9, <2>3, <3>2, <4>3
      <4>4. CASE s[Len(s)] \in Els(old)
        <5>. DEFINE x == s[Len(s)]
        <5>1. x \in Els(closed[DecisionTf]) /\ x.ts = tasks[i].bar.ts
          BY <3>2, <4>4 DEF old
        <5>. HIDE DEF x
        <5>2. Series!Ohlcv(x) = Series!Ohlcv(b) \/ Series!Ohlcv(x) = Series!Ohlcv(cand)
          BY <1>15, <2>3, <5>1, InItsPlace DEF cand
        <5>. QED  BY <2>3, <3>2, <5>2 DEF x
      <4>. QED  BY <4>2, <4>3, <4>4
    <3>. QED  BY <1>14, <1>15, <3>1, <3>2
  <2>. QED  BY <2>2, <2>3
<1>16. Asked(u, tape, joined, touched, now)
  BY <1>1, <1>3, <1>14, <1>15 DEF Asked, Upheld, cand
<1>17. u.bar = tasks[i].bar
  BY <1>14
<1>18. DOMAIN closed' = Series!Frames /\ closed'[DecisionTf] = s
  BY <1>2, SeriesFacts DEF Settled, Times
<1>. HIDE DEF t, b
<1>. QED  BY <1>2, <1>10, <1>13, <1>16, <1>17, <1>18, AnswerKeeps

\* Without it, a bar that lacks its start is not decided on, nor is another that does.
LEMMA GivenUp ==
  ASSUME Settled, NEW i \in DOMAIN tasks, Due(tasks[i]),
         tasks' = [tasks EXCEPT ![i] = Series!Decided(tasks[i], FALSE, closed[DecisionTf])],
         UNCHANGED <<now, tape, joined, seen, st, forming, touched, closed>>
  PROVE  Settled'
<1>. DEFINE t == tasks[i]
            b == t.bar
            s == closed[DecisionTf]
            u == Series!Decided(t, FALSE, s)
<1>1. IsTask(t) /\ Built(b, tape, joined) /\ End(b.ts) <= now
  BY DEF Settled, Decisions, Asked
<1>2. s \in Seq(Els(s)) /\ \A x \in Els(s) : Placed(x, tape, joined, touched, now, tasks)
  BY DEF Settled, Stored
<1>3. DOMAIN closed = Series!Frames
  BY DEF Settled, Times
<1>4. /\ IsTask(u) /\ u.bar = b /\ ~Due(u)
      /\ u.stage = "decided" => /\ b.src # "partial" /\ ~u.found
                                /\ u.on = IF s # <<>> /\ s[Len(s)].ts = b.ts THEN s[Len(s)] ELSE b
  BY <1>1, DecidedIs
<1>5. tasks' = [tasks EXCEPT ![i] = u] /\ DOMAIN closed' = Series!Frames /\ closed'[DecisionTf] = s
  BY <1>3
<1>. HIDE DEF u
<1>6. ASSUME u.stage = "decided", Once(b.ts, touched) PROVE u.on.src # "partial"
  <2>1. CASE u.on = b
    BY <1>4, <1>6, <2>1
  <2>2. CASE s # <<>> /\ s[Len(s)].ts = b.ts /\ u.on = s[Len(s)]
    <3>. DEFINE x == s[Len(s)]
    <3>1. x \in Els(closed[DecisionTf]) /\ x.ts = tasks[i].bar.ts
      BY <1>2, <2>2, ElsKnown, EmptySeq
    <3>. HIDE DEF x
    <3>2. x.src = b.src \/ x.src = "rest"
      BY <1>6, <3>1, InItsPlace
    <3>. QED  BY <1>4, <1>6, <2>2, <3>2 DEF x
  <2>. QED  BY <1>4, <1>6, <2>1, <2>2
<1>7. Asked(u, tape, joined, touched, now)
  BY <1>1, <1>4, <1>6 DEF Asked, Upheld
<1>8. u.bar = tasks[i].bar
  BY <1>4
<1>. HIDE DEF t, b, s
<1>. QED  BY <1>2, <1>5, <1>7, <1>8, AnswerKeeps

LEMMA AskKeeps ==
  ASSUME Settled, NEW i \in DOMAIN tasks, Series!AskFound(i) \/ Series!AskMissing(i) \/ Series!AskFails(i)
  PROVE  Settled'
<1>1. CASE Series!AskFound(i)
  BY <1>1, FoundKeeps
<1>2. CASE Series!AskFails(i)
  <2>1. Due(tasks[i]) /\ UNCHANGED <<now, tape, joined, seen, st, forming, touched, closed>>
        /\ tasks' = [tasks EXCEPT ![i] = Series!Decided(tasks[i], FALSE, closed[DecisionTf])]
    BY <1>2 DEF Series!AskFails, Series!Pending, Due
  <2>. QED  BY <2>1, GivenUp
<1>3. CASE Series!AskMissing(i)
  <2>. DEFINE u == [tasks[i] EXCEPT !.stage = "again"]
              s == closed[DecisionTf]
  <2>1. Due(tasks[i]) /\ UNCHANGED <<now, tape, joined, seen, st, forming, touched, closed>>
        /\ tasks' = [tasks EXCEPT ![i] = IF tasks[i].stage = "ask" THEN u
                                         ELSE Series!Decided(tasks[i], FALSE, closed[DecisionTf])]
    BY <1>3 DEF Series!AskMissing, Series!Pending, Due
  <2>2. CASE tasks[i].stage # "ask"
    BY <2>1, <2>2, GivenUp
  <2>3. CASE tasks[i].stage = "ask"
    <3>1. Asked(tasks[i], tape, joined, touched, now) /\ DOMAIN closed = Series!Frames
      BY DEF Settled, Decisions, Times
    <3>2. IsTask(u) /\ u.bar = tasks[i].bar /\ u.stage = "again"
      <4>1. u \in [bar : {tasks[i].bar}, stage : {"again"}, found : {tasks[i].found}, on : {tasks[i].on}]
        BY <3>1 DEF Asked, IsTask
      <4>. HIDE DEF u
      <4>. QED  BY <4>1 DEF IsTask
    <3>. HIDE DEF u
    <3>3. Asked(u, tape, joined, touched, now)
      BY <2>3, <3>1, <3>2 DEF Asked, Due
    <3>4. s \in Seq(Els(s)) /\ \A x \in Els(s) : Placed(x, tape, joined, touched, now, tasks)
      BY DEF Settled, Stored
    <3>5. tasks' = [tasks EXCEPT ![i] = u] /\ DOMAIN closed' = Series!Frames /\ closed'[DecisionTf] = s
      BY <2>1, <2>3, <3>1
    <3>. HIDE DEF s
    <3>. QED  BY <2>1, <3>2, <3>3, <3>4, <3>5, AnswerKeeps
  <2>. QED  BY <2>2, <2>3
<1>. QED  BY <1>1, <1>2, <1>3

-----------------------------------------------------------------------------
(* Frames, and the clock that closes a bar whose bucket is over. *)

\* The forming bar moves on: it may be closed, and its decision is a task then.
LEMMA FormingKeeps ==
  ASSUME Settled, UNCHANGED <<now, tape, joined>>, touched \subseteq touched', Times',
         forming'[DecisionTf] # None => Formed(forming'[DecisionTf], tape, joined, touched', now, st'),
         forming'[DecisionTf] # None => \A i \in DOMAIN tasks :
           tasks[i].bar.ts = forming'[DecisionTf].ts => ~Once(tasks[i].bar.ts, touched'),
         \/ tasks' = tasks /\ closed'[DecisionTf] = closed[DecisionTf]
         \/ /\ forming[DecisionTf] # None /\ End(forming[DecisionTf].ts) <= now
            /\ forming'[DecisionTf] # None => forming'[DecisionTf].ts # forming[DecisionTf].ts
            /\ tasks' = Append(tasks, [bar |-> forming[DecisionTf], stage |-> "ask", found |-> FALSE, on |-> None])
            /\ closed'[DecisionTf] = Series!CloseInto(closed[DecisionTf], forming[DecisionTf])
  PROVE  Settled'
<1>1. Forming'
  BY DEF Forming
<1>2. /\ now \in Nat /\ IsTape(tape, now) /\ tasks \in Seq(Els(tasks))
      /\ closed[DecisionTf] \in Seq(Els(closed[DecisionTf]))
      /\ \A i \in DOMAIN tasks : Asked(tasks[i], tape, joined, touched, now)
      /\ \A x \in Els(closed[DecisionTf]) : Placed(x, tape, joined, touched, now, tasks)
  BY DEF Settled, Times, Decisions, Stored
<1>3. ASSUME NEW i \in DOMAIN tasks PROVE Asked(tasks[i], tape, joined, touched', now)
  <2>1. Asked(tasks[i], tape, joined, touched, now)
    BY <1>2
  <2>2. Once(tasks[i].bar.ts, touched') => Once(tasks[i].bar.ts, touched)
    BY DEF Once
  <2>3. tasks[i].stage = "decided" => Upheld(tasks[i], tape, touched')
    BY <2>1, UpheldStays, FollowsItself DEF Asked
  <2>. QED  BY <2>1, <2>2, <2>3 DEF Asked
<1>4. CASE tasks' = tasks /\ closed'[DecisionTf] = closed[DecisionTf]
  <2>1. Decisions'
    BY <1>2, <1>3, <1>4 DEF Decisions
  <2>2. Apart'
    BY <1>4 DEF Settled, Apart, Once
  <2>3. Stored'
    <3>1. ASSUME NEW x \in Els(closed[DecisionTf]) PROVE Placed(x, tape, joined, touched', now, tasks)
      <4>1. Placed(x, tape, joined, touched, now, tasks) /\ (x.ts = 0 => End(x.ts) \in Nat) /\ now <= now
        BY <1>2, FirstEnds
      <4>. QED  BY <1>2, <4>1, PlacedStays, FollowsItself
    <3>. QED  BY <1>2, <1>4, <3>1 DEF Stored
  <2>. QED  BY <1>1, <2>1, <2>2, <2>3 DEF Settled
<1>5. CASE /\ forming[DecisionTf] # None /\ End(forming[DecisionTf].ts) <= now
           /\ forming'[DecisionTf] # None => forming'[DecisionTf].ts # forming[DecisionTf].ts
           /\ tasks' = Append(tasks, [bar |-> forming[DecisionTf], stage |-> "ask", found |-> FALSE, on |-> None])
           /\ closed'[DecisionTf] = Series!CloseInto(closed[DecisionTf], forming[DecisionTf])
  <2>. DEFINE x == forming[DecisionTf]
              t == [bar |-> x, stage |-> "ask", found |-> FALSE, on |-> None]
              n == Len(tasks) + 1
  <2>1. Formed(x, tape, joined, touched, now, st)
    BY <1>5 DEF Settled, Forming
  <2>2. IsTask(t) /\ t.bar = x /\ t.stage = "ask"
    BY DEF IsTask
  <2>3. tasks' = Append(tasks, t)
    BY <1>5
  <2>. HIDE DEF t, x
  <2>4. /\ tasks' \in Seq(Els(tasks')) /\ DOMAIN tasks' = 1..n /\ DOMAIN tasks = 1..Len(tasks) /\ Len(tasks) \in Nat
        /\ \A k \in 1..Len(tasks) : tasks'[k] = tasks[k]
        /\ tasks'[n] = t
    BY <1>2, <2>3, ElsAppend
  <2>5. \A i \in DOMAIN tasks : i \in DOMAIN tasks' /\ tasks'[i].bar = tasks[i].bar
    BY <2>4
  <2>6. n \in DOMAIN tasks' /\ \A i \in DOMAIN tasks' : i = n \/ i \in DOMAIN tasks
    BY <2>4
  <2>. HIDE DEF n
  <2>7. Decisions'
    <3>1. Asked(t, tape, joined, touched', now)
      BY <1>5, <2>1, <2>2 DEF Asked, Formed, Once, x
    <3>2. \A i \in DOMAIN tasks' : Asked(tasks'[i], tape, joined, touched', now)
      BY <1>3, <2>4, <2>6, <3>1
    <3>3. Els(tasks') = Els(tasks)'
      BY DEF Els
    <3>. QED  BY <2>4, <3>2, <3>3 DEF Decisions
  <2>8. Apart'
    <3>1. ASSUME NEW i \in DOMAIN tasks', Once(tasks'[i].bar.ts, touched'), forming'[DecisionTf] # None
          PROVE  forming'[DecisionTf].ts # tasks'[i].bar.ts
      <4>1. CASE i = n
        BY <1>5, <2>2, <2>4, <3>1, <4>1 DEF x
      <4>2. CASE i \in DOMAIN tasks
        BY <2>5, <3>1, <4>2
      <4>. QED  BY <2>6, <4>1, <4>2
    <3>2. ASSUME NEW i \in DOMAIN tasks', NEW j \in DOMAIN tasks', Once(tasks'[i].bar.ts, touched'), tasks'[j].bar.ts = tasks'[i].bar.ts
          PROVE  j = i
      <4>1. Once(tasks'[i].bar.ts, touched)
        BY <3>2 DEF Once
      <4>2. CASE i \in DOMAIN tasks /\ j \in DOMAIN tasks
        BY <2>5, <3>2, <4>1, <4>2 DEF Settled, Apart
      <4>3. CASE i = n /\ j \in DOMAIN tasks
        <5>1. tasks[j].bar.ts = x.ts /\ Once(tasks[j].bar.ts, touched)
          BY <2>2, <2>4, <2>5, <3>2, <4>1, <4>3
        <5>. QED  BY <1>5, <4>3, <5>1 DEF Settled, Apart, x
      <4>4. CASE i \in DOMAIN tasks /\ j = n
        <5>1. tasks[i].bar.ts = x.ts /\ Once(tasks[i].bar.ts, touched)
          BY <2>2, <2>4, <2>5, <3>2, <4>1, <4>4
        <5>. QED  BY <1>5, <4>4, <5>1 DEF Settled, Apart, x
      <4>. QED  BY <2>6, <4>2, <4>3, <4>4
    <3>. QED  BY <3>1, <3>2 DEF Apart
  <2>9. Stored'
    <3>. DEFINE s == Series!CloseInto(closed[DecisionTf], x)
    <3>1. s \in Seq(Els(s)) /\ Els(s) \subseteq Els(closed[DecisionTf]) \union {x}
      BY <1>2, ElsClosed
    <3>2. closed'[DecisionTf] = s
      BY <1>5 DEF x
    <3>. HIDE DEF s
    <3>3. ASSUME NEW y \in Els(closed[DecisionTf]) PROVE Placed(y, tape, joined, touched', now, tasks')
      <4>1. Placed(y, tape, joined, touched, now, tasks) /\ (y.ts = 0 => End(y.ts) \in Nat) /\ now <= now
        BY <1>2, FirstEnds
      <4>. QED  BY <1>2, <2>5, <4>1, PlacedStays, FollowsItself
    <3>4. Placed(x, tape, joined, touched', now, tasks')
      <4>1. Origin(x, tape, joined, now, tasks')
        BY <2>2, <2>4, <2>6 DEF Origin
      <4>. QED  BY <1>5, <2>1, <4>1 DEF Placed, Formed, Built, x
    <3>5. \A y \in Els(s) : Placed(y, tape, joined, touched', now, tasks')
      BY <3>1, <3>3, <3>4
    <3>. QED  BY <3>1, <3>2, <3>5 DEF Stored
  <2>. QED  BY <1>1, <2>7, <2>8, <2>9 DEF Settled
<1>. QED  BY <1>4, <1>5

LEMMA FlushKeeps == ASSUME Settled, Series!FlushStale PROVE Settled'
<1>. DEFINE due == {tf \in Series!Frames : Series!Stale(tf)}
<1>1. /\ UNCHANGED <<now, tape, seen, joined, st, touched>>
      /\ forming' = [tf \in Series!Frames |-> IF tf \in due THEN None ELSE forming[tf]]
      /\ closed' = [tf \in Series!Frames |-> IF tf \in due THEN Series!CloseInto(closed[tf], forming[tf]) ELSE closed[tf]]
      /\ tasks' = IF DecisionTf \in due
                  THEN Append(tasks, [bar |-> forming[DecisionTf], stage |-> "ask", found |-> FALSE, on |-> None])
                  ELSE tasks
  BY DEF Series!FlushStale, Series!Closing
<1>2. DecisionTf \in due => forming[DecisionTf] # None /\ now >= End(forming[DecisionTf].ts)
  BY DEF Series!Stale, End
<1>. HIDE DEF due
<1>3. /\ forming'[DecisionTf] = IF DecisionTf \in due THEN None ELSE forming[DecisionTf]
      /\ closed'[DecisionTf] = IF DecisionTf \in due THEN Series!CloseInto(closed[DecisionTf], forming[DecisionTf]) ELSE closed[DecisionTf]
      /\ DOMAIN forming' = Series!Frames /\ DOMAIN closed' = Series!Frames
  BY <1>1, SeriesFacts
<1>4. Times'
  BY <1>1, <1>3 DEF Settled, Times
<1>5. forming'[DecisionTf] # None =>
        /\ Formed(forming'[DecisionTf], tape, joined, touched', now, st')
        /\ \A i \in DOMAIN tasks : tasks[i].bar.ts = forming'[DecisionTf].ts => ~Once(tasks[i].bar.ts, touched')
  BY <1>1, <1>3 DEF Settled, Forming, Apart
<1>6. CASE DecisionTf \in due
  <2>1. End(forming[DecisionTf].ts) \in Nat /\ now \in Nat /\ forming[DecisionTf] # None
    BY <1>2, <1>6, BucketBounds DEF Settled, Forming, Formed, Built, Times
  <2>2. End(forming[DecisionTf].ts) <= now
    BY <1>2, <1>6, <2>1
  <2>. QED  BY <1>1, <1>3, <1>4, <1>5, <1>6, <2>1, <2>2, FormingKeeps
<1>7. CASE DecisionTf \notin due
  BY <1>1, <1>3, <1>4, <1>5, <1>7, FormingKeeps
<1>. QED  BY <1>6, <1>7

LEMMA MergedIs ==
  ASSUME NEW x, IsBar(x), NEW f, NEW qty, NEW high, NEW low
  PROVE  LET y == Series!Merged(x, f, qty, high, low) IN
         IsBar(y) /\ y.ts = x.ts /\ y.src = x.src /\ y.v = x.v + qty
<1>. DEFINE h == Series!Greater(x.h, f.ltp)
            l == Series!Lesser(x.l, f.ltp)
            hi == IF high # None /\ high > h THEN high ELSE h
            lo == IF low # None /\ low < l THEN low ELSE l
            y == [x EXCEPT !.c = f.ltp, !.v = x.v + qty, !.h = hi, !.l = lo]
<1>1. Series!Merged(x, f, qty, high, low) = y
  BY DEF Series!Merged
<1>. HIDE DEF hi, lo
<1>2. y \in [ts : {x.ts}, o : {x.o}, h : {hi}, l : {lo}, c : {f.ltp}, v : {x.v + qty}, src : {x.src}, confirmed : {x.confirmed}]
  BY DEF IsBar
<1>. HIDE DEF y
<1>3. IsBar(y) /\ y.ts = x.ts /\ y.src = x.src /\ y.v = x.v + qty
  BY <1>2 DEF IsBar
<1>. QED  BY <1>1, <1>3

LEMMA OpenedIs ==
  ASSUME NEW f
  PROVE  LET y == Series!Opened(DecisionTf, f) IN
         IsBar(y) /\ y.ts = Bucket(f.ts) /\ y.v = 0 /\ y.src = IF Bucket(f.ts) < joined THEN "partial" ELSE "live"
  BY DEF Series!Opened, IsBar, Bucket

LEMMA RolledIs ==
  ASSUME st \in [base : {st.base}, day : {st.day}, dh : {st.dh}, dl : {st.dl}], NEW f
  PROVE  LET s == Series!Rolled(f)
             after == Series!Booked(s, f) IN
         /\ s.base = IF Series!DayOf(f.ts) = st.day THEN st.base
                     ELSE IF joined <= Series!OpenOf(Series!DayOf(f.ts)) THEN 0 ELSE None
         /\ after \in [base : {after.base}, day : {after.day}, dh : {after.dh}, dl : {after.dl}]
         /\ after.base = f.total /\ after.day = Series!DayOf(f.ts)
<1>. DEFINE s == Series!Rolled(f)
            after == Series!Booked(s, f)
            base == IF Series!DayOf(f.ts) = st.day THEN st.base
                    ELSE IF joined <= Series!OpenOf(Series!DayOf(f.ts)) THEN 0 ELSE None
<1>1. s \in [base : {base}, day : {Series!DayOf(f.ts)}, dh : {s.dh}, dl : {s.dl}]
  BY DEF Series!Rolled
<1>. HIDE DEF s, base
<1>2. s.base = base /\ s.day = Series!DayOf(f.ts)
  BY <1>1
<1>3. after \in [base : {f.total}, day : {s.day}, dh : {after.dh}, dl : {after.dl}]
  BY <1>1 DEF Series!Booked
<1>. HIDE DEF after
<1>4. after.base = f.total /\ after.day = s.day /\ after \in [base : {after.base}, day : {after.day}, dh : {after.dh}, dl : {after.dl}]
  BY <1>3
<1>. QED  BY <1>2, <1>4 DEF s, base, after

\* A frame: a bar of the first bucket counts less than the frame merged into it last.
LEMMA OnTickKeeps == ASSUME Settled, NEW n \in Nat, Series!OnTick(n) PROVE Settled'
<1>. DEFINE f == Series!Frame(n)
            s == Series!Rolled(f)
            over == {tf \in Series!Frames : Series!Over(tf, f)}
            reopened == {tf \in Series!Frames : Series!Reopens(tf, f)}
            old == forming[DecisionTf]
            b == Bucket(f.ts)
            y == Series!Applied(DecisionTf, f, s)
<1>1. n \in DOMAIN tape /\ n >= seen /\ seen' = n /\ UNCHANGED <<now, tape, joined>>
  BY DEF Series!OnTick, Settled, Times
<1>2. now \in Nat /\ joined \in Nat /\ IsTape(tape, now) /\ seen \in Nat /\ seen <= n /\ n <= Len(tape) /\ Len(tape) \in Nat
      /\ FirstDay(tape, n) \subseteq 1..Len(tape)
      /\ DOMAIN forming = Series!Frames /\ DOMAIN closed = Series!Frames
      /\ st \in [base : {st.base}, day : {st.day}, dh : {st.dh}, dl : {st.dl}]
      /\ (joined > 0 /\ st.day = 0 => st.base \in Nat /\ 0 < st.base /\ st.base <= Cardinality(FirstDay(tape, seen)))
  BY <1>1, TapeKnown DEF Settled, Times
<1>3. Cardinality(FirstDay(tape, seen)) \in Nat /\ Cardinality(FirstDay(tape, n)) \in Nat
      /\ Cardinality(FirstDay(tape, seen)) <= Cardinality(FirstDay(tape, n))
  <2>1. FirstDay(tape, seen) \subseteq FirstDay(tape, n)
    BY <1>2 DEF FirstDay
  <2>. QED  BY <1>2, <2>1, CountsGrow
<1>4. f.ts \in Nat /\ f.ts <= now
      /\ (Series!DayOf(f.ts) = 0 => f.total = Cardinality(FirstDay(tape, n)) /\ f.total \in Nat /\ f.total > 0)
      /\ (Series!InSession(f.ts) /\ b = 0 =>
            Series!DayOf(f.ts) = 0 /\ f.total <= Cardinality(Traded(tape, 0)) /\ Cardinality(Traded(tape, 0)) \in Nat)
  BY <1>1, <1>2, FrameOf
<1>5. CASE ~Series!InSession(f.ts)
  <2>1. UNCHANGED <<st, forming, closed, tasks, touched>>
    BY <1>5 DEF Series!OnTick
  <2>2. Times'
    BY <1>1, <1>2, <1>3, <2>1 DEF Times
  <2>3. forming[DecisionTf] # None =>
          /\ Formed(forming[DecisionTf], tape, joined, touched, now, st)
          /\ \A i \in DOMAIN tasks : tasks[i].bar.ts = forming[DecisionTf].ts => ~Once(tasks[i].bar.ts, touched)
    BY DEF Settled, Forming, Apart
  <2>. QED  BY <1>1, <2>1, <2>2, <2>3, FormingKeeps
<1>6. CASE Series!InSession(f.ts)
  <2>1. /\ st' = Series!Booked(s, f)
        /\ forming' = [tf \in Series!Frames |-> Series!Applied(tf, f, s)]
        /\ closed' = [tf \in Series!Frames |-> IF tf \in over THEN Series!CloseInto(closed[tf], forming[tf]) ELSE closed[tf]]
        /\ tasks' = IF DecisionTf \in over
                    THEN Append(tasks, [bar |-> forming[DecisionTf], stage |-> "ask", found |-> FALSE, on |-> None])
                    ELSE tasks
        /\ touched' = touched \union {<<tf, Series!BucketStart(tf, f.ts)>> : tf \in reopened}
    BY <1>6 DEF Series!OnTick, Series!Closing
  <2>2. /\ forming'[DecisionTf] = y /\ DOMAIN forming' = Series!Frames /\ DOMAIN closed' = Series!Frames
        /\ closed'[DecisionTf] = IF DecisionTf \in over THEN Series!CloseInto(closed[DecisionTf], old) ELSE closed[DecisionTf]
        /\ touched \subseteq touched'
        /\ DecisionTf \in over <=> Series!Over(DecisionTf, f)
        /\ Series!Reopens(DecisionTf, f) => ~Once(b, touched')
    BY <2>1, SeriesFacts DEF Once, Bucket
  <2>3. /\ s.base = IF Series!DayOf(f.ts) = st.day THEN st.base
                    ELSE IF joined <= Series!OpenOf(Series!DayOf(f.ts)) THEN 0 ELSE None
        /\ st' \in [base : {st'.base}, day : {st'.day}, dh : {st'.dh}, dl : {st'.dl}]
        /\ st'.base = f.total /\ st'.day = Series!DayOf(f.ts)
    BY <1>2, <2>1, RolledIs
  <2>4. Times'
    BY <1>1, <1>2, <1>4, <2>2, <2>3 DEF Times
  <2>5. IsBucket(b) /\ b \in Nat /\ b <= f.ts /\ End(b) \in Nat /\ f.ts < End(b)
    BY <1>4, <1>6, BucketOf DEF IsBucket
  <2>6. /\ old # None => Formed(old, tape, joined, touched, now, st)
        /\ old # None => old.ts \in Nat
    BY BucketBounds DEF Settled, Forming, Formed, Built
  <2>7. /\ Series!Over(DecisionTf, f) <=> old # None /\ b > old.ts
        /\ Series!Late(DecisionTf, f) <=> old # None /\ b < old.ts
    BY DEF Series!Over, Series!Late, Bucket
  <2>. DEFINE z == IF old = None \/ Series!Over(DecisionTf, f) THEN Series!Opened(DecisionTf, f) ELSE old
              d == Series!Delta(s, f)
  <2>8. y = IF Series!Late(DecisionTf, f) THEN old ELSE Series!Merged(z, f, d, Series!NewHigh(s, f), Series!NewLow(s, f))
    BY DEF Series!Applied
  <2>. HIDE DEF y, s, f, over, reopened, z, d, b, old
  <2>9. CASE ~Series!Late(DecisionTf, f)
    <3>1. IsBar(z) /\ z.ts = b
      <4>1. CASE old = None \/ Series!Over(DecisionTf, f)
        <5>1. z = Series!Opened(DecisionTf, f)
          BY <4>1 DEF z
        <5>. QED  BY <5>1, OpenedIs DEF b
      <4>2. CASE old # None /\ ~Series!Over(DecisionTf, f)
        <5>1. z = old /\ old.ts = b
          BY <2>5, <2>6, <2>7, <2>9, <4>2 DEF z
        <5>. QED  BY <2>6, <4>2, <5>1 DEF Formed, Built
      <4>. QED  BY <4>1, <4>2
    <3>2. IsBar(y) /\ y.ts = b /\ y.src = z.src /\ y.v = z.v + d
      BY <2>8, <2>9, <3>1, MergedIs
    <3>3. z.src \in {"live", "partial"}
      <4>1. CASE old = None \/ Series!Over(DecisionTf, f)
        BY <4>1, OpenedIs DEF z
      <4>2. CASE old # None /\ ~Series!Over(DecisionTf, f)
        BY <2>6, <4>2 DEF z, Formed, Built
      <4>. QED  BY <4>1, <4>2
    <3>4. ASSUME joined > 0, b = 0
          PROVE  /\ z.src = "partial" /\ y.v \in Nat /\ y.v < f.total /\ st'.day = 0
                 /\ y.v < Cardinality(Traded(tape, 0))
      <4>1. /\ Series!DayOf(f.ts) = 0 /\ f.total = Cardinality(FirstDay(tape, n)) /\ f.total \in Nat /\ f.total > 0
            /\ f.total <= Cardinality(Traded(tape, 0)) /\ Cardinality(Traded(tape, 0)) \in Nat
        BY <1>4, <1>6, <3>4
      <4>2. d = IF s.base = None \/ f.total < s.base THEN 0 ELSE f.total - s.base
        BY DEF d, Series!Delta
      <4>3. ~(joined <= Series!OpenOf(0))
        BY <1>2, <3>4, SeriesFacts DEF Series!OpenOf
      <4>4. s.base = IF st.day = 0 THEN st.base ELSE None
        BY <2>3, <4>1, <4>3
      <4>5. st.day = 0 => st.base \in Nat /\ 0 < st.base /\ st.base <= f.total
        BY <1>2, <1>3, <3>4, <4>1
      <4>6. CASE old = None \/ Series!Over(DecisionTf, f)
        <5>1. z.src = "partial" /\ z.v = 0
          <6>1. z = Series!Opened(DecisionTf, f)
            BY <4>6 DEF z
          <6>2. b < joined
            BY <1>2, <3>4
          <6>. QED  BY <6>1, <6>2, OpenedIs DEF b
        <5>2. d \in Nat /\ d < f.total
          <6>1. CASE st.day = 0
            BY <4>1, <4>2, <4>4, <4>5, <6>1
          <6>2. CASE st.day # 0
            BY <4>1, <4>2, <4>4, <6>2
          <6>. QED  BY <6>1, <6>2
        <5>3. y.v = d
          BY <3>2, <5>1, <5>2
        <5>. QED  BY <2>3, <4>1, <5>1, <5>2, <5>3
      <4>7. CASE old # None /\ ~Series!Over(DecisionTf, f)
        <5>1. z = old /\ old.ts = 0
          BY <2>5, <2>6, <2>7, <2>9, <3>4, <4>7 DEF z
        <5>2. old.src = "partial" /\ old.v \in Nat /\ st.day = 0 /\ old.v < st.base
          BY <2>6, <3>4, <4>7, <5>1 DEF Formed, Built
        <5>3. d \in Nat /\ (d = 0 \/ d = f.total - st.base)
          BY <4>1, <4>2, <4>4, <4>5, <5>2
        <5>4. y.v = old.v + d
          BY <3>2, <5>1
        <5>5. y.v \in Nat /\ y.v < f.total
          BY <4>1, <4>5, <5>2, <5>3, <5>4
        <5>. QED  BY <2>3, <4>1, <5>1, <5>2, <5>5
      <4>. QED  BY <4>6, <4>7
    <3>5. Built(y, tape, joined)
      BY <2>5, <3>2, <3>3, <3>4 DEF Built
    <3>6. joined > 0 /\ y.ts = 0 => st'.day = 0 /\ y.v < st'.base
      BY <2>3, <3>2, <3>4
    <3>7. y # None /\ (old = None \/ old.ts # b) /\ End(b) <= now => ~Once(b, touched')
      BY <2>2, <3>2 DEF Series!Reopens, End, Bucket, b, old
    <3>8. y # None => (Once(b, touched') => now <= End(b))
      <4>1. CASE old = None \/ old.ts # b
        BY <1>2, <2>5, <3>7, <4>1
      <4>2. CASE old # None /\ old.ts = b
        BY <2>2, <2>6, <4>2 DEF Formed, Once
      <4>. QED  BY <4>1, <4>2
    <3>9. y # None => \A i \in DOMAIN tasks : tasks[i].bar.ts = y.ts => ~Once(tasks[i].bar.ts, touched')
      <4>. SUFFICES ASSUME y # None, NEW i \in DOMAIN tasks, tasks[i].bar.ts = b PROVE ~Once(b, touched')
        BY <3>2
      <4>1. CASE old = None \/ old.ts # b
        <5>1. End(b) <= now
          BY DEF Settled, Decisions, Asked
        <5>. QED  BY <3>7, <4>1, <5>1
      <4>2. CASE old # None /\ old.ts = b
        BY <2>2, <4>2 DEF Settled, Apart, Once, old
      <4>. QED  BY <4>1, <4>2
    <3>10. y # None => Formed(y, tape, joined, touched', now, st')
      BY <3>2, <3>5, <3>6, <3>8 DEF Formed
    <3>11. CASE DecisionTf \in over
      <4>1. old # None /\ old.ts < b /\ IsBucket(old.ts)
        BY <2>2, <2>5, <2>6, <2>7, <3>11 DEF Formed, Built
      <4>2. End(old.ts) <= f.ts /\ End(old.ts) \in Nat
        BY <1>4, <1>6, <4>1, NewerIsLater, BucketBounds DEF b
      <4>3. End(old.ts) <= now /\ y.ts # old.ts
        BY <1>2, <1>4, <2>5, <2>6, <3>2, <4>1, <4>2
      <4>4. tasks' = Append(tasks, [bar |-> forming[DecisionTf], stage |-> "ask", found |-> FALSE, on |-> None])
            /\ closed'[DecisionTf] = Series!CloseInto(closed[DecisionTf], forming[DecisionTf])
        BY <2>1, <2>2, <3>11 DEF old
      <4>. HIDE DEF b
      <4>. QED  BY <1>1, <2>2, <2>4, <3>9, <3>10, <4>1, <4>3, <4>4, FormingKeeps DEF old
    <3>12. CASE DecisionTf \notin over
      <4>1. tasks' = tasks /\ closed'[DecisionTf] = closed[DecisionTf]
        BY <2>1, <2>2, <3>12
      <4>. QED  BY <1>1, <2>2, <2>4, <3>9, <3>10, <4>1, FormingKeeps
    <3>. QED  BY <3>11, <3>12
  <2>10. CASE Series!Late(DecisionTf, f)
    <3>1. y = old /\ old # None /\ b < old.ts /\ DecisionTf \notin over
      BY <2>2, <2>5, <2>6, <2>7, <2>8, <2>10
    <3>2. old.ts # 0
      BY <2>5, <2>6, <3>1
    <3>3. Formed(old, tape, joined, touched', now, st')
      BY <2>2, <2>6, <3>1, <3>2 DEF Formed, Once
    <3>4. \A i \in DOMAIN tasks : tasks[i].bar.ts = old.ts => ~Once(tasks[i].bar.ts, touched')
      BY <2>2, <3>1 DEF Settled, Apart, Once, old
    <3>5. tasks' = tasks /\ closed'[DecisionTf] = closed[DecisionTf]
      BY <2>1, <2>2, <3>1
    <3>. QED  BY <1>1, <2>2, <2>4, <3>1, <3>3, <3>4, <3>5, FormingKeeps
  <2>. QED  BY <2>9, <2>10
<1>. QED  BY <1>5, <1>6

-----------------------------------------------------------------------------
(* The boot, and the theorem. *)

\* Of one candle, the boot makes a series of it alone; of none, an empty one.
LEMMA SeededIs ==
  ASSUME NEW R, R = {} \/ \E c : R = {c} /\ c.ts \in Nat
  PROVE  Series!Seeded(<<>>, R) \in Seq(R)
<1>. DEFINE kept == {<<>>[i] : i \in {j \in DOMAIN <<>> :
                       /\ \A r \in R : r.ts # <<>>[j].ts
                       /\ \A k \in DOMAIN <<>> : <<>>[k].ts = <<>>[j].ts => j <= k}}
            all == R \union kept
            Rank(x) == Series!Cardinality({y \in all : y.ts <= x.ts})
            s == [i \in 1..Series!Cardinality(all) |-> CHOOSE x \in all : Rank(x) = i]
<1>1. Series!Seeded(<<>>, R) = Series!Capped(s)
  BY DEF Series!Seeded
<1>2. kept = {}
  OBVIOUS
<1>3. all = R
  BY <1>2
<1>. HIDE DEF kept
<1>4. s \in Seq(R)
  <2>1. CASE R = {}
    <3>1. Series!Cardinality(all) = 0
      BY <1>3, <2>1, SameCount, FS_EmptySet
    <3>2. \A i \in 1..0 : (CHOOSE x \in all : Rank(x) = i) \in R
      OBVIOUS
    <3>3. s = [i \in 1..0 |-> CHOOSE x \in all : Rank(x) = i]
      BY <3>1
    <3>. HIDE DEF all, Rank, s
    <3>. QED  BY <3>2, <3>3
  <2>2. ASSUME NEW c, R = {c}, c.ts \in Nat PROVE s \in Seq(R)
    <3>1. Series!Cardinality({c}) = 1
      BY SameCount, FS_Singleton
    <3>2. {y \in all : y.ts <= c.ts} = {c}
      BY <1>3, <2>2
    <3>3. Rank(c) = 1
      BY <3>1, <3>2
    <3>4. (CHOOSE x \in all : Rank(x) = 1) \in R
      <4>. HIDE DEF Rank
      <4>. QED  BY <1>3, <2>2, <3>3
    <3>5. Series!Cardinality(all) = 1
      BY <1>3, <2>2, <3>1
    <3>6. s = [i \in 1..1 |-> CHOOSE x \in all : Rank(x) = i]
      BY <3>5
    <3>7. \A i \in 1..1 : (CHOOSE x \in all : Rank(x) = i) \in R
      <4>. HIDE DEF all, Rank
      <4>1. \A i \in 1..1 : i = 1
        OBVIOUS
      <4>. QED  BY <3>4, <4>1
    <3>. HIDE DEF all, Rank, s
    <3>. QED  BY <3>6, <3>7
  <2>. QED  BY <2>1, <2>2
<1>. HIDE DEF s
<1>. QED  BY <1>1, <1>4, ElsCapped

LEMMA SettledInit == Series!Init => Settled
<1>1. SUFFICES ASSUME Series!Init PROVE Settled
  OBVIOUS
<1>2. /\ now = Len(tape) /\ joined = now /\ seen = 0
      /\ st = [base |-> None, day |-> -1, dh |-> 0, dl |-> 0]
      /\ forming = [tf \in Series!Frames |-> None] /\ tasks = <<>> /\ touched = {}
  BY <1>1 DEF Series!Init
<1>3. tape = <<>> \/ \E p \in Prices : tape = <<[t |-> 0, p |-> p]>>
  BY <1>1 DEF Series!Init
<1>4. IsTape(tape, now) /\ now \in {0, 1} /\ \A b : Traded(tape, b) # {} => b = 0 /\ now = 1
  <2>1. CASE tape = <<>>
    BY <1>2, <2>1 DEF IsTape, Traded
  <2>2. ASSUME NEW p \in Prices, tape = <<[t |-> 0, p |-> p]>>
        PROVE  IsTape(tape, now) /\ now = 1 /\ \A b : Traded(tape, b) # {} => b = 0
    <3>1. Len(tape) = 1 /\ DOMAIN tape = {1} /\ tape[1].t = 0 /\ tape \in Seq([t : Nat, p : Prices])
      BY <2>2
    <3>2. Bucket(0) = 0
      BY BucketOf
    <3>. QED  BY <1>2, <3>1, <3>2 DEF IsTape, Traded
  <2>. QED  BY <1>3, <2>1, <2>2
<1>5. PICK filled : closed = [tf \in Series!Frames |-> IF tf \in filled THEN Series!Seeded(<<>>, Series!Candles(tf, 0)) ELSE <<>>]
  BY <1>1 DEF Series!Init
<1>6. Times
  <2>1. st.day = -1 /\ st \in [base : {st.base}, day : {st.day}, dh : {st.dh}, dl : {st.dl}]
    BY <1>2
  <2>. QED  BY <1>2, <1>4, <1>5, <2>1 DEF Times
<1>7. Forming /\ Decisions /\ Apart
  <2>1. forming[DecisionTf] = None
    BY <1>2, SeriesFacts
  <2>. QED  BY <1>2, <2>1 DEF Forming, Decisions, Apart, Els
<1>8. Stored
  <2>. DEFINE R == Series!Candles(DecisionTf, 0)
              s == closed[DecisionTf]
  <2>1. R = {CandleOf(tape, b) : b \in {x \in 0..now : Traded(tape, x) # {}}}
    BY TheCandle DEF Series!Candles
  <2>2. \A x \in R : x = CandleOf(tape, 0) /\ now = 1
    BY <1>4, <2>1
  <2>3. CandleOf(tape, 0).ts = 0 /\ CandleOf(tape, 0).src = "rest" /\ IsBar(CandleOf(tape, 0))
    BY DEF CandleOf, IsBar
  <2>4. R = {} \/ \E c : R = {c} /\ c.ts \in Nat
    BY <2>2, <2>3
  <2>. HIDE DEF R
  <2>5. s \in Seq(R)
    BY <1>5, <2>4, SeriesFacts, SeededIs DEF R
  <2>. HIDE DEF s
  <2>6. Els(s) \subseteq R /\ s \in Seq(Els(s))
    BY <2>5, ElsOf
  <2>7. ASSUME NEW x \in R PROVE Placed(x, tape, joined, touched, now, tasks)
    BY <1>2, <2>2, <2>3 DEF Placed, Origin
  <2>. QED  BY <2>6, <2>7 DEF Stored, s
<1>. QED  BY <1>6, <1>7, <1>8 DEF Settled

LEMMA SettledNext == Settled /\ [Series!Next]_(Series!vars) => Settled'
<1>1. SUFFICES ASSUME Settled, [Series!Next]_(Series!vars) PROVE Settled'
  OBVIOUS
<1>2. \A n \in 1..MaxTrades : n \in Nat
  OBVIOUS
<1>. QED
  BY <1>1, <1>2, OnTickKeeps, FlushKeeps, OthersKeep, AskKeeps, TradeKeeps, TickKeeps DEF Series!Next

\* Of Bars, for any frames, tape, skipped and late frames, reconnects, answers that miss and
\* calls that fail: a bucket is decided on once, on the exchange's bar if it answered, and
\* never on a bar whose start was missed (Engine._reconcile_then_decide).
THEOREM DecidesOnTheExchangesBarHolds == Series!Spec => []DecidesOnTheExchangesBar
<1>1. Settled => DecidesOnTheExchangesBar
  <2>. SUFFICES ASSUME Settled, NEW i \in DOMAIN tasks
                PROVE  /\ Once(tasks[i].bar.ts, touched) =>
                            \A j \in DOMAIN tasks : tasks[j].bar.ts = tasks[i].bar.ts => j = i
                       /\ tasks[i].stage = "decided" => Upheld(tasks[i], tape, touched)
    BY TheCandle DEF DecidesOnTheExchangesBar, Series!DecidesOnTheExchangesBar, Series!Untouched, Once, Upheld
  <2>. QED  BY DEF Settled, Apart, Decisions, Asked
<1>. QED  BY <1>1, SettledInit, SettledNext, PTL DEF Series!Spec

-----------------------------------------------------------------------------
(* The volume of the sweep's frame, of Bars.  The units a day's bars hold are bounded by    *)
(* the volume the last frame reported, so the next frame's difference is not in them yet    *)
(* (Tallied).  Closing, confirming and replacing a bar only move units or drop them: each   *)
(* unit after the step comes of one before it (Carried).                                    *)

\* The bar at a place of a series, the one that is forming at 0.
BarOf(s, f, i) == IF i = 0 THEN f ELSE s[i]

Counts(s, f, i, d) ==
    (i = 0 => f # None) /\ BarOf(s, f, i).src # "rest" /\ Series!DayOf(BarOf(s, f, i).ts) = d

\* A bar as far as its volume is concerned.
Sized(x) == IsBar(x) /\ x.ts \in Nat /\ x.v \in Nat

\* The day's bars hold no more than n.
Holds(s, f, d, n) ==
    LET units == Series!Units(s, f, d) IN IsFiniteSet(units) /\ Cardinality(units) <= n

\* The trades of a day among the first n: what a frame after the last of them reports.
Dealt(tp, n, d) == {m \in 1..n : Series!DayOf(tp[m].t) = d}

LEMMA UnitIs ==
  ASSUME NEW s, NEW f, NEW d, Len(s) \in Nat
  PROVE  \A x : x \in Series!Units(s, f, d) <=>
           \E i \in 0..Len(s) : Counts(s, f, i, d) /\ \E k \in 1..BarOf(s, f, i).v : x = <<i, k>>
<1>. DEFINE B(i) == IF i = 0 THEN f ELSE s[i]
            bars == (IF f = None THEN 1 ELSE 0)..Len(s)
            built == {i \in bars : B(i).src # "rest" /\ Series!DayOf(B(i).ts) = d}
<1>1. Series!Units(s, f, d) = UNION {{i} \X (1..B(i).v) : i \in built}
  BY DEF Series!Units
<1>2. \A i : BarOf(s, f, i) = B(i)
  BY DEF BarOf
<1>3. \A i : i \in built <=> i \in 0..Len(s) /\ Counts(s, f, i, d)
  <2>1. \A i : i \in bars <=> i \in 0..Len(s) /\ (i = 0 => f # None)
    <3>1. CASE f = None
      BY <3>1
    <3>2. CASE f # None
      BY <3>2
    <3>. QED  BY <3>1, <3>2
  <2>. HIDE DEF bars
  <2>. QED  BY <1>2, <2>1 DEF Counts
<1>. HIDE DEF B, built
<1>4. \A x : x \in UNION {{i} \X (1..B(i).v) : i \in built} <=> \E i \in built : \E k \in 1..B(i).v : x = <<i, k>>
  OBVIOUS
<1>. QED  BY <1>1, <1>2, <1>3, <1>4

\* Each counted bar of u and g is as large as a counted bar of s and f of its own.
Traces(m, u, g, s, f, d) ==
    /\ \A i \in 0..Len(u) : Counts(u, g, i, d) =>
         /\ m[i] \in 0..Len(s) /\ Counts(s, f, m[i], d)
         /\ BarOf(s, f, m[i]).v = BarOf(u, g, i).v
    /\ \A i, j \in 0..Len(u) :
         Counts(u, g, i, d) /\ Counts(u, g, j, d) /\ m[i] = m[j] => i = j

LEMMA Carried ==
  ASSUME NEW s, NEW f, NEW u, NEW g, NEW d, NEW m, NEW n \in Nat, Holds(s, f, d, n),
         Len(s) \in Nat, Len(u) \in Nat, Traces(m, u, g, s, f, d)
  PROVE  Holds(u, g, d, n)
<1>. DEFINE U == Series!Units(u, g, d)
            S == Series!Units(s, f, d)
            to == [x \in U |-> <<m[x[1]], x[2]>>]
<1>1. \A x \in U : \E i \in 0..Len(u) : \E k \in 1..BarOf(u, g, i).v :
        x = <<i, k>> /\ Counts(u, g, i, d)
  BY UnitIs
<1>2. \A x \in U : to[x] \in S
  <2>. SUFFICES ASSUME NEW x \in U PROVE to[x] \in S
    OBVIOUS
  <2>1. PICK i \in 0..Len(u) : \E k \in 1..BarOf(u, g, i).v : x = <<i, k>> /\ Counts(u, g, i, d)
    BY <1>1
  <2>2. PICK k \in 1..BarOf(u, g, i).v : x = <<i, k>>
    BY <2>1
  <2>3. m[i] \in 0..Len(s) /\ Counts(s, f, m[i], d) /\ k \in 1..BarOf(s, f, m[i]).v
    BY <2>1 DEF Traces
  <2>4. to[x] = <<m[i], k>>
    BY <2>2
  <2>. HIDE DEF to
  <2>. QED  BY <2>3, <2>4, UnitIs
<1>3. ASSUME NEW x \in U, NEW y \in U, to[x] = to[y] PROVE x = y
  <2>1. PICK i \in 0..Len(u) : \E k \in 1..BarOf(u, g, i).v : x = <<i, k>> /\ Counts(u, g, i, d)
    BY <1>1
  <2>2. PICK j \in 0..Len(u) : \E l \in 1..BarOf(u, g, j).v : y = <<j, l>> /\ Counts(u, g, j, d)
    BY <1>1
  <2>3. x[1] = i /\ y[1] = j /\ x = <<i, x[2]>> /\ y = <<j, y[2]>>
    BY <2>1, <2>2
  <2>4. m[i] = m[j] /\ x[2] = y[2]
    BY <1>3, <2>3
  <2>. QED  BY <2>1, <2>2, <2>3, <2>4 DEF Traces
<1>4. to \in Injection(U, S)
  <2>1. to \in [U -> S]
    BY <1>2
  <2>. HIDE DEF to
  <2>. QED  BY <1>3, <2>1 DEF Injection, IsInjective
<1>5. IsFiniteSet(S) /\ Cardinality(S) <= n
  BY DEF Holds
<1>. HIDE DEF U, S, to
<1>6. IsFiniteSet(U) /\ Cardinality(U) <= Cardinality(S) /\ Cardinality(U) \in Nat /\ Cardinality(S) \in Nat
  BY <1>4, <1>5, FS_Injection, FS_CardinalityType
<1>7. Cardinality(U) <= n
  BY <1>5, <1>6
<1>. QED  BY <1>6, <1>7 DEF Holds, U

\* The forming bar takes units: at most as many are new.
LEMMA Added ==
  ASSUME NEW s, NEW f, NEW g, NEW d, NEW n \in Nat, NEW q \in Nat, Holds(s, f, d, n),
         Len(s) \in Nat,
         Counts(s, g, 0, d) => /\ g.v \in Nat
                         /\ \/ g.v <= q
                            \/ Counts(s, f, 0, d) /\ f.v \in Nat /\ g.v <= f.v + q
  PROVE  Holds(s, g, d, n + q)
<1>. DEFINE v == IF Counts(s, f, 0, d) /\ f.v \in Nat THEN f.v ELSE 0
            new == {0} \X ((v + 1)..(v + q))
            G == Series!Units(s, g, d)
            F == Series!Units(s, f, d)
<1>1. v \in Nat /\ (Counts(s, g, 0, d) => g.v \in Nat /\ g.v <= v + q)
  OBVIOUS
<1>2. ASSUME NEW x \in G PROVE x \in F \union new
  <2>1. PICK i \in 0..Len(s) : /\ Counts(s, g, i, d)
                               /\ \E k \in 1..BarOf(s, g, i).v : x = <<i, k>>
    BY <1>2, UnitIs
  <2>2. CASE i # 0
    <3>1. BarOf(s, g, i) = BarOf(s, f, i)
      BY <2>2 DEF BarOf
    <3>2. Counts(s, f, i, d)
      BY <2>1, <2>2, <3>1 DEF Counts
    <3>3. x \in F
      BY <2>1, <3>1, <3>2, UnitIs
    <3>. QED  BY <3>3
  <2>3. CASE i = 0
    <3>1. BarOf(s, g, i) = g /\ BarOf(s, f, 0) = f
      BY <2>3 DEF BarOf
    <3>2. PICK k \in 1..g.v : x = <<0, k>>
      BY <2>1, <2>3, <3>1
    <3>3. Counts(s, g, 0, d) /\ k \in 1..(v + q) /\ k \in Nat
      BY <1>1, <2>1, <3>1, <3>2
    <3>4. CASE k > v
      <4>1. k \in (v + 1)..(v + q)
        BY <1>1, <3>3, <3>4
      <4>. HIDE DEF v
      <4>. QED  BY <3>2, <4>1
    <3>5. CASE k <= v
      <4>1. Counts(s, f, 0, d) /\ k \in 1..f.v
        BY <1>1, <3>3, <3>5
      <4>2. 0 \in 0..Len(s)
        OBVIOUS
      <4>3. x \in F
        BY <3>1, <3>2, <4>1, <4>2, UnitIs
      <4>. QED  BY <4>3
    <3>. QED  BY <1>1, <3>3, <3>4, <3>5
  <2>. QED  BY <2>2, <2>3
<1>3. IsFiniteSet(new) /\ Cardinality(new) = q
  <2>1. IsFiniteSet((v + 1)..(v + q)) /\ Cardinality((v + 1)..(v + q)) = q
    <3>. DEFINE a == v + 1
                b == v + q
    <3>1. a \in Int /\ b \in Int /\ q = IF a > b THEN 0 ELSE b - a + 1
      BY <1>1
    <3>. HIDE DEF a, b
    <3>2. IsFiniteSet(a..b) /\ Cardinality(a..b) = q
      BY <3>1, FS_Interval
    <3>. QED  BY <3>2 DEF a, b
  <2>2. IsFiniteSet({0}) /\ Cardinality({0}) = 1
    BY FS_Singleton
  <2>. DEFINE zero == {0}
              I == (v + 1)..(v + q)
  <2>. HIDE DEF v, zero, I
  <2>3. IsFiniteSet(zero \X I) /\ Cardinality(zero \X I) = Cardinality(zero) * Cardinality(I)
    BY <2>1, <2>2, FS_Product DEF zero, I
  <2>4. Cardinality(zero) * Cardinality(I) = q
    BY <2>1, <2>2 DEF zero, I
  <2>. QED  BY <2>3, <2>4 DEF zero, I
<1>4. IsFiniteSet(F) /\ Cardinality(F) <= n
  BY DEF Holds
<1>. HIDE DEF v, new, G, F
<1>5. /\ IsFiniteSet(F \union new) /\ Cardinality(F \union new) = Cardinality(F) + Cardinality(new) - Cardinality(F \cap new)
      /\ Cardinality(F) \in Nat /\ Cardinality(F \cap new) \in Nat
  BY <1>3, <1>4, FS_Union, FS_Intersection, FS_CardinalityType
<1>6. G \in SUBSET (F \union new)
  BY <1>2
<1>7. IsFiniteSet(G) /\ Cardinality(G) <= Cardinality(F \union new) /\ Cardinality(G) \in Nat
  BY <1>5, <1>6, FS_Subset, FS_CardinalityType
<1>8. Cardinality(G) <= n + q
  BY <1>3, <1>4, <1>5, <1>7
<1>. QED  BY <1>7, <1>8 DEF Holds, G

LEMMA HoldsMore ==
  ASSUME NEW s, NEW f, NEW d, NEW n \in Nat, NEW k \in Nat, n <= k, Holds(s, f, d, n)
  PROVE  Holds(s, f, d, k)
<1>1. IsFiniteSet(Series!Units(s, f, d)) /\ Cardinality(Series!Units(s, f, d)) <= n
  BY DEF Holds
<1>2. Cardinality(Series!Units(s, f, d)) \in Nat
  BY <1>1, FS_CardinalityType
<1>3. Cardinality(Series!Units(s, f, d)) <= k
  BY <1>1, <1>2
<1>. QED  BY <1>1, <1>3 DEF Holds


\* A series of bars, and the one forming.
IsSeries(s) == s \in Seq(Els(s)) /\ \A x \in Els(s) : Sized(x)

LEMMA SeriesKnown ==
  ASSUME NEW s, IsSeries(s)
  PROVE  /\ Len(s) \in Nat /\ DOMAIN s = 1..Len(s)
         /\ \A k \in 1..Len(s) : Sized(s[k])
         /\ \A x \in Els(s) : x.ts \in Nat
  BY ElsKnown DEF IsSeries, Sized

\* BarStore.close: the bar that was forming is in the series, or it is dropped.
LEMMA CloseHolds ==
  ASSUME NEW s, IsSeries(s), NEW f, f # None, Sized(f)
  PROVE  LET u == Series!CloseInto(s, f) IN
         /\ IsSeries(u)
         /\ \A d, n \in Nat : Holds(s, f, d, n) => Holds(u, None, d, n)
<1>. DEFINE u == Series!CloseInto(s, f)
            long == Append(s, f)
<1>0. Len(s) \in Nat
  BY SeriesKnown
<1>1. Len(s) \in Nat /\ DOMAIN s = 1..Len(s) /\ \A k \in 1..Len(s) : Sized(s[k])
  BY SeriesKnown
<1>2. IsSeries(u)
  BY ElsClosed DEF IsSeries
<1>3. /\ long \in Seq(Els(long)) /\ DOMAIN long = 1..(Len(s) + 1)
      /\ \A k \in 1..Len(s) : long[k] = s[k]
      /\ long[Len(s) + 1] = f
  BY ElsAppend DEF IsSeries
<1>4. Len(long) = Len(s) + 1
  BY <1>1, <1>3
<1>. HIDE DEF u, long
<1>5. ASSUME NEW d \in Nat, NEW n \in Nat, Holds(s, f, d, n) PROVE Holds(u, None, d, n)
  <2>. DEFINE last == s # <<>> /\ s[Len(s)].ts = f.ts
              kept == f.src = "partial" /\ s[Len(s)].src # "partial"
  <2>0. ~Counts(u, None, 0, d) /\ BarOf(s, f, 0) = f
    BY DEF BarOf, Counts
  <2>1. \A i \in Nat : i > 0 => BarOf(u, None, i) = u[i] /\ BarOf(s, f, i) = s[i]
    BY DEF BarOf
  <2>2. CASE last /\ kept
    <3>. DEFINE m == [i \in 0..Len(s) |-> i]
    <3>1. u = s
      BY <2>2 DEF u, Series!CloseInto
    <3>2. ASSUME NEW i \in 0..Len(u), Counts(u, None, i, d)
          PROVE  /\ m[i] \in 0..Len(s) /\ Counts(s, f, m[i], d)
                 /\ BarOf(s, f, m[i]).v = BarOf(u, None, i).v
      <4>1. i \in 1..Len(s)
        BY <1>0, <2>0, <3>1, <3>2
      <4>2. BarOf(u, None, i) = s[i] /\ BarOf(s, f, i) = s[i] /\ m[i] = i
        BY <1>1, <2>1, <3>1, <4>1
      <4>. HIDE DEF m
      <4>. QED  BY <1>1, <3>2, <4>1, <4>2 DEF Counts
    <3>3. \A i \in 0..Len(u) : m[i] = i
      BY <3>1
    <3>. HIDE DEF m
    <3>4. Traces(m, u, None, s, f, d)
      BY <3>2, <3>3 DEF Traces
    <3>. QED  BY <1>5, <3>4, Carried
  <2>3. CASE last /\ ~kept
    <3>. DEFINE m == [i \in 0..Len(s) |-> IF i = Len(s) THEN 0 ELSE i]
    <3>1. u = [s EXCEPT ![Len(s)] = f]
      BY <2>3 DEF u, Series!CloseInto
    <3>2. Len(s) > 0 /\ Len(u) = Len(s) /\ u[Len(s)] = f /\ \A i \in 1..Len(s) : i # Len(s) => u[i] = s[i]
      <4>1. Len(s) > 0 /\ Len(s) \in DOMAIN s
        BY <1>1, <2>3, EmptySeq DEF IsSeries
      <4>2. DOMAIN u = DOMAIN s /\ u[Len(s)] = f /\ \A i \in DOMAIN s : i # Len(s) => u[i] = s[i]
        BY <3>1, <4>1, ElsPut DEF IsSeries
      <4>3. Len(u) \in Nat /\ DOMAIN u = 1..Len(u)
        BY <1>2, SeriesKnown
      <4>. HIDE DEF u
      <4>4. 1..Len(u) = 1..Len(s) /\ Len(s) \in Nat
        BY <1>0, <1>1, <4>2, <4>3
      <4>5. Len(u) = Len(s)
        BY <4>1, <4>3, <4>4
      <4>6. \A i \in 1..Len(s) : i # Len(s) => u[i] = s[i]
        BY <4>2, <4>3, <4>5
      <4>. QED  BY <4>1, <4>2, <4>5, <4>6
    <3>3. ASSUME NEW i \in 0..Len(u), Counts(u, None, i, d)
          PROVE  /\ i \in 1..Len(s) /\ m[i] = IF i = Len(s) THEN 0 ELSE i
                 /\ m[i] \in 0..Len(s) /\ Counts(s, f, m[i], d)
                 /\ BarOf(s, f, m[i]).v = BarOf(u, None, i).v
      <4>1. i \in 1..Len(s) /\ i \in Nat /\ i > 0
        <5>1. i # 0 /\ Len(u) = Len(s)
          BY <2>0, <3>2, <3>3
        <5>. QED  BY <1>0, <5>1
      <4>2. m[i] = IF i = Len(s) THEN 0 ELSE i
        BY <1>1, <4>1
      <4>. HIDE DEF m
      <4>3. CASE i = Len(s)
        <5>1. BarOf(u, None, i) = u[i] /\ u[i] = f
          BY <2>1, <3>2, <4>1, <4>3
        <5>2. m[i] = 0 /\ BarOf(s, f, 0) = f /\ 0 \in 0..Len(s)
          BY <1>0, <2>0, <4>2, <4>3
        <5>. QED  BY <3>3, <4>1, <4>2, <5>1, <5>2 DEF Counts
      <4>4. CASE i # Len(s)
        <5>1. BarOf(u, None, i) = s[i] /\ m[i] = i /\ BarOf(s, f, i) = s[i] /\ i \in 0..Len(s)
          BY <1>1, <2>1, <3>2, <4>1, <4>2, <4>4
        <5>. QED  BY <1>1, <3>3, <4>1, <4>2, <5>1 DEF Counts
      <4>. QED  BY <4>3, <4>4
    <3>. HIDE DEF m
    <3>4. ASSUME NEW i \in 0..Len(u), NEW j \in 0..Len(u),
                 Counts(u, None, i, d), Counts(u, None, j, d), m[i] = m[j]
          PROVE  i = j
      <4>1. i \in Nat /\ i > 0 /\ (i = Len(s) => m[i] = 0) /\ (i # Len(s) => m[i] = i)
        BY <1>0, <3>3, <3>4
      <4>2. j \in Nat /\ j > 0 /\ (j = Len(s) => m[j] = 0) /\ (j # Len(s) => m[j] = j)
        BY <1>0, <3>3, <3>4
      <4>3. m[i] = m[j]
        BY <3>4
      <4>. QED  BY <4>1, <4>2, <4>3
    <3>5. Traces(m, u, None, s, f, d)
      BY <3>3, <3>4 DEF Traces
    <3>. QED  BY <1>5, <3>5, Carried
  <2>4. CASE ~last
    <3>. DEFINE o == IF Len(long) > MaxBars THEN Len(long) - MaxBars ELSE 0
                m == [i \in 0..Len(u) |-> IF i + o = Len(s) + 1 THEN 0 ELSE i + o]
    <3>1. u = Series!Capped(long)
      BY <2>4 DEF u, long, Series!CloseInto
    <3>2. o \in Nat /\ o <= Len(long) /\ Len(u) = Len(long) - o /\ \A i \in 1..Len(u) : u[i] = long[i + o]
      <4>1. CASE Len(long) > MaxBars
        <5>. DEFINE a == Len(s) + 2 - MaxBars
                    b == Len(s) + 1
        <5>1. u = SubSeq(long, a, b)
          <6>1. Len(long) + 1 - MaxBars = a /\ Len(long) = b
            BY <1>1, <1>4, SeriesFacts
          <6>. HIDE DEF a, b
          <6>. QED  BY <3>1, <4>1, <6>1 DEF Series!Capped
        <5>2. a \in Int /\ b \in Int /\ a <= b /\ a \in 1..(Len(long) + 1) /\ b \in 0..Len(long)
              /\ o = a - 1 /\ b - a + 1 = Len(long) - o
          BY <1>1, <1>4, <4>1, SeriesFacts
        <5>. HIDE DEF a, b, o
        <5>3. \A i \in a..b : long[i] \in Els(long)
          BY <1>3, <1>4, <5>2, ElsKnown
        <5>4. /\ SubSeq(long, a, b) \in Seq(Els(long)) /\ Len(SubSeq(long, a, b)) = b - a + 1
              /\ \A i \in 1..(b - a + 1) : SubSeq(long, a, b)[i] = long[a + i - 1]
          BY <5>2, <5>3, SubSeqProperties
        <5>5. Len(u) = Len(long) - o /\ \A i \in 1..(b - a + 1) : u[i] = long[a + i - 1]
          BY <5>1, <5>2, <5>4
        <5>6. \A i \in 1..(b - a + 1) : a + i - 1 = i + o
          BY <5>2
        <5>7. \A i \in 1..Len(u) : u[i] = long[i + o]
          <6>1. Len(u) = b - a + 1
            BY <5>2, <5>5
          <6>. QED  BY <5>5, <5>6, <6>1
        <5>8. o \in Nat /\ o <= Len(long)
          BY <1>1, <1>4, <5>2
        <5>. QED  BY <5>5, <5>7, <5>8
      <4>2. CASE ~(Len(long) > MaxBars)
        <5>1. u = long /\ o = 0
          BY <3>1, <4>2 DEF Series!Capped
        <5>. QED  BY <1>1, <1>4, <5>1
      <4>. QED  BY <4>1, <4>2
    <3>. HIDE DEF o
    <3>3. ASSUME NEW i \in 0..Len(u), Counts(u, None, i, d)
          PROVE  /\ i \in Nat /\ m[i] = IF i + o = Len(s) + 1 THEN 0 ELSE i + o
                 /\ i + o \in 1..(Len(s) + 1)
                 /\ m[i] \in 0..Len(s) /\ Counts(s, f, m[i], d)
                 /\ BarOf(s, f, m[i]).v = BarOf(u, None, i).v
      <4>1. i \in 1..Len(u) /\ i \in Nat /\ i > 0 /\ i + o \in 1..(Len(s) + 1)
        BY <1>0, <1>4, <2>0, <3>2, <3>3
      <4>2. BarOf(u, None, i) = long[i + o]
        BY <2>1, <3>2, <4>1
      <4>3. m[i] = IF i + o = Len(s) + 1 THEN 0 ELSE i + o
        OBVIOUS
      <4>. HIDE DEF m
      <4>4. CASE i + o = Len(s) + 1
        <5>1. BarOf(u, None, i) = f /\ m[i] = 0 /\ BarOf(s, f, 0) = f /\ 0 \in 0..Len(s)
          BY <1>0, <1>3, <2>0, <4>2, <4>3, <4>4
        <5>. QED  BY <3>3, <4>1, <4>3, <5>1 DEF Counts
      <4>5. CASE i + o # Len(s) + 1
        <5>1. i + o \in 1..Len(s) /\ i + o \in Nat /\ i + o > 0 /\ i + o \in 0..Len(s)
          BY <1>1, <4>1, <4>5
        <5>2. BarOf(u, None, i) = s[i + o] /\ m[i] = i + o /\ BarOf(s, f, i + o) = s[i + o]
          BY <1>3, <2>1, <4>2, <4>3, <4>5, <5>1
        <5>3. Sized(s[i + o])
          BY <1>1, <5>1
        <5>. QED  BY <3>3, <4>1, <4>3, <5>1, <5>2, <5>3 DEF Counts
      <4>. QED  BY <4>4, <4>5
    <3>. HIDE DEF m
    <3>4. ASSUME NEW i \in 0..Len(u), NEW j \in 0..Len(u),
                 Counts(u, None, i, d), Counts(u, None, j, d), m[i] = m[j]
          PROVE  i = j
      <4>. DEFINE last1 == Len(s) + 1
      <4>1. i \in Nat /\ i + o > 0 /\ (i + o = last1 => m[i] = 0) /\ (i + o # last1 => m[i] = i + o)
        <5>1. /\ i \in Nat /\ m[i] = IF i + o = last1 THEN 0 ELSE i + o
              /\ i + o \in 1..last1
          BY <3>3, <3>4
        <5>2. i + o > 0
          BY <1>0, <5>1
        <5>. QED  BY <5>1, <5>2
      <4>2. j \in Nat /\ j + o > 0 /\ (j + o = last1 => m[j] = 0) /\ (j + o # last1 => m[j] = j + o)
        <5>1. /\ j \in Nat /\ m[j] = IF j + o = last1 THEN 0 ELSE j + o
              /\ j + o \in 1..last1
          BY <3>3, <3>4
        <5>2. j + o > 0
          BY <1>0, <5>1
        <5>. QED  BY <5>1, <5>2
      <4>3. m[i] = m[j] /\ o \in Nat
        BY <3>2, <3>4
      <4>. HIDE DEF last1
      <4>. QED  BY <4>1, <4>2, <4>3
    <3>5. Traces(m, u, None, s, f, d)
      BY <3>3, <3>4 DEF Traces
    <3>. QED  BY <1>5, <3>5, Carried
  <2>. QED  BY <2>2, <2>3, <2>4
<1>. QED  BY <1>2, <1>5 DEF u

\* A bar put in its place moves those after it.
Inserts(u, s, at, x) == u = SubSeq(s, 1, at) \o <<x>> \o SubSeq(s, at + 1, Len(s))

LEMMA Inserted ==
  ASSUME NEW S, NEW s \in Seq(S), NEW at \in Nat, at <= Len(s), NEW x,
         NEW u, Inserts(u, s, at, x)
  PROVE  /\ Len(u) = Len(s) + 1 /\ u[at + 1] = x
         /\ \A i \in 1..at : u[i] = s[i]
         /\ \A i \in (at + 2)..(Len(s) + 1) : u[i] = s[i - 1]
<1>. DEFINE R == S \union {x}
            n == Len(s)
            a == SubSeq(s, 1, at)
            b == SubSeq(s, at + 1, n)
            ab == a \o <<x>>
            w == ab \o b
<1>0. u = w
  BY DEF Inserts
<1>1. s \in Seq(R) /\ x \in R /\ n \in Nat
  BY SeqMonotonic
<1>2. \A k \in 1..n : s[k] \in R
  BY <1>1
<1>. HIDE DEF R
<1>3. a \in Seq(R) /\ Len(a) = at /\ \A i \in 1..at : a[i] = s[i]
  BY <1>1, <1>2, SubSeqProperties
<1>4. b \in Seq(R) /\ Len(b) = n - at /\ \A i \in 1..(n - at) : b[i] = s[at + i]
  <2>. DEFINE c == at + 1
  <2>1. c \in Int /\ n \in Int /\ c <= n + 1 /\ \A k \in c..n : s[k] \in R
    BY <1>1, <1>2
  <2>. HIDE DEF c, n
  <2>2. /\ SubSeq(s, c, n) \in Seq(R) /\ Len(SubSeq(s, c, n)) = (IF c <= n THEN n - c + 1 ELSE 0)
        /\ \A i \in 1..(n - c + 1) : SubSeq(s, c, n)[i] = s[c + i - 1]
    BY <2>1, SubSeqProperties
  <2>3. n - c + 1 = n - at /\ (IF c <= n THEN n - c + 1 ELSE 0) = n - at /\ \A i \in Nat : c + i - 1 = at + i
    BY <1>1, <2>1 DEF c, n
  <2>4. b = SubSeq(s, c, n)
    BY DEF b, c
  <2>5. b \in Seq(R) /\ Len(b) = n - at /\ \A i \in 1..(n - at) : b[i] = s[c + i - 1]
    BY <2>2, <2>3, <2>4
  <2>6. \A i \in 1..(n - at) : c + i - 1 = at + i
    BY <2>3
  <2>. QED  BY <2>5, <2>6
<1>. HIDE DEF a, b, n
<1>5. ab \in Seq(R) /\ Len(ab) = at + 1 /\ ab[at + 1] = x /\ \A i \in 1..at : ab[i] = a[i]
  <2>1. <<x>> \in Seq(R) /\ Len(<<x>>) = 1 /\ <<x>>[1] = x
    BY <1>1
  <2>2. /\ ab \in Seq(R) /\ Len(ab) = at + 1
        /\ \A i \in 1..(at + 1) : ab[i] = IF i <= at THEN a[i] ELSE <<x>>[i - at]
    BY <1>3, <2>1, ConcatProperties
  <2>. HIDE DEF ab
  <2>3. at + 1 \in 1..(at + 1) /\ ~(at + 1 <= at) /\ (at + 1) - at = 1
    OBVIOUS
  <2>. QED  BY <2>1, <2>2, <2>3
<1>. HIDE DEF ab
<1>6. /\ Len(u) = at + 1 + (n - at)
      /\ \A i \in 1..(at + 1 + (n - at)) : u[i] = IF i <= at + 1 THEN ab[i] ELSE b[i - (at + 1)]
  <2>1. /\ Len(w) = Len(ab) + Len(b)
        /\ \A i \in 1..(Len(ab) + Len(b)) : w[i] = IF i <= Len(ab) THEN ab[i] ELSE b[i - Len(ab)]
    BY <1>4, <1>5, ConcatProperties
  <2>2. Len(ab) = at + 1 /\ Len(b) = n - at
    BY <1>4, <1>5
  <2>. HIDE DEF w
  <2>. QED  BY <1>0, <2>1, <2>2
<1>. HIDE DEF w
<1>7. at + 1 + (n - at) = n + 1 /\ at <= n
  BY <1>1 DEF n
<1>8. u[at + 1] = x /\ \A i \in 1..at : u[i] = s[i]
  <2>1. at + 1 \in 1..(at + 1 + (n - at)) /\ \A i \in 1..at : i \in 1..(at + 1 + (n - at)) /\ i <= at + 1
    BY <1>1, <1>7
  <2>. QED  BY <1>3, <1>5, <1>6, <2>1
<1>9. ASSUME NEW i \in (at + 2)..(n + 1) PROVE u[i] = s[i - 1]
  <2>1. i \in 1..(n + 1) /\ ~(i <= at + 1) /\ i - (at + 1) \in 1..(n - at) /\ at + (i - (at + 1)) = i - 1
    BY <1>1, <1>7
  <2>. QED  BY <1>4, <1>6, <1>7, <2>1
<1>. QED  BY <1>6, <1>7, <1>8, <1>9 DEF n

\* BarReconciler._install: what the exchange's candle replaces is not counted any more.
LEMMA InstallHolds ==
  ASSUME NEW s, IsSeries(s), NEW b, Sized(b), NEW cand, Sized(cand), cand.ts = b.ts, cand.src = "rest"
  PROVE  LET u == Series!Install(s, b, cand) IN
         /\ IsSeries(u)
         /\ \A f : \A d, n \in Nat : Holds(s, f, d, n) => Holds(u, f, d, n)
<1>. DEFINE u == Series!Install(s, b, cand)
            sure == [cand EXCEPT !.confirmed = TRUE]
            ours == [b EXCEPT !.confirmed = TRUE]
<1>0. Len(s) \in Nat
  BY SeriesKnown
<1>1. DOMAIN s = 1..Len(s) /\ (\A k \in 1..Len(s) : Sized(s[k])) /\ \A x \in Els(s) : x.ts \in Nat
  BY SeriesKnown
<1>2. /\ Sized(sure) /\ sure.src = "rest" /\ sure.ts = cand.ts
      /\ Sized(ours) /\ ours.src = b.src /\ ours.ts = b.ts /\ ours.v = b.v
  BY Confirming DEF Sized, Series!Ohlcv
<1>3. u \in Seq(Els(u)) /\ (Els(u) \subseteq Els(s) \union {sure} \/ Els(u) \subseteq Els(s) \union {ours})
  BY <1>1, Installing DEF Sized, IsSeries
<1>. HIDE DEF u, sure, ours
<1>4. IsSeries(u)
  BY <1>2, <1>3 DEF IsSeries
<1>5. Len(u) \in Nat /\ DOMAIN u = 1..Len(u)
  BY <1>4, SeriesKnown
<1>6. ASSUME NEW f, NEW d \in Nat, NEW n \in Nat, Holds(s, f, d, n) PROVE Holds(u, f, d, n)
  <2>1. \A i \in Nat : i > 0 => BarOf(u, f, i) = u[i] /\ BarOf(s, f, i) = s[i]
    BY DEF BarOf
  <2>2. BarOf(u, f, 0) = f /\ BarOf(s, f, 0) = f
    BY DEF BarOf
  <2>3. CASE Series!Ohlcv(b) = Series!Ohlcv(cand)
    <3>1. u = [i \in DOMAIN s |-> IF s[i] = b THEN ours ELSE s[i]]
      BY <2>3 DEF u, ours, Series!Install
    <3>2. Len(u) = Len(s) /\ \A i \in 1..Len(s) : u[i] = IF s[i] = b THEN ours ELSE s[i]
      BY <1>0, <1>1, <1>5, <3>1
    <3>3. \A i \in 1..Len(s) : u[i].src = s[i].src /\ u[i].ts = s[i].ts /\ u[i].v = s[i].v
      BY <1>2, <3>2
    <3>4. PICK m : m = [i \in 0..Len(s) |-> i]
      OBVIOUS
    <3>5. ASSUME NEW i \in 0..Len(u), Counts(u, f, i, d)
          PROVE  m[i] = i /\ i \in 0..Len(s) /\ Counts(s, f, i, d) /\ BarOf(s, f, i).v = BarOf(u, f, i).v
      <4>1. m[i] = i /\ i \in 0..Len(s) /\ i \in Nat
        BY <1>0, <3>2, <3>4
      <4>2. CASE i = 0
        BY <2>2, <3>5, <4>1, <4>2 DEF Counts
      <4>3. CASE i # 0
        <5>1. i \in 1..Len(s) /\ i > 0
          BY <1>0, <4>1, <4>3
        <5>2. BarOf(u, f, i) = u[i] /\ BarOf(s, f, i) = s[i]
          BY <2>1, <4>1, <5>1
        <5>. QED  BY <3>3, <3>5, <4>1, <5>1, <5>2 DEF Counts
      <4>. QED  BY <4>2, <4>3
    <3>6. Traces(m, u, f, s, f, d)
      BY <3>5 DEF Traces
    <3>. QED  BY <1>0, <1>5, <1>6, <3>6, Carried
  <2>4. CASE Series!Ohlcv(b) # Series!Ohlcv(cand)
    <3>. DEFINE upTo == {i \in DOMAIN s : s[i].ts <= sure.ts}
                at == IF upTo = {} THEN 0 ELSE Series!GreatestOf(upTo)
                taken == at > 0 /\ s[at].ts = sure.ts
                head == SubSeq(s, 1, at)
                tail == SubSeq(s, at + 1, Len(s))
    <3>1. u = IF taken THEN [s EXCEPT ![at] = sure] ELSE head \o <<sure>> \o tail
      BY <2>4 DEF u, sure, Series!Install, Series!ReplaceClosed
    <3>2. at \in 0..Len(s) /\ at \in Nat /\ at <= Len(s)
      <4>1. upTo # {} => Series!GreatestOf(upTo) \in upTo
        BY <1>0, <1>1, GreatestIsOne
      <4>. QED  BY <1>0, <1>1, <4>1
    <3>. HIDE DEF upTo, at
    <3>3. CASE taken
      <4>1. /\ DOMAIN u = DOMAIN s /\ u[at] = sure /\ \A i \in DOMAIN s : i # at => u[i] = s[i]
            /\ at \in 1..Len(s)
        <5>1. at \in DOMAIN s
          BY <1>0, <1>1, <3>2, <3>3
        <5>. HIDE DEF sure
        <5>. QED  BY <1>1, <3>1, <3>3, <5>1, ElsPut DEF IsSeries
      <4>2. Len(u) = Len(s)
        <5>1. Len(s) \in 1..Len(u) /\ Len(u) \in Nat /\ (Len(u) > 0 => Len(u) \in 1..Len(s))
          BY <1>0, <1>1, <1>5, <4>1
        <5>. QED  BY <1>0, <5>1
      <4>3. PICK m : m = [i \in 0..Len(s) |-> i]
        OBVIOUS
      <4>4. ASSUME NEW i \in 0..Len(u), Counts(u, f, i, d)
            PROVE  m[i] = i /\ i \in 0..Len(s) /\ Counts(s, f, i, d) /\ BarOf(s, f, i).v = BarOf(u, f, i).v
        <5>1. m[i] = i /\ i \in 0..Len(s) /\ i \in Nat
          BY <1>0, <4>2, <4>3
        <5>2. CASE i = 0
          BY <2>2, <4>4, <5>1, <5>2 DEF Counts
        <5>3. CASE i # 0
          <6>1. i \in 1..Len(s) /\ i > 0
            BY <1>0, <5>1, <5>3
          <6>2. BarOf(u, f, i) = u[i] /\ BarOf(s, f, i) = s[i]
            BY <2>1, <5>1, <6>1
          <6>3. i # at
            BY <1>2, <4>1, <4>4, <6>2 DEF Counts
          <6>4. u[i] = s[i]
            BY <1>1, <4>1, <6>1, <6>3
          <6>. QED  BY <4>4, <5>1, <5>3, <6>2, <6>4 DEF Counts
        <5>. QED  BY <5>2, <5>3
      <4>5. Traces(m, u, f, s, f, d)
        BY <4>4 DEF Traces
      <4>. QED  BY <1>0, <1>5, <1>6, <4>5, Carried
    <3>4. CASE ~taken
      <4>1. /\ Len(u) = Len(s) + 1 /\ u[at + 1] = sure
            /\ \A i \in 1..at : u[i] = s[i]
            /\ \A i \in (at + 2)..(Len(s) + 1) : u[i] = s[i - 1]
        <5>1. s \in Seq(Els(s))
          BY DEF IsSeries
        <5>2. Inserts(u, s, at, sure)
          BY <3>1, <3>4 DEF Inserts
        <5>. QED  BY <3>2, <5>1, <5>2, Inserted
      <4>2. PICK m : m = [i \in 0..Len(u) |-> IF i <= at THEN i ELSE i - 1]
        OBVIOUS
      <4>3. ASSUME NEW i \in 0..Len(u), Counts(u, f, i, d)
            PROVE  /\ i \in Nat /\ i # at + 1 /\ (i <= at => m[i] = i) /\ (i > at => m[i] = i - 1)
                   /\ m[i] \in 0..Len(s) /\ Counts(s, f, m[i], d) /\ BarOf(s, f, m[i]).v = BarOf(u, f, i).v
        <5>1. i \in Nat /\ i <= Len(s) + 1 /\ m[i] = IF i <= at THEN i ELSE i - 1
          BY <1>0, <4>1, <4>2
        <5>2. i # at + 1
          <6>. SUFFICES ASSUME i = at + 1 PROVE FALSE
            OBVIOUS
          <6>1. BarOf(u, f, i) = sure
            BY <2>1, <3>2, <4>1, <5>1
          <6>. QED  BY <1>2, <4>3, <6>1 DEF Counts
        <5>3. CASE i = 0
          <6>1. m[i] = 0 /\ 0 \in 0..Len(s)
            BY <1>0, <3>2, <5>1, <5>3
          <6>. QED  BY <2>2, <3>2, <4>3, <5>1, <5>3, <6>1 DEF Counts
        <5>4. CASE i > 0 /\ i <= at
          <6>1. m[i] = i /\ i \in 1..at /\ i \in 0..Len(s)
            BY <1>0, <3>2, <5>1, <5>4
          <6>2. BarOf(u, f, i) = s[i] /\ BarOf(s, f, i) = s[i]
            BY <2>1, <4>1, <5>1, <5>4, <6>1
          <6>. QED  BY <3>2, <4>3, <5>1, <5>2, <5>4, <6>1, <6>2 DEF Counts
        <5>5. CASE i > at + 1
          <6>1. m[i] = i - 1 /\ i \in (at + 2)..(Len(s) + 1) /\ i - 1 \in 0..Len(s) /\ i - 1 \in Nat /\ i - 1 > 0 /\ i > 0
            BY <1>0, <3>2, <5>1, <5>5
          <6>2. BarOf(u, f, i) = s[i - 1] /\ BarOf(s, f, i - 1) = s[i - 1]
            BY <2>1, <4>1, <5>1, <6>1
          <6>. QED  BY <3>2, <4>3, <5>1, <5>2, <5>5, <6>1, <6>2 DEF Counts
        <5>. QED  BY <3>2, <5>1, <5>2, <5>3, <5>4, <5>5
      <4>4. ASSUME NEW i \in 0..Len(u), NEW j \in 0..Len(u), Counts(u, f, i, d), Counts(u, f, j, d), m[i] = m[j]
            PROVE  i = j
        <5>1. i \in Nat /\ i # at + 1 /\ (i <= at => m[i] = i) /\ (i > at => m[i] = i - 1)
          BY <4>3, <4>4
        <5>2. j \in Nat /\ j # at + 1 /\ (j <= at => m[j] = j) /\ (j > at => m[j] = j - 1)
          BY <4>3, <4>4
        <5>3. m[i] = m[j]
          BY <4>4
        <5>. QED  BY <3>2, <5>1, <5>2, <5>3
      <4>5. Traces(m, u, f, s, f, d)
        BY <4>3, <4>4 DEF Traces
      <4>. QED  BY <1>0, <1>5, <1>6, <4>5, Carried
    <3>. QED  BY <3>3, <3>4
  <2>. QED  BY <2>3, <2>4
<1>. QED  BY <1>4, <1>6 DEF u

(* A sweep installs its bars from the oldest on. *)

LEMMA LeastNumber ==
  ASSUME NEW T, T \subseteq Nat, T # {}
  PROVE  \E n \in T : n - 1 \notin T
<1>1. PICK n \in T : \A m \in T : ~(<<m, n>> \in OpToRel(<, Nat))
  BY NatLessThanWellFounded, WFMin
<1>2. \A m \in T : ~(m < n)
  BY <1>1 DEF OpToRel
<1>. QED  BY <1>2

LEMMA SmallestSet ==
  ASSUME NEW S, IsFiniteSet(S), NEW T, T \subseteq SUBSET S, T # {}
  PROVE  \E s \in T : \A r \in SUBSET s : r # s => r \notin T
<1>1. IsWellFoundedOn(StrictSubsetOrdering(S), SUBSET S)
  BY FS_StrictSubsetOrderingWellFounded, FS_FiniteSubsetsOfFinite
<1>2. PICK s \in T : \A r \in T : ~(<<r, s>> \in StrictSubsetOrdering(S))
  BY <1>1, WFMin
<1>. QED  BY <1>2 DEF StrictSubsetOrdering

Oldest(R) == CHOOSE x \in R : \A y \in R : x.ts <= y.ts
Newer(R) == R \ {Oldest(R)}

LEMMA OldestIsOne ==
  ASSUME NEW R, R # {}, \A x \in R : x.ts \in Nat
  PROVE  Oldest(R) \in R
<1>. DEFINE S == {x.ts : x \in R}
<1>1. S \subseteq Nat /\ S # {}
  OBVIOUS
<1>2. \E m \in S : \A y \in S : m <= y
  <2>. HIDE DEF S
  <2>. QED  BY <1>1, LeastIsOne
<1>3. \E x \in R : \A y \in R : x.ts <= y.ts
  BY <1>2
<1>. QED  BY <1>3 DEF Oldest

\* What stands of a series once each set of rows is installed in it.
Then(a, s, R) ==
    IF R = {} THEN s
    ELSE Series!Install(a[Newer(R)], Oldest(R), Series!Candle(SweepTf, Oldest(R).ts))

Installs(a, s, rows) == a = [R \in SUBSET rows |-> Then(a, s, R)]

LEMMA InstallsExists ==
  ASSUME NEW s, NEW rows, IsFiniteSet(rows), \A x \in rows : x.ts \in Nat
  PROVE  \E a : Installs(a, s, rows)
<1>. DEFINE Upto(g, n) == \A R \in SUBSET rows : Cardinality(R) <= n => g[R] = Then(g, s, R)
            T == {n \in Nat : ~ \E g : Upto(g, n)}
<1>1. \A R \in SUBSET rows : IsFiniteSet(R) /\ Cardinality(R) \in Nat
  BY FS_Subset, FS_CardinalityType
<1>2. \A R \in SUBSET rows : R # {} => Newer(R) \in SUBSET rows /\ Cardinality(Newer(R)) = Cardinality(R) - 1
  BY <1>1, OldestIsOne, FS_RemoveElement DEF Newer
<1>3. \A R \in SUBSET rows : Cardinality(R) <= 0 => R = {}
  BY <1>1, FS_EmptySet
<1>4. Upto([R \in SUBSET rows |-> s], 0)
  BY <1>3 DEF Then
<1>5. ASSUME NEW n \in Nat, NEW g, Upto(g, n)
      PROVE  Upto([R \in SUBSET rows |-> Then(g, s, R)], n + 1)
  <2>. DEFINE h == [R \in SUBSET rows |-> Then(g, s, R)]
  <2>. SUFFICES ASSUME NEW R \in SUBSET rows, Cardinality(R) <= n + 1 PROVE h[R] = Then(h, s, R)
    OBVIOUS
  <2>1. h[R] = Then(g, s, R)
    OBVIOUS
  <2>2. CASE R = {}
    BY <2>1, <2>2 DEF Then
  <2>3. CASE R # {}
    <3>1. Newer(R) \in SUBSET rows /\ Cardinality(Newer(R)) <= n
      BY <1>1, <1>2, <2>3
    <3>2. g[Newer(R)] = Then(g, s, Newer(R))
      BY <1>5, <3>1
    <3>3. h[Newer(R)] = g[Newer(R)]
      BY <3>1, <3>2
    <3>4. Then(g, s, R) = Then(h, s, R)
      <4>. HIDE DEF h
      <4>. QED  BY <2>3, <3>3 DEF Then
    <3>. QED  BY <2>1, <3>4
  <2>. QED  BY <2>2, <2>3
<1>6. T = {}
  <2>. SUFFICES ASSUME T # {} PROVE FALSE
    OBVIOUS
  <2>1. PICK n \in T : n - 1 \notin T
    BY LeastNumber
  <2>2. n # 0
    BY <1>4, <2>1
  <2>3. n - 1 \in Nat /\ (n - 1) + 1 = n
    BY <2>2
  <2>4. PICK g : Upto(g, n - 1)
    BY <2>1, <2>3
  <2>5. Upto([R \in SUBSET rows |-> Then(g, s, R)], n)
    <3>. HIDE DEF Upto
    <3>1. Upto([R \in SUBSET rows |-> Then(g, s, R)], (n - 1) + 1)
      BY <1>5, <2>3, <2>4
    <3>. QED  BY <2>3, <3>1
  <2>. QED  BY <2>1, <2>5
<1>7. PICK g : Upto(g, Cardinality(rows))
  BY <1>1, <1>6
<1>8. \A R \in SUBSET rows : g[R] = Then(g, s, R)
  BY <1>1, <1>7, FS_Subset
<1>9. Installs([R \in SUBSET rows |-> g[R]], s, rows)
  <2>. DEFINE h == [R \in SUBSET rows |-> g[R]]
  <2>1. ASSUME NEW R \in SUBSET rows PROVE g[R] = Then(h, s, R)
    <3>1. CASE R = {}
      BY <1>8, <3>1 DEF Then
    <3>2. CASE R # {}
      <4>1. h[Newer(R)] = g[Newer(R)]
        BY <1>2, <3>2
      <4>. HIDE DEF h
      <4>. QED  BY <1>8, <3>2, <4>1 DEF Then
    <3>. QED  BY <3>1, <3>2
  <2>. HIDE DEF Then
  <2>. QED  BY <2>1 DEF Installs
<1>. QED  BY <1>9

LEMMA CandleSized ==
  ASSUME NEW time, IsTape(tape, time), NEW b \in Nat
  PROVE  LET cand == Series!Candle(SweepTf, b) IN Sized(cand) /\ cand.ts = b /\ cand.src = "rest"
<1>1. Series!TradesIn(SweepTf, b) \subseteq 1..Len(tape) /\ Len(tape) \in Nat
  BY TapeKnown DEF Series!TradesIn
<1>2. Series!Cardinality(Series!TradesIn(SweepTf, b)) \in Nat
  BY <1>1, CountsGrow, SameCount
<1>. QED  BY <1>2 DEF Series!Candle, Sized, IsBar

LEMMA SweepHolds ==
  ASSUME NEW time, IsTape(tape, time), NEW s, IsSeries(s),
         NEW rows, IsFiniteSet(rows), \A x \in rows : Sized(x)
  PROVE  LET u == (CHOOSE a : Installs(a, s, rows))[rows] IN
         /\ IsSeries(u)
         /\ \A f : \A d, n \in Nat : Holds(s, f, d, n) => Holds(u, f, d, n)
<1>. DEFINE a == CHOOSE a1 : Installs(a1, s, rows)
            Keeps(u) == IsSeries(u) /\ \A f : \A d, n \in Nat : Holds(s, f, d, n) => Holds(u, f, d, n)
            T == {R \in SUBSET rows : ~Keeps(a[R])}
<1>1. Installs(a, s, rows)
  BY InstallsExists DEF Sized
<1>. HIDE DEF a
<1>2. \A R \in SUBSET rows : a[R] = Then(a, s, R)
  BY <1>1 DEF Installs
<1>3. T = {}
  <2>. SUFFICES ASSUME T # {} PROVE FALSE
    OBVIOUS
  <2>1. PICK R \in T : \A r \in SUBSET R : r # R => r \notin T
    <3>1. T \subseteq SUBSET rows
      OBVIOUS
    <3>. HIDE DEF T
    <3>. QED  BY <3>1, SmallestSet
  <2>2. R \in SUBSET rows /\ ~Keeps(a[R])
    BY <2>1
  <2>3. CASE R = {}
    <3>1. a[R] = s
      BY <1>2, <2>2, <2>3 DEF Then
    <3>. QED  BY <2>2, <3>1
  <2>4. CASE R # {}
    <3>1. Oldest(R) \in R /\ Sized(Oldest(R))
      BY <2>2, <2>4, OldestIsOne DEF Sized
    <3>2. Keeps(a[Newer(R)])
      <4>1. Newer(R) \in SUBSET R /\ Newer(R) # R /\ Newer(R) \in SUBSET rows
        BY <2>2, <3>1 DEF Newer
      <4>. HIDE DEF Keeps
      <4>. QED  BY <2>1, <4>1
    <3>. DEFINE cand == Series!Candle(SweepTf, Oldest(R).ts)
    <3>3. Sized(cand) /\ cand.ts = Oldest(R).ts /\ cand.src = "rest"
      BY <3>1, CandleSized DEF Sized
    <3>4. a[R] = Series!Install(a[Newer(R)], Oldest(R), cand)
      BY <1>2, <2>2, <2>4 DEF Then
    <3>. HIDE DEF cand
    <3>5. Keeps(a[R])
      BY <3>1, <3>2, <3>3, <3>4, InstallHolds
    <3>. QED  BY <2>2, <3>5
  <2>. QED  BY <2>3, <2>4
<1>4. rows \in SUBSET rows
  OBVIOUS
<1>5. Keeps(a[rows])
  <2>. HIDE DEF Keeps
  <2>. QED  BY <1>3, <1>4
<1>. QED  BY <1>5 DEF a

(* The day's volume, as counted by the last frame. *)

HoldsNow(d, n) == Holds(closed[SweepTf], forming[SweepTf], d, n)

DealtBy(n, d) == Cardinality(Dealt(tape, n, d))

\* No day's bars hold more than was dealt up to the last frame, the baseline's day's no
\* more than the baseline, and a day still to come has none.
Tallied ==
    /\ IsSeries(closed[SweepTf])
    /\ forming[SweepTf] # None => Sized(forming[SweepTf])
    /\ IsFiniteSet(sweep) /\ \A x \in sweep : Sized(x)
    /\ st.day \in Nat \union {-1}
    /\ st.day # -1 => seen > 0 /\ st.day <= Series!DayOf(tape[seen].t)
    /\ st.base # None => st.base \in Nat /\ st.day \in Nat /\ HoldsNow(st.day, st.base)
    /\ \A d \in Nat : HoldsNow(d, DealtBy(seen, d))
    /\ \A d \in Nat : d > st.day => HoldsNow(d, 0)

LEMMA SweepFacts ==
  /\ SweepTf \in DOMAIN Step /\ SweepTf \in Series!Frames
  /\ SweepTf # Series!Daily /\ SweepTf # DecisionTf
  BY BarsAreAssumed DEF Series!BarsAssumptions, Series!Frames

LEMMA StartOf ==
  ASSUME NEW tf \in DOMAIN Step, NEW t \in Nat
  PROVE  /\ Series!BucketStart(tf, t) \in Nat /\ Series!BucketStart(tf, t) <= t
         /\ Series!DayOf(Series!BucketStart(tf, t)) = Series!DayOf(t)
<1>. DEFINE d == Series!DayOf(t)
            open == Series!OpenOf(d)
            n == Step[tf]
            r == t - open
<1>1. open \in Nat /\ open <= t /\ t < open + DaySpan /\ d \in Nat /\ open = d * DaySpan
  BY DayFacts DEF Series!OpenOf
<1>2. r \in Nat /\ r < DaySpan /\ t = open + r
  BY <1>1, SeriesFacts
<1>3. n \in Nat /\ n > 0 /\ Series!BucketStart(tf, t) = open + (r \div n) * n
  BY BarsAreAssumed DEF Series!BarsAssumptions, Series!BucketStart
<1>. HIDE DEF d, open, n, r
<1>. DEFINE k == (r \div n) * n
<1>4. k \in Nat /\ k <= r
  BY <1>2, <1>3, Quotient
<1>. HIDE DEF k
<1>5. Series!BucketStart(tf, t) = open + k
  BY <1>3 DEF k
<1>. DEFINE e == Series!DayOf(open + k)
<1>6. e \in Nat /\ e * DaySpan <= open + k /\ open + k < e * DaySpan + DaySpan /\ e * DaySpan \in Nat
  BY <1>1, <1>4, DayFacts DEF Series!OpenOf
<1>. HIDE DEF e
<1>7. d < e => d * DaySpan + DaySpan <= e * DaySpan
  BY <1>1, <1>6, Multiples, SeriesFacts
<1>8. e < d => e * DaySpan + DaySpan <= d * DaySpan
  BY <1>1, <1>6, Multiples, SeriesFacts
<1>9. e = d
  BY <1>1, <1>2, <1>4, <1>6, <1>7, <1>8, SeriesFacts
<1>. QED  BY <1>1, <1>2, <1>4, <1>5, <1>9 DEF e, d

LEMMA DayGrows ==
  ASSUME NEW a \in Nat, NEW b \in Nat, a <= b
  PROVE  Series!DayOf(a) <= Series!DayOf(b)
  BY QuotientGrows, SeriesFacts DEF Series!DayOf

LEMMA DealtFacts ==
  ASSUME NEW time, IsTape(tape, time), NEW n \in Nat, n <= Len(tape), NEW d
  PROVE  /\ DealtBy(n, d) \in Nat
         /\ \A m \in Nat : m <= n => DealtBy(m, d) <= DealtBy(n, d)
<1>1. Len(tape) \in Nat
  BY TapeKnown
<1>2. Dealt(tape, n, d) \subseteq 1..Len(tape)
  BY <1>1 DEF Dealt
<1>3. \A m \in Nat : m <= n => Dealt(tape, m, d) \subseteq Dealt(tape, n, d)
  BY DEF Dealt
<1>. QED  BY <1>1, <1>2, <1>3, CountsGrow DEF DealtBy

\* A step that moves units or drops them, and counts no frame.
LEMMA MovesKeep ==
  ASSUME Tallied, UNCHANGED <<st, seen, tape>>,
         IsSeries(closed'[SweepTf]),
         forming'[SweepTf] # None => Sized(forming'[SweepTf]),
         IsFiniteSet(sweep'), \A x \in sweep' : Sized(x),
         \A d, n \in Nat : HoldsNow(d, n) => Holds(closed'[SweepTf], forming'[SweepTf], d, n),
         Settled
  PROVE  Tallied'
<1>1. IsTape(tape, now) /\ seen \in Nat /\ seen <= Len(tape)
  BY DEF Settled, Times
<1>2. \A d \in Nat : DealtBy(seen, d) \in Nat
  BY <1>1, DealtFacts
<1>3. \A d, n \in Nat : HoldsNow(d, n) => HoldsNow(d, n)'
  BY DEF HoldsNow
<1>4. \A d \in Nat : HoldsNow(d, DealtBy(seen, d))'
  BY <1>2, <1>3 DEF Tallied, DealtBy
<1>5. \A d \in Nat : d > st.day => HoldsNow(d, 0)'
  BY <1>3 DEF Tallied
<1>6. st.base # None => st.base \in Nat /\ st.day \in Nat /\ HoldsNow(st.day, st.base)'
  BY <1>3 DEF Tallied
<1>. QED  BY <1>4, <1>5, <1>6 DEF Tallied

\* What concerns neither the sweep's frame nor the tape: the decisions, the daily refresh.
LEMMA ElsewhereKeeps ==
  ASSUME Settled, Tallied,
         \/ Series!SweepFails \/ Series!RefetchDaily \/ Series!Tick \/ Series!Reconnect
         \/ (\E i : Series!AskFound(i) \/ Series!AskMissing(i) \/ Series!AskFails(i))
         \/ UNCHANGED Series!vars
  PROVE  Tallied'
<1>1. UNCHANGED <<st, seen, tape, forming>> /\ (sweep' = sweep \/ sweep' = {})
  BY DEF Series!SweepFails, Series!RefetchDaily, Series!Tick, Series!Reconnect, Series!AskFound,
         Series!AskMissing, Series!AskFails, Series!vars
<1>2. DOMAIN closed = Series!Frames
  BY DEF Settled, Times
<1>3. closed'[SweepTf] = closed[SweepTf]
  <2>1. CASE \E i : Series!AskFound(i)
    <3>1. PICK u : closed' = [closed EXCEPT ![DecisionTf] = u]
      BY <2>1 DEF Series!AskFound
    <3>. QED  BY <1>2, <3>1, SweepFacts
  <2>2. CASE Series!RefetchDaily
    <3>1. PICK u : closed' = [closed EXCEPT ![Series!Daily] = u]
      BY <2>2 DEF Series!RefetchDaily
    <3>. QED  BY <1>2, <3>1, SweepFacts
  <2>3. CASE UNCHANGED closed
    BY <2>3
  <2>. QED
    BY <2>1, <2>2, <2>3 DEF Series!SweepFails, Series!Tick, Series!Reconnect, Series!AskMissing,
                            Series!AskFails, Series!vars
<1>4. IsFiniteSet(sweep') /\ \A x \in sweep' : Sized(x)
  BY <1>1, FS_EmptySet DEF Tallied
<1>. QED  BY <1>1, <1>3, <1>4, MovesKeep DEF Tallied, HoldsNow

LEMMA SweepAsksKeeps == ASSUME Settled, Tallied, Series!SweepAsks PROVE Tallied'
<1>. DEFINE s == closed[SweepTf]
            J == {j \in DOMAIN s : /\ Series!DayOf(s[j].ts) = Series!DayOf(now)
                                   /\ ~s[j].confirmed /\ s[j].src # "rest"}
            due == {s[i] : i \in J}
<1>1. sweep' = due /\ UNCHANGED <<st, seen, tape, forming, closed>>
  BY DEF Series!SweepAsks
<1>2. Len(s) \in Nat /\ DOMAIN s = 1..Len(s) /\ \A k \in 1..Len(s) : Sized(s[k])
  BY SeriesKnown DEF Tallied
<1>. HIDE DEF s
<1>3. IsFiniteSet(due)
  <2>1. IsFiniteSet(1..Len(s))
    BY <1>2, FS_Interval
  <2>2. IsFiniteSet(J)
    BY <1>2, <2>1, FS_Subset
  <2>3. [j \in J |-> s[j]] \in Surjection(J, due)
    BY DEF Surjection
  <2>. HIDE DEF J, due
  <2>. QED  BY <2>2, <2>3, FS_Surjection
<1>4. \A x \in due : Sized(x)
  BY <1>2
<1>. HIDE DEF due
<1>. QED  BY <1>1, <1>3, <1>4, MovesKeep DEF Tallied, HoldsNow

LEMMA SweepAnsweredKeeps == ASSUME Settled, Tallied, Series!SweepAnswered PROVE Tallied'
<1>. DEFINE rows == {bar \in sweep : Series!TradesIn(SweepTf, bar.ts) # {}}
            u == (CHOOSE a : Installs(a, closed[SweepTf], rows))[rows]
<1>1. sweep' = {} /\ UNCHANGED <<st, seen, tape, forming>> /\ closed' = [closed EXCEPT ![SweepTf] = u]
  BY DEF Series!SweepAnswered, Installs, Then, Oldest, Newer
<1>2. IsFiniteSet(rows) /\ \A x \in rows : Sized(x)
  BY FS_Subset DEF Tallied
<1>3. closed'[SweepTf] = u
  <2>. HIDE DEF u
  <2>. QED  BY <1>1, SweepFacts DEF Settled, Times
<1>4. IsSeries(u) /\ \A f : \A d, n \in Nat : Holds(closed[SweepTf], f, d, n) => Holds(u, f, d, n)
  <2>1. IsTape(tape, now) /\ IsSeries(closed[SweepTf])
    BY DEF Tallied, Settled, Times
  <2>. HIDE DEF rows
  <2>. QED  BY <1>2, <2>1, SweepHolds
<1>. HIDE DEF u, rows
<1>. QED  BY <1>1, <1>3, <1>4, MovesKeep, FS_EmptySet DEF Tallied, HoldsNow

LEMMA FlushKeepsTally == ASSUME Settled, Tallied, Series!FlushStale PROVE Tallied'
<1>. DEFINE s == closed[SweepTf]
            f == forming[SweepTf]
            u == Series!CloseInto(s, f)
            due == {tf \in Series!Frames : Series!Stale(tf)}
<1>1. /\ UNCHANGED <<st, seen, tape, sweep>>
      /\ forming' = [tf \in Series!Frames |-> IF tf \in due THEN None ELSE forming[tf]]
      /\ closed' = [tf \in Series!Frames |-> IF tf \in due THEN Series!CloseInto(closed[tf], forming[tf]) ELSE closed[tf]]
  BY DEF Series!FlushStale, Series!Closing
<1>2. CASE Series!Stale(SweepTf)
  <2>1. closed'[SweepTf] = u /\ forming'[SweepTf] = None /\ f # None
    BY <1>1, <1>2, SweepFacts DEF Series!Stale
  <2>2. IsSeries(u) /\ \A d, n \in Nat : Holds(s, f, d, n) => Holds(u, None, d, n)
    BY <2>1, CloseHolds DEF Tallied
  <2>. HIDE DEF u
  <2>. QED  BY <1>1, <2>1, <2>2, MovesKeep DEF Tallied, HoldsNow
<1>3. CASE ~Series!Stale(SweepTf)
  <2>1. closed'[SweepTf] = s /\ forming'[SweepTf] = f
    BY <1>1, <1>3, SweepFacts
  <2>. QED  BY <1>1, <2>1, MovesKeep DEF Tallied, HoldsNow
<1>. QED  BY <1>2, <1>3

LEMMA TradeKeepsTally == ASSUME Settled, Tallied, NEW p \in Prices, Series!Trade(p) PROVE Tallied'
<1>. DEFINE x == [t |-> now, p |-> p]
<1>1. tape' = Append(tape, x) /\ UNCHANGED <<st, seen, forming, closed, sweep>>
  BY DEF Series!Trade
<1>2. Len(tape) \in Nat /\ seen \in Nat /\ seen <= Len(tape) /\ tape \in Seq([t : Nat, p : Prices])
      /\ x \in [t : Nat, p : Prices]
  BY TapeKnown DEF Settled, Times, IsTape
<1>. HIDE DEF x
<1>3. \A m \in 1..Len(tape) : tape'[m] = tape[m]
  BY <1>1, <1>2, AppendProperties
<1>4. \A d : Dealt(tape', seen, d) = Dealt(tape, seen, d)
  <2>1. \A m \in 1..seen : m \in 1..Len(tape)
    BY <1>2
  <2>2. \A m \in 1..seen : tape'[m] = tape[m]
    BY <1>3, <2>1
  <2>. QED  BY <2>2 DEF Dealt
<1>5. seen > 0 => tape'[seen] = tape[seen]
  BY <1>2, <1>3
<1>6. \A d : DealtBy(seen, d)' = DealtBy(seen, d)
  BY <1>1, <1>4 DEF DealtBy
<1>7. \A d, n : HoldsNow(d, n)' = HoldsNow(d, n)
  BY <1>1 DEF HoldsNow
<1>8. \A d \in Nat : HoldsNow(d, DealtBy(seen, d))'
  BY <1>1, <1>4 DEF Tallied, HoldsNow, DealtBy
<1>. QED  BY <1>1, <1>5, <1>7, <1>8 DEF Tallied

LEMMA OpenedSized ==
  ASSUME Settled, NEW f, f.ts \in Nat
  PROVE  LET z == Series!Opened(SweepTf, f) IN
         Sized(z) /\ z.ts = Series!BucketStart(SweepTf, f.ts) /\ z.v = 0
<1>1. Series!BucketStart(SweepTf, f.ts) \in Nat
  BY StartOf, SweepFacts
<1>. QED  BY <1>1 DEF Series!Opened, Sized, IsBar

\* Aggregator._apply: only the frame's day takes units, as many as the frame's difference.
LEMMA AppliedHolds ==
  ASSUME Settled, Tallied, NEW f, f.ts \in Nat, NEW s, Series!Delta(s, f) \in Nat,
         NEW u, u = IF Series!Over(SweepTf, f)
                    THEN Series!CloseInto(closed[SweepTf], forming[SweepTf])
                    ELSE closed[SweepTf]
  PROVE  LET g == Series!Applied(SweepTf, f, s) IN
         /\ IsSeries(u) /\ (g # None => Sized(g))
         /\ \A d, n \in Nat : HoldsNow(d, n) =>
              /\ d # Series!DayOf(f.ts) => Holds(u, g, d, n)
              /\ d = Series!DayOf(f.ts) => Holds(u, g, d, n + Series!Delta(s, f))
<1>. DEFINE g == Series!Applied(SweepTf, f, s)
            q == Series!Delta(s, f)
            old == forming[SweepTf]
            was == closed[SweepTf]
            b == Series!BucketStart(SweepTf, f.ts)
            D == Series!DayOf(f.ts)
            z == IF old = None \/ Series!Over(SweepTf, f) THEN Series!Opened(SweepTf, f) ELSE old
            opened == Series!Opened(SweepTf, f)
<1>1. IsSeries(was) /\ (old # None => Sized(old)) /\ q \in Nat
  BY DEF Tallied
<1>2. b \in Nat /\ Series!DayOf(b) = D /\ D \in Nat
  BY StartOf, SweepFacts, DayFacts
<1>3. /\ Series!Over(SweepTf, f) <=> old # None /\ b > old.ts
      /\ Series!Late(SweepTf, f) <=> old # None /\ b < old.ts
  BY DEF Series!Over, Series!Late
<1>4. g = IF Series!Late(SweepTf, f) THEN old
          ELSE Series!Merged(z, f, q, Series!NewHigh(s, f), Series!NewLow(s, f))
  BY DEF Series!Applied
<1>5. Sized(opened) /\ opened.ts = b /\ opened.v = 0
  BY OpenedSized
<1>6. \A d, n : HoldsNow(d, n) <=> Holds(was, old, d, n)
  BY DEF HoldsNow
<1>7. old # None => old.ts \in Nat /\ old.v \in Nat /\ IsBar(old)
  BY <1>1 DEF Sized
<1>8. u = IF Series!Over(SweepTf, f) THEN Series!CloseInto(was, old) ELSE was
  OBVIOUS
<1>9. Sized(z) => Sized(Series!Merged(z, f, q, Series!NewHigh(s, f), Series!NewLow(s, f)))
  BY <1>1, MergedIs DEF Sized
<1>. HIDE DEF g, q, old, was, b, D, opened
<1>10. CASE Series!Late(SweepTf, f)
  <2>1. g = old /\ u = was
    BY <1>2, <1>3, <1>4, <1>7, <1>8, <1>10
  <2>2. \A d, n \in Nat : Holds(was, old, d, n) => Holds(was, old, d, n + q)
    <3>1. \A n \in Nat : n + q \in Nat /\ n <= n + q
      BY <1>1
    <3>. QED  BY <3>1, HoldsMore
  <2>. QED  BY <1>1, <1>6, <2>1, <2>2 DEF g, q, D
<1>11. CASE old = None \/ Series!Over(SweepTf, f)
  <2>1. z = opened /\ ~Series!Late(SweepTf, f)
    BY <1>2, <1>3, <1>7, <1>11 DEF opened
  <2>. HIDE DEF z
  <2>2. Sized(g) /\ g.ts = b /\ g.v = q
    BY <1>1, <1>4, <1>5, <1>9, <2>1, MergedIs DEF Sized
  <2>3. IsSeries(u) /\ \A d, n \in Nat : Holds(was, old, d, n) => Holds(u, None, d, n)
    <3>1. CASE old = None
      BY <1>1, <1>3, <1>8, <3>1
    <3>2. CASE Series!Over(SweepTf, f)
      BY <1>1, <1>3, <1>8, <3>2, CloseHolds
    <3>. QED  BY <1>11, <3>1, <3>2
  <2>4. Len(u) \in Nat
    BY <2>3, SeriesKnown
  <2>5. \A d : Counts(u, g, 0, d) => d = D
    BY <1>2, <2>2 DEF Counts, BarOf
  <2>6. ASSUME NEW d \in Nat, NEW n \in Nat, Holds(was, old, d, n)
        PROVE  /\ d # D => Holds(u, g, d, n)
               /\ d = D => Holds(u, g, d, n + q)
    <3>1. Holds(u, None, d, n)
      BY <2>3, <2>6
    <3>2. g.v \in Nat /\ g.v <= q /\ q \in Nat
      BY <1>1, <2>2
    <3>3. Holds(u, g, d, n + q)
      BY <2>4, <3>1, <3>2, Added
    <3>4. d # D => Holds(u, g, d, n + 0)
      BY <2>4, <2>5, <3>1, Added
    <3>. QED  BY <3>3, <3>4
  <2>. QED  BY <1>6, <2>2, <2>3, <2>6 DEF g, q, D
<1>12. CASE old # None /\ b = old.ts
  <2>1. z = old /\ ~Series!Late(SweepTf, f) /\ u = was
    BY <1>3, <1>7, <1>8, <1>12
  <2>. HIDE DEF z
  <2>2. Sized(g) /\ g.ts = b /\ g.v = old.v + q /\ g.src = old.src
    BY <1>1, <1>4, <1>7, <1>9, <1>12, <2>1, MergedIs
  <2>3. Len(u) \in Nat /\ IsSeries(u)
    BY <1>1, <2>1, SeriesKnown
  <2>4. \A d : Counts(u, g, 0, d) => d = D /\ Counts(was, old, 0, d)
    BY <1>2, <1>12, <2>2 DEF Counts, BarOf
  <2>5. ASSUME NEW d \in Nat, NEW n \in Nat, Holds(was, old, d, n)
        PROVE  /\ d # D => Holds(u, g, d, n)
               /\ d = D => Holds(u, g, d, n + q)
    <3>1. Holds(u, old, d, n) /\ g.v \in Nat /\ g.v <= old.v + q
      BY <1>1, <1>7, <1>12, <2>1, <2>2, <2>5
    <3>2. Holds(u, g, d, n + q)
      BY <1>1, <1>7, <1>12, <2>1, <2>3, <2>4, <3>1, Added
    <3>3. d # D => Holds(u, g, d, n + 0)
      BY <2>3, <2>4, <3>1, Added
    <3>. QED  BY <3>2, <3>3
  <2>. QED  BY <1>6, <2>2, <2>3, <2>5 DEF g, q, D
<1>13. Series!Late(SweepTf, f) \/ old = None \/ Series!Over(SweepTf, f) \/ (old # None /\ b = old.ts)
  BY <1>2, <1>3, <1>7
<1>. QED  BY <1>10, <1>11, <1>12, <1>13

LEMMA OnTickKeepsTally == ASSUME Settled, Tallied, NEW n \in Nat, Series!OnTick(n) PROVE Tallied'
<1>. DEFINE f == Series!Frame(n)
            s == Series!Rolled(f)
            q == Series!Delta(s, f)
            D == Series!DayOf(f.ts)
            over == {tf \in Series!Frames : Series!Over(tf, f)}
            u == IF Series!Over(SweepTf, f) THEN Series!CloseInto(closed[SweepTf], forming[SweepTf])
                 ELSE closed[SweepTf]
            g == Series!Applied(SweepTf, f, s)
            total == DealtBy(n, D)
<1>1. n \in DOMAIN tape /\ n >= seen /\ seen' = n /\ UNCHANGED <<tape, sweep>>
  BY DEF Series!OnTick, Settled, Times
<1>2. IsTape(tape, now) /\ now \in Nat /\ seen \in Nat /\ n \in 1..Len(tape) /\ Len(tape) \in Nat
      /\ seen <= n /\ n <= Len(tape) /\ n > 0
      /\ st \in [base : {st.base}, day : {st.day}, dh : {st.dh}, dl : {st.dl}]
  BY <1>1, TapeKnown DEF Settled, Times
<1>3. f.ts = tape[n].t /\ f.ts \in Nat /\ D = Series!DayOf(tape[n].t) /\ D \in Nat
  BY <1>2, TapeKnown, DayFacts DEF Series!Frame
<1>4. f.total = total
  <2>1. f.total = Series!Cardinality({m \in 1..n : Series!DayOf(tape[m].t) = Series!DayOf(tape[n].t)})
    BY DEF Series!Frame
  <2>. QED  BY <1>3, <2>1, SameCount DEF DealtBy, Dealt
<1>5. \A d : DealtBy(n, d) \in Nat /\ DealtBy(seen, d) \in Nat /\ DealtBy(seen, d) <= DealtBy(n, d)
  BY <1>2, DealtFacts
<1>6. st.day <= D
  <2>1. CASE st.day = -1
    BY <1>3, <2>1
  <2>2. CASE st.day # -1
    <3>1. st.day \in Nat /\ seen > 0 /\ st.day <= Series!DayOf(tape[seen].t)
      BY <2>2 DEF Tallied
    <3>2. DOMAIN tape = 1..Len(tape) /\ seen \in 1..Len(tape) /\ tape[seen].t \in Nat
      BY <1>2, <3>1, TapeKnown
    <3>3. tape[seen].t <= tape[n].t
      <4>1. CASE seen = n
        BY <1>3, <3>2, <4>1
      <4>2. CASE seen < n
        BY <1>2, <3>2, <4>2 DEF IsTape
      <4>. QED  BY <1>2, <4>1, <4>2
    <3>4. Series!DayOf(tape[seen].t) <= Series!DayOf(tape[n].t) /\ Series!DayOf(tape[seen].t) \in Nat
      BY <1>3, <3>2, <3>3, DayGrows, DayFacts
    <3>. HIDE DEF D
    <3>. QED  BY <1>3, <3>1, <3>4
  <2>. QED  BY <2>1, <2>2
<1>7. \A d \in Nat : HoldsNow(d, DealtBy(n, d))
  BY <1>5, HoldsMore DEF Tallied, HoldsNow
<1>8. \A d : DealtBy(seen, d)' = DealtBy(n, d)
  BY <1>1 DEF DealtBy
<1>9. CASE ~Series!InSession(f.ts)
  <2>1. UNCHANGED <<st, forming, closed>>
    BY <1>9 DEF Series!OnTick
  <2>2. \A d, k : HoldsNow(d, k)' = HoldsNow(d, k)
    BY <2>1 DEF HoldsNow
  <2>3. st.day # -1 => seen' > 0 /\ st.day <= Series!DayOf(tape[seen'].t)
    BY <1>1, <1>2, <1>3, <1>6
  <2>4. \A d \in Nat : HoldsNow(d, DealtBy(seen, d))'
    BY <1>1, <1>7, <2>1 DEF HoldsNow, DealtBy
  <2>. QED  BY <1>1, <2>1, <2>2, <2>3, <2>4 DEF Tallied
<1>10. CASE Series!InSession(f.ts)
  <2>1. /\ st' = Series!Booked(s, f)
        /\ forming' = [tf \in Series!Frames |-> Series!Applied(tf, f, s)]
        /\ closed' = [tf \in Series!Frames |-> IF tf \in over THEN Series!CloseInto(closed[tf], forming[tf]) ELSE closed[tf]]
    BY <1>10 DEF Series!OnTick, Series!Closing
  <2>2. closed'[SweepTf] = u /\ forming'[SweepTf] = g
    BY <2>1, SweepFacts
  <2>3. /\ s.base = IF D = st.day THEN st.base
                    ELSE IF joined <= Series!OpenOf(D) THEN 0 ELSE None
        /\ st'.base = total /\ st'.day = D
    BY <1>2, <1>4, <2>1, RolledIs
  <2>4. total \in Nat
    BY <1>5
  <2>. DEFINE base == s.base
  <2>5. q = IF base = None \/ total < base THEN 0 ELSE total - base
    BY <1>4 DEF Series!Delta
  \* What the frame's day held before it, the difference of the frame set aside.
  <2>6. q \in Nat /\ \E k \in Nat : k + q <= total /\ HoldsNow(D, k)
    <3>1. HoldsNow(D, total)
      BY <1>3, <1>7
    <3>2. CASE base = None
      BY <2>4, <2>5, <3>1, <3>2
    <3>3. CASE base # None
      <4>1. base \in Nat /\ HoldsNow(D, base)
        <5>1. CASE D = st.day
          BY <2>3, <3>3, <5>1 DEF Tallied
        <5>2. CASE D # st.day
          <6>1. base = 0
            BY <2>3, <3>3, <5>2
          <6>2. D > st.day /\ D \in Nat
            <7>1. st.day \in Int
              BY DEF Tallied
            <7>. HIDE DEF D
            <7>. QED  BY <1>3, <1>6, <5>2, <7>1
          <6>3. HoldsNow(D, 0)
            <7>. HIDE DEF D
            <7>. QED  BY <6>2 DEF Tallied
          <6>. QED  BY <6>1, <6>3
        <5>. QED  BY <5>1, <5>2
      <4>. HIDE DEF base, q, total
      <4>2. CASE total < base
        BY <2>4, <2>5, <3>1, <4>1, <4>2
      <4>3. CASE ~(total < base)
        BY <2>4, <2>5, <3>3, <4>1, <4>3
      <4>. QED  BY <4>2, <4>3
    <3>. QED  BY <3>2, <3>3
  <2>7. /\ IsSeries(u) /\ (g # None => Sized(g))
        /\ \A d, k \in Nat : HoldsNow(d, k) =>
             /\ d # D => Holds(u, g, d, k)
             /\ d = D => Holds(u, g, d, k + q)
    BY <1>3, <2>6, AppliedHolds
  <2>8. Holds(u, g, D, total)
    <3>1. PICK k \in Nat : k + q <= total /\ HoldsNow(D, k)
      BY <2>6
    <3>2. Holds(u, g, D, k + q)
      BY <1>3, <2>7, <3>1
    <3>. HIDE DEF u, g, D, q, total
    <3>3. k + q \in Nat
      BY <2>6, <3>1
    <3>. QED  BY <2>4, <3>1, <3>2, <3>3, HoldsMore
  <2>9. \A d \in Nat : d # D => Holds(u, g, d, DealtBy(n, d))
    BY <1>5, <1>7, <2>7
  <2>10. \A d \in Nat : d > D => Holds(u, g, d, 0)
    <3>1. st.day \in Int
      BY DEF Tallied
    <3>2. ASSUME NEW d \in Nat, d > D PROVE d > st.day /\ d # D
      <4>. HIDE DEF D
      <4>. QED  BY <1>3, <1>6, <3>1, <3>2
    <3>. QED  BY <2>7, <3>2 DEF Tallied
  <2>11. \A d, k : Holds(u, g, d, k) <=> HoldsNow(d, k)'
    BY <2>2 DEF HoldsNow
  <2>12. \A d \in Nat : HoldsNow(d, DealtBy(seen, d))'
    <3>1. \A d \in Nat : Holds(u, g, d, DealtBy(n, d))
      BY <2>8, <2>9
    <3>. HIDE DEF u, g
    <3>. QED  BY <1>1, <2>2, <3>1 DEF HoldsNow, DealtBy
  <2>13. st'.day = D /\ D \in Nat /\ st'.base = total /\ HoldsNow(st.day, st.base)'
    <3>. HIDE DEF u, g, D, total
    <3>. QED  BY <1>3, <2>2, <2>3, <2>8 DEF HoldsNow
  <2>14. seen' > 0 /\ st'.day <= Series!DayOf(tape'[seen'].t)
    BY <1>1, <1>2, <1>3, <2>3
  <2>. HIDE DEF u, g, D, total
  <2>. QED  BY <1>1, <2>2, <2>4, <2>7, <2>10, <2>11, <2>12, <2>13, <2>14 DEF Tallied
<1>. QED  BY <1>9, <1>10

LEMMA TalliedInit == Series!Init => Tallied
<1>1. SUFFICES ASSUME Series!Init PROVE Tallied
  OBVIOUS
<1>2. /\ seen = 0 /\ sweep = {}
      /\ st = [base |-> None, day |-> -1, dh |-> 0, dl |-> 0]
      /\ forming = [tf \in Series!Frames |-> None]
  BY <1>1 DEF Series!Init
<1>3. st.base = None /\ st.day = -1 /\ forming[SweepTf] = None
  BY <1>2, SweepFacts
<1>4. closed[SweepTf] = <<>>
  <2>1. PICK filled \in SUBSET {DecisionTf, Series!Daily} :
          closed = [tf \in Series!Frames |-> IF tf \in filled THEN Series!Seeded(<<>>, Series!Candles(tf, 0)) ELSE <<>>]
    BY <1>1 DEF Series!Init
  <2>. QED  BY <2>1, SweepFacts
<1>5. Els(<<>>) = {} /\ IsSeries(<<>>)
  BY DEF IsSeries, Els
<1>6. \A d, n \in Nat : Holds(<<>>, None, d, n)
  <2>. SUFFICES ASSUME NEW d \in Nat, NEW n \in Nat PROVE Holds(<<>>, None, d, n)
    OBVIOUS
  <2>1. Series!Units(<<>>, None, d) = {}
    <3>1. \A i \in 0..0 : ~Counts(<<>>, None, i, d)
      BY DEF Counts
    <3>. QED  BY <3>1, UnitIs
  <2>. QED  BY <2>1, FS_EmptySet DEF Holds
<1>7. \A d \in Nat : DealtBy(0, d) = 0
  <2>1. \A d : Dealt(tape, 0, d) = {}
    BY DEF Dealt
  <2>. QED  BY <2>1, FS_EmptySet DEF DealtBy
<1>8. \A d \in Nat : HoldsNow(d, DealtBy(seen, d)) /\ HoldsNow(d, 0)
  BY <1>2, <1>3, <1>4, <1>6, <1>7 DEF HoldsNow
<1>9. IsFiniteSet(sweep) /\ \A x \in sweep : Sized(x)
  BY <1>2, FS_EmptySet
<1>. QED  BY <1>3, <1>4, <1>5, <1>8, <1>9 DEF Tallied

LEMMA TalliedNext == Settled /\ Tallied /\ [Series!Next]_(Series!vars) => Tallied'
<1>1. SUFFICES ASSUME Settled, Tallied, [Series!Next]_(Series!vars) PROVE Tallied'
  OBVIOUS
<1>2. \A n \in 1..MaxTrades : n \in Nat
  OBVIOUS
<1>. QED
  BY <1>1, <1>2, OnTickKeepsTally, FlushKeepsTally, SweepAsksKeeps, SweepAnsweredKeeps,
     ElsewhereKeeps, TradeKeepsTally DEF Series!Next

\* Of Bars, for any frames, tape, skipped and late frames, reconnects, confirmed, replaced
\* and dropped bars: the bars built from frames attribute no more volume to a day than it
\* has traded, so none of it to two bars (Aggregator._volume_delta, _roll_day).
THEOREM VolumeIsCountedOnceHolds == Series!Spec => []VolumeIsCountedOnce
<1>1. Settled /\ Tallied => VolumeIsCountedOnce
  <2>. SUFFICES ASSUME Settled, Tallied, NEW d \in 0..Series!DayOf(now)
                PROVE  Series!Cardinality(Series!Units(closed[SweepTf], forming[SweepTf], d))
                         <= Series!Cardinality({n \in DOMAIN tape : Series!DayOf(tape[n].t) = d})
    BY DEF VolumeIsCountedOnce, Series!VolumeIsCountedOnce
  <2>1. IsTape(tape, now) /\ seen \in Nat /\ seen <= Len(tape) /\ Len(tape) \in Nat /\ DOMAIN tape = 1..Len(tape) /\ now \in Nat
    BY TapeKnown DEF Settled, Times
  <2>2. d \in Nat
    BY <2>1, DayFacts
  <2>. DEFINE U == Series!Units(closed[SweepTf], forming[SweepTf], d)
  <2>3. IsFiniteSet(U) /\ Cardinality(U) <= DealtBy(seen, d)
    BY <2>2 DEF Tallied, HoldsNow, Holds
  <2>. HIDE DEF U
  <2>4. DealtBy(seen, d) \in Nat /\ DealtBy(Len(tape), d) \in Nat /\ DealtBy(seen, d) <= DealtBy(Len(tape), d)
    BY <2>1, DealtFacts
  <2>5. Cardinality(U) <= DealtBy(Len(tape), d)
    BY <2>3, <2>4, FS_CardinalityType
  <2>6. DealtBy(Len(tape), d) = Cardinality({n \in DOMAIN tape : Series!DayOf(tape[n].t) = d})
    BY <2>1 DEF DealtBy, Dealt
  <2>. QED  BY <2>5, <2>6, SameCount DEF U
<1>2. Series!Init => Settled /\ Tallied
  BY SettledInit, TalliedInit
<1>3. Settled /\ Tallied /\ [Series!Next]_(Series!vars) => (Settled /\ Tallied)'
  BY SettledNext, TalliedNext
<1>. QED  BY <1>1, <1>2, <1>3, PTL DEF Series!Spec

=============================================================================
