--------------------------------- MODULE Legs ---------------------------------
(* The ladders of the contracts that are traded (instrument/legs.py): loaded at  *)
(* boot and by the repair task, one call a contract; the rungs a book takes from *)
(* one when a position opens; and the exit plan its card shows beside what the   *)
(* rungs sell. What a call is answered with is LegRungs' business. Calls only -  *)
(* puts mirror them. The semaphore orders the calls and is left out: any of      *)
(* those in flight may be answered. A day is a trading day.                      *)
EXTENDS Integers, Sequences, FiniteSets, Functions

CONSTANTS
  Strikes,        \* of the listed calls
  PerSide,        \* STRIKES_PER_SIDE
  Spots,          \* where the name trades
  LadderOf,       \* what each contract's candles come to on a day: its levels, or None
  First, LastDay,    \* the first day the engine runs on; bound: the last one
  Tries,          \* attempts of a call
  Styles,          \* [own, daily, room, projected]: own_ladder, ladder_mode, the percent of
                  \* arm_min_move, and how many targets a book without a ladder has
  Premiums, Hands,\* what a position pays, in Levels' units; its lots
  Shares,         \* target_ladder, in percent
  Moves,          \* bound: how often the name moves
  None

Days == 0..LastDay

\* A ladder of shares does not sell more than there is, and has one for each projected target.
ASSUME LegsAssumption ==
  /\ {PerSide, First, LastDay, Tries, Moves} \union Hands \subseteq Nat
  /\ First \in Days
  /\ \A k \in Strikes, d \in Days : LadderOf[k][d] # None => IsFiniteSet(LadderOf[k][d].merged)
  /\ Shares \in Seq(Nat) /\ SumFunction(Shares) <= 100
  /\ \A book \in Styles : book.own \in BOOLEAN /\ book.projected \in 0..Len(Shares)

VARIABLES
  today, spot, moves,
  lastDay, due,         \* the housekeeping loop's last_day, _legs_due
  boot,                 \* the boot's task: "owed" or "begun"
  ladders, day, failed, refused, \* LegPivotLoader.by_code, day, failed_codes, refused_codes
  calls,                \* in flight: [task, code, asof, tries]
  carried                   \* the position, its plan, and what its rungs have sold

world == <<today, spot, moves>>
loader == <<ladders, day, failed, refused>>
legsVars == <<world, lastDay, due, boot, loader, calls, carried>>

-----------------------------------------------------------------------------
(* The rungs of a position.                                                    *)

\* The i-th from below.
Lowest(S, i) == CHOOSE x \in S : Cardinality({y \in S : y < x}) = i - 1

\* mtf_rungs: the day's and the week's levels, merged, those above the price.
MtfRungs(own, above) == {r \in own.merged : r > above}

DailyRungs(own, above) ==
  {r \in {own.daily[name] \div 6 : name \in {"r1", "r2", "r3", "r4"}} : r > above}

\* _own_ladder_for: at most four rungs; without a ladder, none.
OwnLadder(book, code, entry) ==
  LET own == ladders[code]
      all == IF own = None THEN {} ELSE IF book.daily THEN DailyRungs(own, entry) ELSE MtfRungs(own, entry)
      far == {r \in all : book.room = 0 \/ r * 100 >= entry * (100 + book.room)}
  IN  [i \in 1..(IF Cardinality(far) < 4 THEN Cardinality(far) ELSE 4) |-> Lowest(far, i)]

-----------------------------------------------------------------------------
(* What leaves where: the card's plan and the exit engine's quantities, in lots. *)

\* _exit_plan: own books one lot a rung and the rest, the others their shares.
PlanOf(book, n, lots) ==
  LET share(i) == (lots * Shares[i]) \div 100
      rest == IF lots < n THEN 0 ELSE lots - (n - 1)
      before(i) == SumFunctionOnSet([j \in 1..n |-> share(j)], 1..(i - 1))
  IN  [i \in 1..n |-> IF book.own THEN (IF i = n THEN rest ELSE 1)
                      ELSE IF i = n THEN lots - before(i) ELSE share(i)]

\* Mutant: the tranche is two lots.
TakesTwo(p, i) == IF i = Len(p.rungs) \/ p.left <= 2 THEN p.left ELSE 2

\* _touch with _tranche, and _ladder_qty: a share under one lot sells everything.
Takes(p, i) ==
  LET want == (p.lots * Shares[i]) \div 100
  IN  IF i = Len(p.rungs) THEN p.left
      ELSE IF p.book.own THEN (IF p.left <= 1 THEN p.left ELSE 1)
      ELSE IF want = 0 \/ want > p.left THEN p.left ELSE want

-----------------------------------------------------------------------------
(* LegPivotLoader.                                                              *)

\* otm_legs: the nearest strikes above the price.
Expected == {k \in Strikes : k > spot /\ Cardinality({j \in Strikes : j > spot /\ j <= k}) <= PerSide}

Missing == {k \in Expected : ladders[k] = None /\ k \notin refused}

\* load: another day clears what was there.
Load(task, legs) ==
  /\ IF day # today
       THEN ladders' = [k \in Strikes |-> None] /\ failed' = {} /\ refused' = {}
       ELSE UNCHANGED <<ladders, failed, refused>>
  /\ day' = today
  /\ calls' = calls \union {[task |-> task, code |-> k, asof |-> today, tries |-> 0] : k \in legs}

\* _one, answered: the levels are of the day the load began on.
Answers(c) ==
  /\ calls' = calls \ {c}
  /\ failed' = failed \ {c.code}
  /\ LET own == LadderOf[c.code][c.asof]
     IN  IF own = None
           THEN refused' = refused \union {c.code} /\ UNCHANGED ladders
           ELSE ladders' = [ladders EXCEPT ![c.code] = own] /\ UNCHANGED refused
  /\ UNCHANGED <<world, lastDay, due, boot, day, carried>>

\* _one, refused: tried again after a pause, given up after the last attempt.
Raises(c) ==
  /\ IF c.tries + 1 < Tries
       THEN calls' = (calls \ {c}) \union {[c EXCEPT !.tries = @ + 1]} /\ UNCHANGED failed
       ELSE calls' = calls \ {c} /\ failed' = failed \union {c.code}
  /\ UNCHANGED <<world, lastDay, due, boot, ladders, day, refused, carried>>

-----------------------------------------------------------------------------
(* The engine.                                                                  *)

\* _load_leg_pivots, a task of its own after the boot.
BootLoads ==
  /\ boot = "owed" /\ boot' = "begun"
  /\ Load("boot", Expected)
  /\ UNCHANGED <<world, lastDay, due, carried>>

\* Mutant: a failed call alone is no reason to repair.
OwedByTheDay == due

Owed == due \/ failed # {}

\* _pivot_repair, one at a time: everything when the day turned, otherwise what is missing.
Repairs ==
  /\ Owed
  /\ \A c \in calls : c.task # "repair"
  /\ due' = FALSE
  /\ LET todo == IF due THEN Expected ELSE Missing
     IN  IF todo = {} THEN UNCHANGED <<loader, calls>> ELSE Load("repair", todo)
  /\ UNCHANGED <<world, lastDay, boot, carried>>

Midnight ==
  /\ today < LastDay /\ today' = today + 1
  /\ UNCHANGED <<spot, moves, lastDay, due, boot, loader, calls, carried>>

\* _housekeeping, when the day has turned.
Rolls ==
  /\ lastDay # today /\ lastDay' = today /\ due' = TRUE
  /\ UNCHANGED <<world, boot, loader, calls, carried>>

NameMoves ==
  /\ moves < Moves /\ moves' = moves + 1
  /\ spot' \in Spots \ {spot}
  /\ UNCHANGED <<today, lastDay, due, boot, loader, calls, carried>>

NoPosition == [open |-> FALSE]

\* The fill stamps the book's ladder; another book's targets are projected.
Opens(book, code, entry, lots) ==
  /\ ~carried.open
  /\ LET rungs == IF book.own THEN OwnLadder(book, code, entry) ELSE [i \in 1..book.projected |-> entry + i]
     IN  carried' = [open |-> TRUE, book |-> book, code |-> code, entry |-> entry, rungs |-> rungs, lots |-> lots,
                 left |-> lots, plan |-> PlanOf(book, Len(rungs), lots), sold |-> <<>>]
  /\ UNCHANGED <<world, lastDay, due, boot, loader, calls>>

\* A rung is touched; the last touch, or the last lot, closes the position.
Touches ==
  /\ carried.open /\ carried.left > 0 /\ Len(carried.sold) < Len(carried.rungs)
  /\ LET out == Takes(carried, Len(carried.sold) + 1)
     IN  carried' = [carried EXCEPT !.sold = Append(@, out), !.left = @ - out]
  /\ UNCHANGED <<world, lastDay, due, boot, loader, calls>>

LegsInit ==
  /\ today = First /\ spot \in Spots /\ moves = 0
  /\ lastDay = First /\ due = FALSE /\ boot = "owed"
  /\ ladders = [k \in Strikes |-> None] /\ day = None /\ failed = {} /\ refused = {}
  /\ calls = {} /\ carried = NoPosition

LegsNext ==
  \/ BootLoads \/ Repairs \/ Midnight \/ Rolls \/ NameMoves \/ Touches
  \/ \E c \in calls : Answers(c) \/ Raises(c)
  \/ \E book \in Styles, code \in Expected, entry \in Premiums, lots \in Hands : Opens(book, code, entry, lots)

(* The tasks run, and the broker refuses a contract now and then, not for ever.  *)
LegsFairness ==
  /\ WF_legsVars(BootLoads) /\ WF_legsVars(Repairs) /\ WF_legsVars(Rolls)
  /\ WF_legsVars(\E c \in calls : Answers(c) \/ Raises(c))
  /\ \A k \in Strikes : SF_legsVars(\E c \in calls : c.code = k /\ Answers(c))

LegsSpec == LegsInit /\ [][LegsNext]_legsVars /\ LegsFairness

-----------------------------------------------------------------------------

(* The rungs sell what the card said they would, as long as it gave each of them *)
(* a lot to sell; what is held is never oversold.                               *)
PlanIsKept ==
  carried.open =>
    /\ carried.left >= 0
    /\ \A i \in DOMAIN carried.sold : (\A j \in 1..i : carried.plan[j] >= 1) => carried.sold[i] = carried.plan[i]

(* A leg whose call was given up is asked for again until it is answered, or is  *)
(* no longer near the price, although two loads may be asking and a day turn.    *)
FailedLegsAreAskedAgain ==
  \A k \in Strikes : k \in failed \intersect Missing ~> k \notin Missing

===============================================================================
