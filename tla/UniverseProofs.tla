---------------------------- MODULE UniverseProofs ----------------------------
(* What the engine picks from, and what it holds, is subscribed: for any master, *)
(* any policy, any number of refusals and restarts.  A step keeps it because     *)
(* groups change in two ways only: built anew, with the subscriptions, or with   *)
(* other strikes, of which the fresh ones are asked for.  That a repicked group  *)
(* keeps its futures needs the shape of groups, so the invariant carries it. Then *)
(* one trigger: a signal is entered once in a book, and the entry is shown; the    *)
(* contract it is traded in was quoted of late.  Then the futures of the groups:   *)
(* one of them outlives the expiry.  At the end, the plans of a signal and its      *)
(* fade: sorting, merging and rounding their levels leaves the stop behind the      *)
(* close and the targets ahead, in order.                                           *)
EXTENDS MCDesk, FiniteSetTheorems, SequenceTheorems, WellFoundedInduction, TLAPS

GroupShape == [futures : SUBSET Contracts, options : SUBSET Contracts]

GroupsOK == groups \in [Segments -> GroupShape \union {None}]

Priced == GroupsOK /\ UniverseIsPriced

\* A pick is among the contracts it is picked from.
LEMMA PicksAreContracts ==
  ASSUME NEW s, NEW of
  PROVE  FuturesOf(s, of) \subseteq Contracts /\ OptionsOf(s, of) \subseteq Contracts
  BY DEF FuturesOf, OptionsOf, Lowest, Live, Known, Master

\* Built groups have the shape.
LEMMA BuiltShape ==
  ASSUME NEW of
  PROVE  Built(of) \in [Segments -> GroupShape \union {None}]
<1>1. \A s \in Segments : Group(s, of) \in GroupShape
  BY PicksAreContracts DEF Group, GroupShape
<1>. QED  BY <1>1 DEF Built

\* Repicked groups have it too, and their futures are the old ones.
LEMMA RepickedShape ==
  ASSUME NEW of, GroupsOK
  PROVE  /\ Repicked(of) \in [Segments -> GroupShape \union {None}]
         /\ Futures(Repicked(of)) \subseteq Futures(groups)
<1>1. ASSUME NEW s \in Segments, groups[s] # None
      PROVE  /\ Repicked(of)[s] \in GroupShape
             /\ Repicked(of)[s].futures = groups[s].futures
  <2>1. groups[s] \in GroupShape
    BY <1>1 DEF GroupsOK
  <2>2. OptionsOf(s, of) \subseteq Contracts
    BY PicksAreContracts
  <2>3. Repicked(of)[s] = [groups[s] EXCEPT !.options = OptionsOf(s, of)]
    BY <1>1 DEF Repicked
  <2>. QED  BY <2>1, <2>2, <2>3 DEF GroupShape
<1>2. ASSUME NEW s \in Segments, groups[s] = None
      PROVE  Repicked(of)[s] = None
  BY <1>2 DEF Repicked
<1>3. Repicked(of) \in [Segments -> GroupShape \union {None}]
  <2>1. \A s \in Segments : Repicked(of)[s] \in GroupShape \union {None}
    BY <1>1, <1>2
  <2>2. Repicked(of) = [s \in Segments |-> Repicked(of)[s]]
    BY DEF Repicked
  <2>. QED  BY <2>1, <2>2
<1>4. Futures(Repicked(of)) \subseteq Futures(groups)
  <2>1. SUFFICES ASSUME NEW s \in Segments, Repicked(of)[s] # None, NEW c \in Repicked(of)[s].futures
                 PROVE  c \in Futures(groups)
    BY DEF Futures
  <2>2. groups[s] # None
    BY <1>2, <2>1
  <2>3. c \in groups[s].futures
    BY <1>1, <2>1, <2>2
  <2>. QED  BY <2>2, <2>3 DEF Futures
<1>. QED  BY <1>3, <1>4

LEMMA PricedInit == Init => Priced
  BY DEF Init, Priced, GroupsOK, UniverseIsPriced

\* The actions that leave groups, subscriptions and positions alone.
Quiet == UNCHANGED <<engine, groups, mf, oi, held>>

LEMMA QuietSteps ==
  ASSUME Priced, Quiet
  PROVE  Priced'
  BY DEF Priced, GroupsOK, UniverseIsPriced, Quiet, Hand, Futures

LEMMA PricedNext == Priced /\ [Next]_vars => Priced'
<1>1. SUFFICES ASSUME Priced, [Next]_vars
               PROVE  Priced'
  OBVIOUS
<1>2. ASSUME Passes \/ Rolls \/ Rolled \/ Rebuilds \/ (\E s \in Segments : Fetches(s)) \/ UNCHANGED vars
      PROVE  Priced'
  <2>1. Quiet
    BY <1>2, Zenon DEF Quiet, Passes, Rolls, Rolled, Rebuilds, Fetches, vars
  <2>. QED  BY <1>1, <2>1, QuietSteps
<1>3. ASSUME Boots
      PROVE  Priced'
  <2>1. groups' = groups /\ engine' # "up"
    BY <1>3 DEF Boots
  <2>. QED  BY <1>1, <2>1 DEF Priced, GroupsOK, UniverseIsPriced
<1>4. ASSUME Booted
      PROVE  Priced'
  <2>1. groups' \in [Segments -> GroupShape \union {None}]
    BY <1>4, BuiltShape DEF Booted
  <2>2. mf' = Hand(groups') \union Futures(groups') \union held /\ oi' = mf' /\ held' = held
    BY <1>4 DEF Booted
  <2>3. Hand(groups)' = Hand(groups') /\ Futures(groups)' = Futures(groups')
    BY DEF Hand, Futures
  <2>. QED  BY <2>1, <2>2, <2>3 DEF Priced, GroupsOK, UniverseIsPriced
<1>5. ASSUME Repicks
      PROVE  Priced'
  <2>1. groups' = Repicked(load.of) /\ engine' = engine /\ held' = held
    BY <1>5 DEF Repicks
  <2>2. groups' \in [Segments -> GroupShape \union {None}] /\ Futures(groups') \subseteq Futures(groups)
    BY <1>1, <2>1, RepickedShape DEF Priced
  <2>3. /\ mf' = mf \union (Hand(groups') \ Hand(groups))
        /\ oi' = oi \union (Hand(groups') \ Hand(groups))
    BY <1>5 DEF Repicks
  <2>4. Hand(groups)' = Hand(groups') /\ Futures(groups)' = Futures(groups')
    BY DEF Hand, Futures
  <2>. QED  BY <1>1, <2>1, <2>2, <2>3, <2>4 DEF Priced, GroupsOK, UniverseIsPriced
<1>6. ASSUME NEW s \in Segments, NEW c \in Contracts, Buys(s, c)
      PROVE  Priced'
  <2>1. /\ groups' = groups /\ engine' = engine /\ oi' = oi
        /\ mf' = mf \union {c} /\ held' = held \union {c}
    BY <1>6 DEF Buys
  <2>. QED  BY <1>1, <2>1 DEF Priced, GroupsOK, UniverseIsPriced, Hand, Futures
<1>7. ASSUME NEW c \in held, Sells(c)
      PROVE  Priced'
  <2>1. groups' = groups /\ engine' = engine /\ mf' = mf /\ oi' = oi /\ held' \subseteq held
    BY <1>7 DEF Sells
  <2>. QED  BY <1>1, <2>1 DEF Priced, GroupsOK, UniverseIsPriced, Hand, Futures
<1>8. ASSUME Stops
      PROVE  Priced'
  <2>1. groups' = [s \in Segments |-> None] /\ engine' # "up"
    BY <1>8 DEF Stops
  <2>. QED  BY <2>1 DEF Priced, GroupsOK, UniverseIsPriced
<1>. QED  BY <1>1, <1>2, <1>3, <1>4, <1>5, <1>6, <1>7, <1>8 DEF Next

(* Whatever the engine picks its trades from, or holds, it is asked prices of,   *)
(* through midnights, failed rebuilds and restarts (engine.py, _boot_market and  *)
(* _intraday_universe_rebuild).                                                  *)
THEOREM UniverseIsPricedHolds == Spec => []UniverseIsPriced
<1>1. Init => Priced
  BY PricedInit
<1>2. Priced /\ [Next]_vars => Priced'
  BY PricedNext
<1>3. Priced => UniverseIsPriced
  BY DEF Priced
<1>. QED  BY <1>1, <1>2, <1>3, PTL DEF Spec

-----------------------------------------------------------------------------
(* One trigger.  Who passed the gateway's check of an id, and what has been       *)
(* opened under it, in memory or in the ledger, are followed together: a start    *)
(* forgets the first and keeps the second, and the ids it seeds the check with    *)
(* are those of recorded signals.                                                 *)

TaskShape == [at : {"idle", "select", "order", "save", "mirror", "route"}, id : Enter!Ids \union {None}, auto : BOOLEAN]

\* A fill and what follows it.
Past == {"order", "save", "mirror"}

\* What has been opened, once for memory and once for the ledger.
Mark(i, p) == [n |-> i, id |-> p.id, book |-> p.book, slot |-> p.slot, auto |-> p.auto]

Entered == {Mark(i, positions[i]) : i \in DOMAIN positions} \union {Mark(i, rows[i]) : i \in DOMAIN rows}

\* What a task is about, when it does anything: the engine's is the bar that has just ended.
Timely(k, w) ==
  /\ w.at # "idle" => w.id \in Enter!Ids
  /\ w.at # "idle" /\ w.auto =>
       \E bar \in Bars : now = bar + 1 /\ (w.id = Enter!Parent(bar) \/ (w.id = Enter!FadeOf(bar) /\ Enter!Parent(bar) \in DOMAIN signals))
  /\ w.at = "route" => w.auto /\ w.id = Enter!Parent(k) /\ w.id \in DOMAIN signals

DeskTypes ==
  /\ now \in Nat
  /\ task \in [Bars \union Operators -> TaskShape]
  /\ positions \in [DOMAIN positions -> Enter!Position]
  /\ rows \in [DOMAIN rows -> Enter!Position]
  /\ \E n \in Nat : DOMAIN positions \union DOMAIN rows \subseteq 1..n

OnTime == \A k \in Bars \union Operators : Timely(k, task[k])

\* An id is with one task past the check, and known to it.
Claims ==
  /\ \A k, l \in Bars \union Operators :
       task[k].at \in Past /\ task[l].at \in Past /\ task[k].id = task[l].id => k = l
  /\ \A k \in Bars \union Operators :
       /\ task[k].at \in Past => task[k].id \in seen
       /\ task[k].at \in {"save", "mirror"} => task[k].id \in DOMAIN signals

\* Until its fill nothing is open under an id, and until its mirror only its own book's.
NotYet ==
  \A k \in Bars \union Operators :
    /\ task[k].at = "order" => \A e \in Entered : e.id # task[k].id
    /\ task[k].at \in {"save", "mirror"} => \A e \in Entered : e.id = task[k].id => e.book = e.id.book

Once ==
  /\ \A e \in Entered : e.id \in seen /\ e.id \in DOMAIN signals
  /\ \A e, f \in Entered : e.id = f.id /\ e.book = f.book => e.n = f.n

\* What the engine entered belongs to a bar, and to a book that shows it.
OfABar ==
  \A e \in Entered : e.auto =>
    \E bar \in Bars :
      /\ e.slot = bar + 1 /\ Enter!Parent(bar) \in DOMAIN signals
      /\ \/ e.id = Enter!Parent(bar) /\ e.book \notin Enter!CounterBooks
         \/ e.id = Enter!FadeOf(bar) /\ e.book \in Enter!CounterBooks

DeskInv == DeskTypes /\ OnTime /\ Claims /\ NotYet /\ Once /\ OfABar

LEMMA BarsAreNumbers == Bars \subseteq Nat
  BY DeskAssumption DEF Enter!TriggerAssumption

-----------------------------------------------------------------------------

LEMMA LeastNumber ==
  ASSUME NEW T, T \subseteq Nat, T # {}
  PROVE  \E n \in T : n - 1 \notin T
<1>1. PICK n \in T : \A m \in T : ~(<<m, n>> \in OpToRel(<, Nat))
  BY NatLessThanWellFounded, WFMin, Zenon
<1>2. \A m \in T : ~(m < n)
  BY <1>1, Zenon DEF OpToRel
<1>. QED  BY <1>2

LEMMA SmallestMember ==
  ASSUME NEW T, T \subseteq Nat, T # {}
  PROVE  \E m \in T : \A n \in T : m <= n
<1>1. PICK m \in T : \A n \in T : ~(<<n, m>> \in OpToRel(<, Nat))
  BY NatLessThanWellFounded, WFMin, Zenon
<1>2. \A n \in T : ~(n < m)
  BY <1>1, Zenon DEF OpToRel
<1>3. \A n \in T : m <= n
  BY <1>2
<1>. QED  BY <1>3

\* The next number is nobody's.
LEMMA NumberIsNew ==
  ASSUME DeskTypes
  PROVE  /\ Enter!Number \in Nat /\ Enter!Number > 0
         /\ \A i \in DOMAIN positions \union DOMAIN rows : i \in Nat /\ i > 0 /\ i < Enter!Number
<1>. DEFINE used == DOMAIN positions \union DOMAIN rows
            bounds == {n \in Nat : used \subseteq 1..n}
<1>1. PICK n \in bounds : n - 1 \notin bounds
  BY LeastNumber, Zenon DEF DeskTypes
<1>2. n \in used \union {0}
  <2>1. CASE n = 0
    BY <2>1
  <2>2. CASE n # 0
    <3>1. PICK i \in used : i \notin 1..(n - 1)
      BY <1>1, <2>2
    <3>. QED  BY <1>1, <3>1
  <2>. QED  BY <2>1, <2>2
<1>3. \A i \in used \union {0} : i \in Nat /\ n >= i
  BY <1>1
<1>. DEFINE m == Enter!Max(used \union {0})
<1>4. m \in used \union {0} /\ \A i \in used \union {0} : m >= i
  BY <1>2, <1>3 DEF Enter!Max
<1>5. Enter!Number = m + 1
  BY DEF Enter!Number
<1>6. \A i \in used : i \in Nat /\ i > 0
  BY <1>1
<1>. QED  BY <1>3, <1>4, <1>5, <1>6

\* A position more, under the next number.
LEMMA OneMore ==
  ASSUME DeskTypes, NEW p \in Enter!Position, positions' = Enter!With(p),
         \/ rows' = rows
         \/ rows' = Enter!SaveOf(positions', p.id, p.book)
  PROVE  /\ Entered' \subseteq Entered \union {Mark(Enter!Number, p)}
         /\ positions' \in [DOMAIN positions' -> Enter!Position]
         /\ rows' \in [DOMAIN rows' -> Enter!Position]
         /\ \E n \in Nat : DOMAIN positions' \union DOMAIN rows' \subseteq 1..n
<1>. DEFINE n == Enter!Number
<1>1. n \in Nat /\ n > 0 /\ \A i \in DOMAIN positions \union DOMAIN rows : i \in 1..n /\ i # n
  BY NumberIsNew
<1>. HIDE DEF n
<1>2. DOMAIN positions' = DOMAIN positions \union {n} /\ positions'[n] = p
      /\ \A i \in DOMAIN positions : positions'[i] = positions[i]
  BY <1>1 DEF Enter!With, n
<1>3. positions' \in [DOMAIN positions' -> Enter!Position]
  BY <1>1 DEF DeskTypes, Enter!With, n
<1>4. /\ DOMAIN rows \subseteq DOMAIN rows' /\ DOMAIN rows' \subseteq DOMAIN rows \union DOMAIN positions'
      /\ \A i \in DOMAIN rows' : rows'[i] = IF i \in DOMAIN rows THEN rows[i] ELSE positions'[i]
      /\ rows' = [i \in DOMAIN rows' |-> rows'[i]]
  BY DEF Enter!SaveOf, DeskTypes
<1>5. rows' \in [DOMAIN rows' -> Enter!Position]
  BY <1>3, <1>4 DEF DeskTypes
<1>6. DOMAIN positions' \union DOMAIN rows' \subseteq 1..n
  BY <1>1, <1>2, <1>4
<1>7. \A i \in DOMAIN positions' : Mark(i, positions'[i]) \in Entered \union {Mark(n, p)}
  BY <1>2 DEF Entered
<1>8. \A i \in DOMAIN rows' : Mark(i, rows'[i]) \in Entered \union {Mark(n, p)}
  BY <1>4, <1>7 DEF Entered
<1>. QED  BY <1>1, <1>3, <1>5, <1>6, <1>7, <1>8 DEF Entered, n

\* What is known of a task stays known as the ledger grows, while the half hour lasts.
LEMMA StaysTimely ==
  ASSUME NEW k, NEW w, Timely(k, w), now' = now, DOMAIN signals \subseteq DOMAIN signals'
  PROVE  Timely(k, w)'
  BY DEF Timely, Enter!Parent, Enter!FadeOf, Enter!IdOf

\* Of a bar stays of a bar.
LEMMA StaysOfABar ==
  ASSUME OfABar, DOMAIN signals \subseteq DOMAIN signals', Entered' \subseteq Entered
  PROVE  OfABar'
  BY DEF OfABar, Enter!Parent, Enter!FadeOf, Enter!IdOf

\* A task that begins, or is done with an id: nothing is opened and no check is passed.
LEMMA StepsBack ==
  ASSUME DeskInv, NEW k \in Bars \union Operators, NEW w \in TaskShape, w.at \notin Past,
         Timely(k, w)', task' = [task EXCEPT ![k] = w], UNCHANGED <<now, seen, positions, rows>>,
         DOMAIN signals \subseteq DOMAIN signals'
  PROVE  DeskInv'
<1>1. Entered' = Entered
  BY DEF Entered
<1>2. task' \in [Bars \union Operators -> TaskShape] /\ task'[k] = w
      /\ \A l \in Bars \union Operators : l # k => task'[l] = task[l]
  BY DEF DeskInv, DeskTypes
<1>3. DeskTypes'
  BY <1>2 DEF DeskInv, DeskTypes
<1>4. OnTime'
  <2>1. SUFFICES ASSUME NEW l \in Bars \union Operators PROVE Timely(l, task[l])'
    BY DEF OnTime
  <2>2. PICK u : u = task'[l]
    OBVIOUS
  <2>3. Timely(l, u)'
    <3>1. CASE l = k
      BY <1>2, <2>2, <3>1
    <3>2. CASE l # k
      <4>1. Timely(l, u)
        BY <1>2, <2>2, <3>2 DEF DeskInv, OnTime
      <4>. QED  BY <4>1, StaysTimely
    <3>. QED  BY <3>1, <3>2
  <2>. QED  BY <2>2, <2>3 DEF Timely
<1>5. Claims'
  BY <1>2 DEF DeskInv, Claims, Past
<1>6. NotYet'
  BY <1>1, <1>2 DEF DeskInv, NotYet, Past
<1>7. Once'
  BY <1>1 DEF DeskInv, Once
<1>8. OfABar'
  BY <1>1, StaysOfABar DEF DeskInv
<1>. QED  BY <1>3, <1>4, <1>5, <1>6, <1>7, <1>8 DEF DeskInv

\* After an entry.
LEMMA AfterEntry ==
  ASSUME DeskInv, NEW k \in Bars \union Operators, task[k].at # "idle", task[k].id \in DOMAIN signals',
         task' = [task EXCEPT ![k] = Enter!After(k)], UNCHANGED <<now, seen, positions, rows>>,
         DOMAIN signals \subseteq DOMAIN signals'
  PROVE  DeskInv'
<1>1. PICK w : w = Enter!After(k)
  OBVIOUS
<1>2. task[k] \in TaskShape
  BY DEF DeskInv, DeskTypes
<1>3. w \in TaskShape /\ w.at \in {"idle", "route"}
  BY <1>1, <1>2 DEF Enter!After, Enter!Idle, TaskShape
<1>4. w.at = "route" => w.id = task[k].id /\ w.auto = task[k].auto /\ task[k].auto /\ w.id = Enter!Parent(k)
  BY <1>1, <1>2, Zenon DEF Enter!After, Enter!Idle, TaskShape
<1>5. PICK u : u = task[k]
  OBVIOUS
<1>6. Timely(k, u)
  BY <1>5 DEF DeskInv, OnTime
<1>7. Timely(k, u)'
  BY <1>6, StaysTimely
<1>8. Timely(k, w)'
  BY <1>3, <1>4, <1>5, <1>7 DEF Timely
<1>. QED  BY <1>1, <1>3, <1>8, StepsBack, Zenon DEF Past

LEMMA RecordedGrows ==
  ASSUME NEW id, NEW decision, signals' = Enter!Recorded(id, decision)
  PROVE  DOMAIN signals \subseteq DOMAIN signals' /\ id \in DOMAIN signals'
  BY DEF Enter!Recorded

LEMMA DeclinedKeeps ==
  ASSUME DeskInv, NEW k \in DOMAIN task, Enter!Declined(k) \/ Enter!Unfilled(k)
  PROVE  DeskInv'
<1>1. DOMAIN task = Bars \union Operators
  BY DEF DeskInv, DeskTypes
<1>2. \/ signals' = Enter!Recorded(task[k].id, "DECLINED")
      \/ signals' = Enter!Recorded(task[k].id, "REJECTED")
  BY DEF Enter!Declined, Enter!Unfilled
<1>3. DOMAIN signals \subseteq DOMAIN signals' /\ task[k].id \in DOMAIN signals'
  BY <1>2, RecordedGrows
<1>. QED  BY <1>1, <1>3, AfterEntry DEF Enter!Declined, Enter!Unfilled

LEMMA SubmitsKeeps ==
  ASSUME DeskInv, NEW k \in DOMAIN task, Enter!Submits(k)
  PROVE  DeskInv'
<1>1. DOMAIN task = Bars \union Operators /\ task[k].at = "select"
  BY DEF DeskInv, DeskTypes, Enter!Submits
<1>2. CASE task[k].id \in seen
  <2>1. signals' = Enter!Recorded(task[k].id, "DUPLICATE") /\ task' = [task EXCEPT ![k] = Enter!After(k)]
        /\ UNCHANGED <<now, seen, positions, rows>>
    BY <1>2 DEF Enter!Submits
  <2>. QED  BY <1>1, <2>1, RecordedGrows, AfterEntry, Zenon
<1>3. CASE task[k].id \notin seen
  <2>1. seen' = seen \union {task[k].id} /\ task' = [task EXCEPT ![k].at = "order"]
        /\ UNCHANGED <<now, positions, signals, rows>>
    BY <1>3 DEF Enter!Submits
  <2>2. /\ task' \in [Bars \union Operators -> TaskShape]
        /\ task'[k].at = "order" /\ task'[k].id = task[k].id /\ task'[k].auto = task[k].auto
        /\ \A l \in Bars \union Operators : l # k => task'[l] = task[l]
    BY <1>1, <2>1 DEF DeskInv, DeskTypes, TaskShape
  <2>3. Entered' = Entered
    BY <2>1 DEF Entered
  <2>4. DeskTypes'
    BY <2>1, <2>2 DEF DeskInv, DeskTypes
  <2>5. OnTime'
    <3>1. \A l \in Bars \union Operators : task[l].at # "idle" => Timely(l, task[l])
      BY DEF DeskInv, OnTime
    <3>. QED  BY <1>1, <2>1, <2>2 DEF DeskInv, OnTime, Timely
  <2>6. Claims'
    BY <1>1, <1>3, <2>1, <2>2 DEF DeskInv, Claims, Past
  <2>7. NotYet'
    BY <1>1, <1>3, <2>2, <2>3 DEF DeskInv, NotYet, Once
  <2>8. Once'
    BY <2>1, <2>3 DEF DeskInv, Once
  <2>9. OfABar'
    BY <2>1, <2>3, StaysOfABar DEF DeskInv
  <2>. QED  BY <2>4, <2>5, <2>6, <2>7, <2>8, <2>9 DEF DeskInv
<1>. QED  BY <1>2, <1>3

\* An entry's book is its own or the mirror of it, and the engine's is one the bar's card shows.
LEMMA MarkOfABar ==
  ASSUME DeskInv, NEW k \in Bars \union Operators, task[k].at \in Past, NEW e,
         e.id = task[k].id, e.auto = task[k].auto, e.slot = now,
         e.book = e.id.book \/ e.book = Enter!MirrorOf(e.id.book),
         DOMAIN signals \subseteq DOMAIN signals', e.id \in DOMAIN signals', e.auto
  PROVE  \E bar \in Bars :
           /\ e.slot = bar + 1 /\ Enter!Parent(bar) \in DOMAIN signals'
           /\ \/ e.id = Enter!Parent(bar) /\ e.book \notin Enter!CounterBooks
              \/ e.id = Enter!FadeOf(bar) /\ e.book \in Enter!CounterBooks
<1>1. PICK bar \in Bars :
        /\ now = bar + 1
        /\ \/ e.id = Enter!Parent(bar)
           \/ e.id = Enter!FadeOf(bar) /\ Enter!Parent(bar) \in DOMAIN signals
  <2>1. Timely(k, task[k]) /\ task[k].at # "idle"
    BY DEF DeskInv, OnTime, Past
  <2>. QED  BY <2>1 DEF Timely
<1>2. CASE e.id = Enter!Parent(bar)
  <2>1. e.id.book = "FUDKII"
    BY <1>2 DEF Enter!Parent, Enter!IdOf
  <2>2. e.book \notin Enter!CounterBooks
    BY <2>1 DEF Enter!MirrorOf, Enter!CounterBooks, Enter!Mirror, Enter!Fader, Enter!FadeMirror
  <2>. QED  BY <1>1, <1>2, <2>2
<1>3. CASE e.id = Enter!FadeOf(bar) /\ Enter!Parent(bar) \in DOMAIN signals
  <2>1. e.id.book = Enter!Fader
    BY <1>3 DEF Enter!FadeOf, Enter!IdOf
  <2>2. e.book \in Enter!CounterBooks
    BY <2>1 DEF Enter!MirrorOf, Enter!CounterBooks, Enter!Mirror, Enter!Fader, Enter!FadeMirror
  <2>. QED  BY <1>1, <1>3, <2>2
<1>. QED  BY <1>1, <1>2, <1>3

\* Task k opens p under its id, whose check it has passed, and becomes w.
OpensFor(k, w, p) ==
  /\ task[k].at \in Past /\ Timely(k, w)' /\ task' = [task EXCEPT ![k] = w] /\ UNCHANGED <<now, seen>>
  /\ positions' = Enter!With(p) /\ (rows' = rows \/ rows' = Enter!SaveOf(positions', p.id, p.book))
  /\ DOMAIN signals \subseteq DOMAIN signals' /\ p.id \in DOMAIN signals'
  /\ p.id = task[k].id /\ p.auto = task[k].auto /\ p.slot = now
  /\ \A f \in Entered : f.id = p.id => f.book # p.book
  /\ \/ w.at \notin Past /\ p.book = Enter!MirrorOf(p.id.book)
     \/ w.at = "save" /\ w.id = p.id /\ p.book = p.id.book /\ task[k].at = "order"

\* A task with the claim on an id opens a position that nobody has opened under it.
LEMMA OpensKeeps ==
  ASSUME DeskInv, NEW k \in Bars \union Operators, NEW w \in TaskShape, NEW p \in Enter!Position, OpensFor(k, w, p)
  PROVE  DeskInv'
<1>. USE DEF OpensFor
<1>1. PICK e : e = Mark(Enter!Number, p)
  OBVIOUS
<1>2. /\ e.n = Enter!Number /\ e.id = p.id /\ e.book = p.book /\ e.slot = p.slot /\ e.auto = p.auto
  BY <1>1 DEF Mark
<1>3. /\ Entered' \subseteq Entered \union {e}
      /\ positions' \in [DOMAIN positions' -> Enter!Position]
      /\ rows' \in [DOMAIN rows' -> Enter!Position]
      /\ \E n \in Nat : DOMAIN positions' \union DOMAIN rows' \subseteq 1..n
  BY <1>1, OneMore DEF DeskInv
<1>4. task' \in [Bars \union Operators -> TaskShape] /\ task'[k] = w
      /\ \A l \in Bars \union Operators : l # k => task'[l] = task[l]
  BY DEF DeskInv, DeskTypes
<1>5. DeskTypes'
  BY <1>3, <1>4 DEF DeskInv, DeskTypes
<1>6. OnTime'
  <2>1. SUFFICES ASSUME NEW l \in Bars \union Operators PROVE Timely(l, task[l])'
    BY DEF OnTime
  <2>2. PICK u : u = task'[l]
    OBVIOUS
  <2>3. CASE l = k
    BY <1>4, <2>3
  <2>4. CASE l # k
    <3>1. Timely(l, u)
      BY <1>4, <2>2, <2>4 DEF DeskInv, OnTime
    <3>2. Timely(l, u)'
      BY <3>1, StaysTimely
    <3>. QED  BY <2>2, <3>2 DEF Timely
  <2>. QED  BY <2>3, <2>4
<1>7. \A l \in Bars \union Operators : l # k /\ task[l].at \in Past => task[l].id # e.id
  BY <1>2 DEF DeskInv, Claims
<1>8. e.id \in seen
  BY <1>2 DEF DeskInv, Claims
<1>9. Claims'
  BY <1>2, <1>4, <1>7, <1>8 DEF DeskInv, Claims, Past
<1>10. NotYet'
  <2>1. ASSUME NEW l \in Bars \union Operators, l # k
        PROVE  /\ task'[l].at = "order" => \A f \in Entered' : f.id # task'[l].id
               /\ task'[l].at \in {"save", "mirror"} => \A f \in Entered' : f.id = task'[l].id => f.book = f.id.book
    BY <1>3, <1>4, <1>7, <2>1 DEF DeskInv, NotYet, Past
  <2>2. /\ task'[k].at = "order" => \A f \in Entered' : f.id # task'[k].id
        /\ task'[k].at \in {"save", "mirror"} => \A f \in Entered' : f.id = task'[k].id => f.book = f.id.book
    BY <1>2, <1>3, <1>4 DEF DeskInv, NotYet, Past
  <2>. QED  BY <2>1, <2>2 DEF NotYet
<1>11. Once'
  BY <1>2, <1>3, <1>8 DEF DeskInv, Once
<1>12. OfABar'
  <2>1. Enter!CounterBooks' = Enter!CounterBooks /\ \A bar : Enter!Parent(bar)' = Enter!Parent(bar) /\ Enter!FadeOf(bar)' = Enter!FadeOf(bar)
    BY DEF Enter!CounterBooks, Enter!Parent, Enter!FadeOf, Enter!IdOf, Enter!Fader, Enter!FadeMirror
  <2>2. e.book = e.id.book \/ e.book = Enter!MirrorOf(e.id.book)
    BY <1>2
  <2>. QED
    BY <1>2, <1>3, <2>1, <2>2, MarkOfABar DEF DeskInv, OfABar
<1>. QED  BY <1>5, <1>6, <1>9, <1>10, <1>11, <1>12 DEF DeskInv

LEMMA FilledKeeps ==
  ASSUME DeskInv, NEW k \in DOMAIN task, Enter!Filled(k)
  PROVE  DeskInv'
<1>1. k \in Bars \union Operators /\ task[k].at = "order" /\ task[k] \in TaskShape
  BY DEF DeskInv, DeskTypes, Enter!Filled
<1>2. PICK w : w = [task[k] EXCEPT !.at = "save"]
  BY Zenon
<1>3. w \in TaskShape /\ w.at = "save" /\ w.id = task[k].id /\ w.auto = task[k].auto
  BY <1>1, <1>2 DEF TaskShape
<1>4. PICK p : p = Enter!Opened(task[k].id, task[k].id.book, task[k].auto)
  OBVIOUS
<1>5. Timely(k, task[k])
  BY <1>1 DEF DeskInv, OnTime
<1>6. p \in Enter!Position /\ p.id = task[k].id /\ p.book = p.id.book /\ p.auto = task[k].auto /\ p.slot = now
  BY <1>1, <1>4, <1>5 DEF Enter!Opened, Enter!Position, Enter!Ids, Timely, DeskInv, DeskTypes, TaskShape
<1>7. task' = [task EXCEPT ![k] = w] /\ positions' = Enter!With(p) /\ UNCHANGED <<now, seen, rows>>
      /\ signals' = Enter!Recorded(task[k].id, "FILLED")
  BY <1>2, <1>4 DEF Enter!Filled
<1>8. DOMAIN signals \subseteq DOMAIN signals' /\ p.id \in DOMAIN signals'
  BY <1>6, <1>7, RecordedGrows
<1>9. Timely(k, w)'
  <2>1. Timely(k, w)
    BY <1>1, <1>3, <1>5 DEF Timely
  <2>. QED  BY <1>7, <1>8, <2>1, StaysTimely
<1>10. \A f \in Entered : f.id = p.id => f.book # p.book
  BY <1>1, <1>6 DEF DeskInv, NotYet
<1>11. task[k].at \in Past /\ w.at = "save" /\ w.id = p.id /\ p.book = p.id.book /\ task[k].at = "order"
  BY <1>1, <1>3, <1>6 DEF Past
<1>12. OpensFor(k, w, p)
  BY <1>6, <1>7, <1>8, <1>9, <1>10, <1>11 DEF OpensFor
<1>. QED  BY <1>1, <1>3, <1>6, <1>12, OpensKeeps

LEMMA SavesKeeps ==
  ASSUME DeskInv, NEW k \in DOMAIN task, Enter!Saves(k)
  PROVE  DeskInv'
<1>1. k \in Bars \union Operators /\ task[k].at = "save" /\ task[k] \in TaskShape
  BY DEF DeskInv, DeskTypes, Enter!Saves
<1>2. /\ rows' = Enter!SaveOf(positions, task[k].id, task[k].id.book)
      /\ task' = [task EXCEPT ![k].at = "mirror"] /\ UNCHANGED <<now, seen, positions, signals>>
  BY DEF Enter!Saves
<1>3. /\ task' \in [Bars \union Operators -> TaskShape]
      /\ task'[k].at = "mirror" /\ task'[k].id = task[k].id /\ task'[k].auto = task[k].auto
      /\ \A l \in Bars \union Operators : l # k => task'[l] = task[l]
  BY <1>1, <1>2 DEF DeskInv, DeskTypes, TaskShape
<1>4. /\ DOMAIN rows \subseteq DOMAIN rows' /\ DOMAIN rows' \subseteq DOMAIN rows \union DOMAIN positions
      /\ \A i \in DOMAIN rows' : rows'[i] = IF i \in DOMAIN rows THEN rows[i] ELSE positions[i]
      /\ rows' = [i \in DOMAIN rows' |-> rows'[i]]
  BY <1>2 DEF Enter!SaveOf
<1>5. Entered' \subseteq Entered
  BY <1>2, <1>4 DEF Entered
<1>6. DeskTypes'
  <2>1. rows' \in [DOMAIN rows' -> Enter!Position]
    BY <1>4 DEF DeskInv, DeskTypes
  <2>2. DOMAIN positions' \union DOMAIN rows' \subseteq DOMAIN positions \union DOMAIN rows
    BY <1>2, <1>4
  <2>. QED  BY <1>2, <1>3, <2>1, <2>2 DEF DeskInv, DeskTypes
<1>7. OnTime'
  BY <1>1, <1>2, <1>3 DEF DeskInv, OnTime, Timely
<1>8. Claims'
  BY <1>1, <1>2, <1>3 DEF DeskInv, Claims, Past
<1>9. NotYet'
  BY <1>1, <1>3, <1>5 DEF DeskInv, NotYet
<1>10. Once'
  BY <1>2, <1>5 DEF DeskInv, Once
<1>11. OfABar'
  BY <1>2, <1>5, StaysOfABar DEF DeskInv
<1>. QED  BY <1>6, <1>7, <1>8, <1>9, <1>10, <1>11 DEF DeskInv

LEMMA OpensTwinKeeps ==
  ASSUME DeskInv, NEW k \in DOMAIN task, Enter!OpensTwin(k)
  PROVE  DeskInv'
<1>1. k \in Bars \union Operators /\ task[k].at = "mirror" /\ task[k] \in TaskShape
  BY DEF DeskInv, DeskTypes, Enter!OpensTwin
<1>2. PICK w : w = Enter!After(k)
  OBVIOUS
<1>3. w \in TaskShape /\ w.at \in {"idle", "route"}
      /\ (w.at = "route" => w.id = task[k].id /\ w.auto = task[k].auto /\ task[k].auto /\ w.id = Enter!Parent(k))
  BY <1>1, <1>2 DEF Enter!After, Enter!Idle, TaskShape
<1>4. PICK twin : twin = Enter!MirrorOf(task[k].id.book)
  OBVIOUS
<1>5. twin \in {Enter!Mirror, Enter!FadeMirror} /\ twin # task[k].id.book
  <2>1. twin # None
    BY <1>4 DEF Enter!OpensTwin
  <2>. QED  BY <1>4, <2>1 DEF Enter!MirrorOf, Enter!Mirror, Enter!Fader, Enter!FadeMirror
<1>6. PICK p : p = Enter!Opened(task[k].id, twin, task[k].auto)
  OBVIOUS
<1>7. Timely(k, task[k]) /\ task[k].id \in DOMAIN signals
  BY <1>1 DEF DeskInv, OnTime, Claims
<1>8. p \in Enter!Position /\ p.id = task[k].id /\ p.book = twin /\ p.auto = task[k].auto /\ p.slot = now
  BY <1>1, <1>5, <1>6, <1>7 DEF Enter!Opened, Enter!Position, Enter!Books, Enter!CounterBooks, Timely, DeskInv, DeskTypes, TaskShape
<1>9. /\ task' = [task EXCEPT ![k] = w] /\ positions' = Enter!With(p) /\ rows' = Enter!SaveOf(positions', p.id, p.book)
      /\ UNCHANGED <<now, seen, signals>>
  BY <1>2, <1>4, <1>6, <1>8 DEF Enter!OpensTwin
<1>10. Timely(k, w)'
  <2>1. Timely(k, w)
    BY <1>1, <1>3, <1>7 DEF Timely
  <2>. QED  BY <1>9, <2>1, StaysTimely
<1>11. \A f \in Entered : f.id = p.id => f.book # p.book
  BY <1>1, <1>5, <1>8 DEF DeskInv, NotYet
<1>12. task[k].at \in Past /\ w.at \notin Past /\ p.book = Enter!MirrorOf(p.id.book) /\ p.id \in DOMAIN signals'
  BY <1>1, <1>3, <1>4, <1>7, <1>8, <1>9 DEF Past
<1>13. OpensFor(k, w, p)
  BY <1>8, <1>9, <1>10, <1>11, <1>12 DEF OpensFor
<1>. QED  BY <1>1, <1>3, <1>8, <1>13, OpensKeeps

LEMMA StandsAsideKeeps ==
  ASSUME DeskInv, NEW k \in DOMAIN task, Enter!StandsAside(k)
  PROVE  DeskInv'
<1>1. k \in Bars \union Operators /\ task[k].at = "mirror" /\ task[k].id \in DOMAIN signals
  BY DEF DeskInv, DeskTypes, Claims, Enter!StandsAside
<1>. QED  BY <1>1, AfterEntry, Zenon DEF Enter!StandsAside

LEMMA RoutedKeeps ==
  ASSUME DeskInv, NEW bar \in Bars, Enter!StaysInTrend(bar) \/ Enter!FadesWithoutPlan(bar) \/ Enter!Fades(bar)
  PROVE  DeskInv'
<1>1. bar \in Bars \union Operators /\ task[bar].at = "route" /\ task[bar] \in TaskShape
  BY Zenon DEF DeskInv, DeskTypes, Enter!StaysInTrend, Enter!FadesWithoutPlan, Enter!Fades
<1>2. UNCHANGED <<now, seen, positions, rows>> /\ DOMAIN signals \subseteq DOMAIN signals'
  BY RecordedGrows, Zenon DEF Enter!StaysInTrend, Enter!FadesWithoutPlan, Enter!Fades
<1>3. CASE task' = [task EXCEPT ![bar] = Enter!Idle]
  <2>1. PICK w : w = Enter!Idle
    OBVIOUS
  <2>2. w \in TaskShape /\ w.at = "idle"
    BY <2>1 DEF Enter!Idle, TaskShape
  <2>3. Timely(bar, w)'
    BY <2>2 DEF Timely
  <2>. QED  BY <1>1, <1>2, <1>3, <2>1, <2>2, <2>3, StepsBack, Zenon DEF Past
<1>4. CASE task' = [task EXCEPT ![bar] = Enter!Enter(Enter!FadeOf(bar), TRUE)]
  <2>1. PICK w : w = Enter!Enter(Enter!FadeOf(bar), TRUE)
    BY Zenon
  <2>2. Enter!FadeOf(bar) \in Enter!Ids
    BY DEF Enter!FadeOf, Enter!IdOf, Enter!Ids, Enter!Books, Enter!CounterBooks
  <2>3. w \in TaskShape /\ w.at = "select" /\ w.auto /\ w.id = Enter!FadeOf(bar)
    BY <2>1, <2>2 DEF Enter!Enter, TaskShape
  <2>4. task[bar].auto /\ task[bar].id = Enter!Parent(bar) /\ task[bar].id \in DOMAIN signals
    BY <1>1 DEF DeskInv, OnTime, Timely
  <2>5. now = bar + 1
    <3>1. PICK b \in Bars : now = b + 1 /\ (task[bar].id = Enter!Parent(b) \/ task[bar].id = Enter!FadeOf(b))
      BY <1>1, <2>4 DEF DeskInv, OnTime, Timely
    <3>2. b = bar
      BY <2>4, <3>1 DEF Enter!Parent, Enter!FadeOf, Enter!IdOf
    <3>. QED  BY <3>1, <3>2
  <2>6. Timely(bar, w)
    BY <2>2, <2>3, <2>4, <2>5 DEF Timely
  <2>7. Timely(bar, w)'
    BY <1>2, <2>6, StaysTimely
  <2>. QED  BY <1>1, <1>2, <1>4, <2>1, <2>3, <2>7, StepsBack, Zenon DEF Past
<1>. QED  BY <1>3, <1>4, Zenon DEF Enter!StaysInTrend, Enter!FadesWithoutPlan, Enter!Fades

LEMMA TakesKeeps ==
  ASSUME DeskInv, NEW k \in Operators, NEW book \in Enter!Books, NEW bar \in Bars, Enter!Takes(k, book, bar)
  PROVE  DeskInv'
<1>1. PICK w : w = Enter!Enter(Enter!IdOf(book, bar), FALSE)
  BY Zenon
<1>2. Enter!IdOf(book, bar) \in Enter!Ids
  BY DEF Enter!IdOf, Enter!Ids
<1>3. w \in TaskShape /\ w.at = "select" /\ ~w.auto /\ w.id \in Enter!Ids
  BY <1>1, <1>2 DEF Enter!Enter, TaskShape
<1>4. Timely(k, w)'
  BY <1>3 DEF Timely
<1>5. task' = [task EXCEPT ![k] = w] /\ UNCHANGED <<now, seen, positions, signals, rows>>
  BY <1>1 DEF Enter!Takes
<1>. QED  BY <1>3, <1>4, <1>5, StepsBack, Zenon DEF Past

\* A position that is closed is the same entry.
Shut(g, f, i) == g = [f EXCEPT ![i].open = FALSE]

SameMarks(g, f, D) ==
    DOMAIN g = D /\ g \in [D -> Enter!Position] /\ \A j \in D : Mark(j, g[j]) = Mark(j, f[j])

LEMMA ClosedIsTheSame ==
  ASSUME NEW D, NEW f \in [D -> Enter!Position], NEW i \in D, NEW g, Shut(g, f, i)
  PROVE  SameMarks(g, f, D)
<1>. DEFINE p == f[i]
            q == [p EXCEPT !.open = FALSE]
<1>1. p \in Enter!Position
  OBVIOUS
<1>2. q \in Enter!Position /\ q.id = p.id /\ q.book = p.book /\ q.slot = p.slot /\ q.auto = p.auto
  BY <1>1 DEF Enter!Position
<1>3. g = [f EXCEPT ![i] = q]
  BY DEF Shut
<1>. HIDE DEF q
<1>4. DOMAIN g = D /\ \A j \in D : g[j] = IF j = i THEN q ELSE f[j]
  BY <1>3
<1>5. g \in [D -> Enter!Position]
  BY <1>2, <1>3
<1>. QED  BY <1>2, <1>4, <1>5 DEF Mark, SameMarks

LEMMA LeavesKeeps ==
  ASSUME DeskInv, NEW i \in DOMAIN positions, Enter!Leaves(i), UNCHANGED <<now, task, seen, signals>>
  PROVE  DeskInv'
<1>1. /\ Shut(positions', positions, i)
      /\ IF i \in DOMAIN rows THEN Shut(rows', rows, i) ELSE rows' = rows
  BY DEF Enter!Leaves, Shut
<1>2. SameMarks(positions', positions, DOMAIN positions)
  <2>1. positions \in [DOMAIN positions -> Enter!Position]
    BY DEF DeskInv, DeskTypes
  <2>. QED  BY <1>1, <2>1, ClosedIsTheSame
<1>3. SameMarks(rows', rows, DOMAIN rows)
  <2>1. rows \in [DOMAIN rows -> Enter!Position]
    BY DEF DeskInv, DeskTypes
  <2>2. CASE i \in DOMAIN rows
    BY <1>1, <2>1, <2>2, ClosedIsTheSame
  <2>3. CASE i \notin DOMAIN rows
    BY <1>1, <2>1, <2>3 DEF SameMarks
  <2>. QED  BY <2>2, <2>3
<1>4. Entered' = Entered
  BY <1>2, <1>3 DEF Entered, SameMarks
<1>5. DeskTypes'
  BY <1>2, <1>3 DEF DeskInv, DeskTypes, SameMarks
<1>6. OnTime' /\ Claims'
  BY DEF DeskInv, OnTime, Timely, Claims
<1>7. NotYet' /\ Once'
  BY <1>4 DEF DeskInv, NotYet, Once
<1>8. OfABar'
  BY <1>4, StaysOfABar DEF DeskInv
<1>. QED  BY <1>5, <1>6, <1>7, <1>8 DEF DeskInv

\* What a start seeds the check with covers every entry of the ledger, and nobody is on the way.
LEMMA BootsKeeps ==
  ASSUME DeskInv, Enter!Boots
  PROVE  DeskInv'
<1>1. /\ task' = [k \in DOMAIN task |-> Enter!Idle] /\ seen' = seen \intersect DOMAIN signals
      /\ positions' = [i \in {j \in DOMAIN rows : rows[j].open} |-> rows[i]] /\ UNCHANGED <<now, signals, rows>>
  BY DEF Enter!Boots
<1>2. task' \in [Bars \union Operators -> TaskShape] /\ \A k \in Bars \union Operators : task'[k].at = "idle"
  BY <1>1 DEF DeskInv, DeskTypes, TaskShape, Enter!Idle
<1>3. Entered' \subseteq Entered
  BY <1>1 DEF Entered
<1>4. DeskTypes'
  BY <1>1, <1>2 DEF DeskInv, DeskTypes
<1>5. OnTime' /\ Claims' /\ NotYet'
  BY <1>2 DEF OnTime, Timely, Claims, NotYet, Past
<1>6. Once'
  BY <1>1, <1>3 DEF DeskInv, Once
<1>7. OfABar'
  BY <1>1, <1>3, StaysOfABar DEF DeskInv
<1>. QED  BY <1>4, <1>5, <1>6, <1>7 DEF DeskInv

LEMMA PassesKeeps ==
  ASSUME DeskInv, Enter!Passes
  PROVE  DeskInv'
<1>1. /\ \A k \in Bars \union Operators : task[k] = Enter!Idle
      /\ now' = now + 1 /\ UNCHANGED <<seen, positions, signals, rows>>
      /\ \/ task' = task
         \/ now \in Bars /\ task' = [task EXCEPT ![now] = Enter!Enter(Enter!Parent(now), TRUE)]
  BY Zenon DEF Enter!Passes, DeskInv, DeskTypes
<1>2. PICK w : w = Enter!Enter(Enter!Parent(now), TRUE)
  BY Zenon
<1>3. now \in Bars => w \in TaskShape /\ w.at = "select" /\ w.auto /\ w.id = Enter!Parent(now) /\ w.id \in Enter!Ids
  BY <1>2 DEF Enter!Enter, Enter!Parent, Enter!IdOf, Enter!Ids, Enter!Books, TaskShape
<1>4. /\ task' \in [Bars \union Operators -> TaskShape]
      /\ \A k \in Bars \union Operators : task'[k].at = "idle" \/ (k = now /\ now \in Bars /\ task'[k] = w)
  <2>1. task \in [Bars \union Operators -> TaskShape] /\ \A k \in Bars \union Operators : task[k].at = "idle"
    BY <1>1 DEF DeskInv, DeskTypes, Enter!Idle
  <2>2. CASE task' = task
    BY <2>1, <2>2
  <2>3. CASE now \in Bars /\ task' = [task EXCEPT ![now] = w]
    BY <1>3, <2>1, <2>3
  <2>. QED  BY <1>1, <1>2, <2>2, <2>3, Zenon
<1>5. Entered' = Entered
  BY <1>1 DEF Entered
<1>6. DeskTypes'
  BY <1>1, <1>4 DEF DeskInv, DeskTypes
<1>7. OnTime'
  <2>1. SUFFICES ASSUME NEW k \in Bars \union Operators, k = now, now \in Bars, task'[k] = w
                 PROVE  Timely(k, task[k])'
    BY <1>4 DEF OnTime, Timely
  <2>2. now' = now + 1 /\ Enter!Parent(now) = Enter!Parent(k)'
    BY <1>1, <2>1 DEF Enter!Parent, Enter!IdOf
  <2>3. w.id = Enter!Parent(k)'
    BY <1>3, <2>1, <2>2
  <2>. QED  BY <1>3, <2>1, <2>2, <2>3 DEF Timely, Enter!Parent, Enter!IdOf
<1>8. Claims' /\ NotYet'
  BY <1>3, <1>4 DEF Claims, NotYet, Past
<1>9. Once'
  BY <1>1, <1>5 DEF DeskInv, Once
<1>10. OfABar'
  BY <1>1, <1>5, StaysOfABar DEF DeskInv
<1>. QED  BY <1>6, <1>7, <1>8, <1>9, <1>10 DEF DeskInv

LEMMA DeskInvInit == Enter!Init => DeskInv
<1>1. SUFFICES ASSUME Enter!Init PROVE DeskInv
  OBVIOUS
<1>2. DOMAIN positions = {} /\ DOMAIN rows = {} /\ Entered = {}
  BY <1>1 DEF Enter!Init, Entered
<1>3. task \in [Bars \union Operators -> TaskShape] /\ \A k \in Bars \union Operators : task[k].at = "idle"
  BY <1>1 DEF Enter!Init, Enter!Idle, TaskShape
<1>4. positions = [i \in {} |-> i] /\ rows = [i \in {} |-> i]
  BY <1>1, <1>2 DEF Enter!Init
<1>5. DeskTypes
  <2>1. positions \in [DOMAIN positions -> Enter!Position] /\ rows \in [DOMAIN rows -> Enter!Position]
    BY <1>2, <1>4
  <2>2. now \in Nat /\ \E n \in Nat : DOMAIN positions \union DOMAIN rows \subseteq 1..n
    BY <1>1, <1>2 DEF Enter!Init
  <2>. QED  BY <1>3, <2>1, <2>2 DEF DeskTypes
<1>. QED  BY <1>2, <1>3, <1>5 DEF DeskInv, OnTime, Timely, Claims, NotYet, Once, OfABar, Past

LEMMA DeskInvNext == DeskInv /\ [Enter!Next]_(Enter!vars) => DeskInv'
<1>1. SUFFICES ASSUME DeskInv, [Enter!Next]_(Enter!vars)
               PROVE  DeskInv'
  OBVIOUS
<1>2. ASSUME NEW bar \in Bars, Enter!StaysInTrend(bar) \/ Enter!FadesWithoutPlan(bar) \/ Enter!Fades(bar)
      PROVE  DeskInv'
  BY <1>1, <1>2, RoutedKeeps
<1>3. ASSUME NEW k \in DOMAIN task, Enter!Enters(k)
      PROVE  DeskInv'
  BY <1>1, <1>3, DeclinedKeeps, SubmitsKeeps, FilledKeeps, SavesKeeps, OpensTwinKeeps, StandsAsideKeeps DEF Enter!Enters
<1>4. ASSUME NEW book \in Enter!Books, NEW bar \in Bars, Enter!Skips(book, bar)
      PROVE  DeskInv'
  <2>1. PICK i : i = CHOOSE m \in Enter!HeldOn(book, bar) : \A j \in Enter!HeldOn(book, bar) : m <= j
    OBVIOUS
  <2>2. Enter!HeldOn(book, bar) \subseteq DOMAIN positions /\ Enter!HeldOn(book, bar) # {}
    BY <1>4 DEF Enter!HeldOn, Enter!Skips
  <2>3. \A j \in Enter!HeldOn(book, bar) : j \in Nat
    BY <1>1, <2>2, NumberIsNew DEF DeskInv
  <2>4. \E m \in Enter!HeldOn(book, bar) : \A j \in Enter!HeldOn(book, bar) : m <= j
    BY <2>2, <2>3, SmallestMember
  <2>5. i \in DOMAIN positions
    BY <2>1, <2>2, <2>4
  <2>. QED  BY <1>1, <1>4, <2>1, <2>5, LeavesKeeps DEF Enter!Skips
<1>5. ASSUME NEW book \in Enter!Books, NEW bar \in Bars, NEW k \in Operators, Enter!Takes(k, book, bar)
      PROVE  DeskInv'
  BY <1>1, <1>5, TakesKeeps
<1>6. ASSUME NEW i \in DOMAIN positions, Enter!Exits(i)
      PROVE  DeskInv'
  BY <1>1, <1>6, LeavesKeeps DEF Enter!Exits
<1>7. ASSUME UNCHANGED Enter!vars
      PROVE  DeskInv'
  <2>1. UNCHANGED <<now, task, seen, positions, signals, rows>>
    BY <1>7 DEF Enter!vars
  <2>2. Entered' = Entered
    BY <2>1 DEF Entered
  <2>3. DeskTypes'
    BY <1>1, <2>1 DEF DeskInv, DeskTypes
  <2>4. OnTime'
    BY <1>1, <2>1, Zenon DEF DeskInv, OnTime, Timely, Enter!Parent, Enter!FadeOf, Enter!IdOf
  <2>5. Claims'
    BY <1>1, <2>1 DEF DeskInv, Claims
  <2>6. NotYet' /\ Once'
    BY <1>1, <2>1, <2>2 DEF DeskInv, NotYet, Once
  <2>7. OfABar'
    BY <1>1, <2>1, <2>2, StaysOfABar DEF DeskInv
  <2>. QED  BY <2>3, <2>4, <2>5, <2>6, <2>7 DEF DeskInv
<1>. QED
  BY <1>1, <1>2, <1>3, <1>4, <1>5, <1>6, <1>7, PassesKeeps, BootsKeeps DEF Enter!Next

-----------------------------------------------------------------------------

\* A book enters a signal once, for any bars, requests of the operator and starts of the engine
\* (LiveGateway.submit, Engine._open_rt_twin, Engine.operator_take).
THEOREM OneEntryPerSignalHolds == Enter!Spec => []OneEntryPerSignal
<1>1. DeskInv => OneEntryPerSignal
  <2>1. SUFFICES ASSUME DeskInv, NEW i \in DOMAIN rows, NEW j \in DOMAIN rows,
                        rows[i].id = rows[j].id, rows[i].book = rows[j].book
                 PROVE  i = j
    BY DEF OneEntryPerSignal, Enter!OneEntryPerSignal
  <2>2. Mark(i, rows[i]) \in Entered /\ Mark(j, rows[j]) \in Entered
    BY DEF Entered
  <2>. QED  BY <2>1, <2>2 DEF DeskInv, Once, Mark
<1>. QED  BY <1>1, DeskInvInit, DeskInvNext, PTL DEF Enter!Spec

\* What the engine entered is on its card and in the day book (Engine.book_cards, assemble).
THEOREM EntriesAreShownHolds == Enter!Spec => []EntriesAreShown
<1>1. DeskInv => EntriesAreShown
  <2>1. SUFFICES ASSUME DeskInv, NEW i \in DOMAIN rows, rows[i].auto
                 PROVE  /\ Enter!Parent(rows[i].id.bar) \in DOMAIN signals
                        /\ Enter!Card(rows[i].book, rows[i].id.bar) \in {"OPEN", "TRADED"}
                        /\ Enter!Listed(rows[i], rows[i].id.bar)
    BY DEF EntriesAreShown, Enter!EntriesAreShown
  <2>2. Mark(i, rows[i]) \in Entered
    BY DEF Entered
  <2>3. PICK bar \in Bars :
          /\ rows[i].slot = bar + 1 /\ Enter!Parent(bar) \in DOMAIN signals
          /\ \/ rows[i].id = Enter!Parent(bar) /\ rows[i].book \notin Enter!CounterBooks
             \/ rows[i].id = Enter!FadeOf(bar) /\ rows[i].book \in Enter!CounterBooks
    BY <2>1, <2>2 DEF DeskInv, OfABar, Mark
  <2>4. rows[i].id.bar = bar /\ bar \in Int
    BY <2>3, BarsAreNumbers DEF Enter!Parent, Enter!FadeOf, Enter!IdOf
  <2>5. rows[i].id \in DOMAIN signals
    BY <2>1, <2>2 DEF DeskInv, Once, Mark
  <2>6. Enter!EntrySignal(rows[i].book, bar) = rows[i].id
    BY <2>3, <2>5 DEF Enter!EntrySignal
  <2>7. Enter!RowOf(rows[i].book, bar) = rows[i]
    <3> DEFINE found == {j \in DOMAIN rows : rows[j].book = rows[i].book /\ rows[j].id = Enter!EntrySignal(rows[i].book, bar)}
    <3>1. ASSUME NEW j \in found PROVE j = i
      <4>1. Mark(j, rows[j]) \in Entered
        BY DEF Entered
      <4>. QED  BY <2>1, <2>2, <2>6, <3>1, <4>1 DEF DeskInv, Once, Mark
    <3>2. found = {i}
      BY <2>6, <3>1
    <3>3. i \in Int
      BY <2>1, NumberIsNew DEF DeskInv
    <3>4. (CHOOSE j \in found : \A l \in found : l <= j) = i
      BY <3>2, <3>3
    <3>. QED  BY <3>2, <3>4, Zenon DEF Enter!RowOf
  <2>8. rows[i] # None
    BY <2>1, DeskAssumption DEF DeskInv, DeskTypes, Enter!TriggerAssumption
  <2>9. Enter!Card(rows[i].book, bar) \in {"OPEN", "TRADED"}
    BY <2>7, <2>8 DEF Enter!Card
  <2>10. Enter!Listed(rows[i], bar)
    BY <2>3, <2>4 DEF Enter!Listed
  <2>. QED  BY <2>3, <2>4, <2>9, <2>10
<1>. QED  BY <1>1, DeskInvInit, DeskInvNext, PTL DEF Enter!Spec

-----------------------------------------------------------------------------
(* The contract that is bought.  The walk of the chain has a first tradeable      *)
(* strike because what the strikes sort by is a tuple of numbers, of which no two *)
(* strikes have the same; then the age of its quote is what it was by the clock   *)
(* that judged it, and the time the two waits can have taken.                     *)

LEMMA StrikesFacts ==
  /\ Spot \in Nat /\ Chain \subseteq Nat /\ IsFiniteSet(Chain)
  /\ Atrs \subseteq Nat /\ Targets \subseteq Nat \union {None} /\ OldQuotes \subseteq Int
  BY DeskAssumption DEF Pick!StrikesAssumption, IsFiniteSet, Pick!IsFiniteSet

LEMMA SameCount == \A S : Pick!Cardinality(S) = Cardinality(S)
  BY DEF Cardinality, Pick!Cardinality

\* A set that is counted by numbers has a least member.
LEMMA LeastByCount ==
  ASSUME NEW S, S # {}, NEW f \in [S -> Nat]
  PROVE  \E k \in S : \A j \in S : f[k] <= f[j]
<1>. DEFINE T == {f[k] : k \in S}
<1>1. T \subseteq Nat /\ T # {}
  OBVIOUS
<1>2. PICK m \in T : \A n \in T : m <= n
  BY <1>1, SmallestMember, Zenon
<1>3. PICK k \in S : f[k] = m
  OBVIOUS
<1>. QED  BY <1>2, <1>3

\* Of two tuples the one before the other, by the first place in which they differ.
LEMMA FirstDifference ==
  ASSUME NEW p, NEW q, p \in [1..4 -> Nat], q \in [1..4 -> Nat],
         \/ p[1] < q[1]
         \/ p[1] = q[1] /\ p[2] < q[2]
         \/ p[1] = q[1] /\ p[2] = q[2] /\ p[3] < q[3]
         \/ p[1] = q[1] /\ p[2] = q[2] /\ p[3] = q[3] /\ p[4] < q[4]
  PROVE  Pick!Before(p, q)
<1>1. CASE p[1] < q[1]
  <2>1. \A j \in 1..(1 - 1) : p[j] = q[j]
    OBVIOUS
  <2>. QED  BY <1>1, <2>1 DEF Pick!Before
<1>2. CASE p[1] = q[1] /\ p[2] < q[2]
  <2>1. \A j \in 1..(2 - 1) : j = 1
    OBVIOUS
  <2>. QED  BY <1>2, <2>1 DEF Pick!Before
<1>3. CASE p[1] = q[1] /\ p[2] = q[2] /\ p[3] < q[3]
  <2>1. \A j \in 1..(3 - 1) : j \in {1, 2}
    OBVIOUS
  <2>. QED  BY <1>3, <2>1 DEF Pick!Before
<1>4. CASE p[1] = q[1] /\ p[2] = q[2] /\ p[3] = q[3] /\ p[4] < q[4]
  <2>1. \A j \in 1..(4 - 1) : j \in {1, 2, 3}
    OBVIOUS
  <2>. QED  BY <1>4, <2>1 DEF Pick!Before
<1>. QED  BY <1>1, <1>2, <1>3, <1>4

\* When no two of a set have the same tuple, one of them is before all the others: the least
\* by the first number, of those the least by the second, and so on.
LEMMA WalkBegins ==
  ASSUME NEW S, S # {}, NEW f \in [S -> [1..4 -> Nat]], \A j, k \in S : f[j] = f[k] => j = k
  PROVE  \E k \in S : \A j \in S \ {k} : Pick!Before(f[k], f[j])
<1>. DEFINE Least(T, i) == {k \in T : \A j \in T : f[k][i] <= f[j][i]}
<1>1. ASSUME NEW T, T \subseteq S, T # {}, NEW i \in 1..4
      PROVE  Least(T, i) \subseteq T /\ Least(T, i) # {}
  <2>. DEFINE g == [k \in T |-> f[k][i]]
  <2>1. g \in [T -> Nat]
    BY <1>1
  <2>2. PICK k \in T : \A j \in T : g[k] <= g[j]
    BY <1>1, <2>1, LeastByCount, Zenon
  <2>. QED  BY <2>2
<1>2. ASSUME NEW T, T \subseteq S, NEW i \in 1..4, NEW k \in Least(T, i), NEW j \in T
      PROVE  /\ f[k][i] <= f[j][i]
             /\ f[k][i] = f[j][i] => j \in Least(T, i)
  BY <1>2
<1>. DEFINE S1 == Least(S, 1)
            S2 == Least(S1, 2)
            S3 == Least(S2, 3)
            S4 == Least(S3, 4)
<1>3. S1 \subseteq S /\ S1 # {}
  <2>. HIDE DEF Least
  <2>. QED  BY <1>1
<1>4. S2 \subseteq S1 /\ S2 # {}
  <2>. HIDE DEF S1, Least
  <2>. QED  BY <1>1, <1>3
<1>5. S3 \subseteq S2 /\ S3 # {}
  <2>. HIDE DEF S1, S2, Least
  <2>. QED  BY <1>1, <1>3, <1>4
<1>6. S4 \subseteq S3 /\ S4 # {}
  <2>. HIDE DEF S1, S2, S3, Least
  <2>. QED  BY <1>1, <1>3, <1>4, <1>5
<1>7. PICK k \in S : k \in S4
  BY <1>3, <1>4, <1>5, <1>6, Zenon
<1>8. ASSUME NEW j \in S, j # k
      PROVE  Pick!Before(f[k], f[j])
  <2>1. f[k] \in [1..4 -> Nat] /\ f[j] \in [1..4 -> Nat] /\ f[j] # f[k]
    BY <1>8
  <2>2. f[j][1] # f[k][1] \/ f[j][2] # f[k][2] \/ f[j][3] # f[k][3] \/ f[j][4] # f[k][4]
    <3>1. \E i \in 1..4 : f[j][i] # f[k][i]
      BY <2>1
    <3>. QED  BY <3>1
  <2>3. f[k][1] <= f[j][1] /\ (f[k][1] = f[j][1] => j \in S1)
    BY <1>2, <1>4, <1>5, <1>6, <1>7, Zenon
  <2>4. j \in S1 => f[k][2] <= f[j][2] /\ (f[k][2] = f[j][2] => j \in S2)
    <3>. HIDE DEF S1, Least
    <3>. QED  BY <1>2, <1>3, <1>5, <1>6, <1>7
  <2>5. j \in S2 => f[k][3] <= f[j][3] /\ (f[k][3] = f[j][3] => j \in S3)
    <3>. HIDE DEF S1, S2, Least
    <3>. QED  BY <1>2, <1>3, <1>4, <1>6, <1>7
  <2>6. j \in S3 => f[k][4] <= f[j][4]
    <3>. HIDE DEF S1, S2, S3, Least
    <3>. QED  BY <1>2, <1>3, <1>4, <1>5, <1>7
  <2>. HIDE DEF S1, S2, S3, S4, Least
  <2>7. f[k][1] \in Nat /\ f[k][2] \in Nat /\ f[k][3] \in Nat /\ f[k][4] \in Nat
        /\ f[j][1] \in Nat /\ f[j][2] \in Nat /\ f[j][3] \in Nat /\ f[j][4] \in Nat
    BY <2>1
  <2>8. \/ f[k][1] < f[j][1]
        \/ f[k][1] = f[j][1] /\ f[k][2] < f[j][2]
        \/ f[k][1] = f[j][1] /\ f[k][2] = f[j][2] /\ f[k][3] < f[j][3]
        \/ f[k][1] = f[j][1] /\ f[k][2] = f[j][2] /\ f[k][3] = f[j][3] /\ f[k][4] < f[j][4]
    BY <2>2, <2>3, <2>4, <2>5, <2>6, <2>7
  <2>. QED  BY <2>1, <2>8, FirstDifference
<1>. QED  BY <1>7, <1>8

\* The nearest of some strikes is one of them.
LEMMA NearestIsOne ==
  ASSUME NEW S, S \subseteq Nat, S # {}, NEW level \in Int
  PROVE  Pick!Nearest(S, level) \in S
<1>. DEFINE f == [k \in S |-> Pick!Dist(k, level)]
            near == {k \in S : \A j \in S : f[k] <= f[j]}
<1>1. f \in [S -> Nat]
  BY DEF Pick!Dist
<1>2. near \subseteq Nat /\ near # {}
  BY <1>1, LeastByCount, Zenon
<1>3. PICK m \in near : \A n \in near : m <= n
  BY <1>2, SmallestMember, Zenon
<1>4. ASSUME NEW j \in S
      PROVE  Pick!Dist(m, level) < Pick!Dist(j, level) \/ (Pick!Dist(m, level) = Pick!Dist(j, level) /\ m <= j)
  <2>1. f[m] <= f[j] /\ f[m] \in Nat /\ f[j] \in Nat
    BY <1>1
  <2>2. f[m] = f[j] => j \in near
    OBVIOUS
  <2>. QED  BY <1>3, <2>1, <2>2
<1>. QED  BY <1>4, Zenon DEF Pick!Nearest

SignalOK == sig \in Pick!Signals

LEMMA PoolIsNumbers == Pick!Pool \subseteq Nat /\ Pick!Pool \subseteq Chain
  BY StrikesFacts, Zenon DEF Pick!Pool, Pick!OutOfTheMoney

\* The two candidates are strikes of the pool, and so are the picks, of which there are two
\* at the most.
LEMMA CandidatesInPool ==
  ASSUME SignalOK, Pick!Pool # {}
  PROVE  Pick!A \in Pick!Pool /\ Pick!B \in Pick!Pool
<1>1. sig.atr \in Nat /\ sig.target \in Nat \union {None}
  BY StrikesFacts, Zenon DEF SignalOK, Pick!Signals
<1>2. Pick!OneAtrOut \in Int
  BY <1>1, StrikesFacts DEF Pick!OneAtrOut
<1>3. Pick!A \in Pick!Pool
  BY <1>2, PoolIsNumbers, NearestIsOne, Zenon DEF Pick!A
<1>4. Pick!B \in Pick!Pool
  <2>1. CASE sig.target = None
    BY <1>3, <2>1 DEF Pick!B
  <2>2. CASE sig.target # None
    <3>1. Pick!Nearest(Pick!Pool, sig.target) \in Pick!Pool
      <4>1. sig.target \in Int
        BY <1>1, <2>2
      <4>. QED  BY <4>1, PoolIsNumbers, NearestIsOne, Zenon
    <3>. QED  BY <2>2, <3>1 DEF Pick!B
  <2>. QED  BY <2>1, <2>2
<1>. QED  BY <1>3, <1>4

LEMMA PicksInPool ==
  ASSUME SignalOK, Pick!Pool # {}
  PROVE  /\ DOMAIN Pick!Picks \subseteq Nat
         /\ \A i \in DOMAIN Pick!Picks : Pick!Picks[i] \in Pick!Pool
         /\ Pick!Picks # <<>> => Pick!Picks[1] \in Pick!Pool
<1>. DEFINE live == {k \in {Pick!A, Pick!B} : Pick!Delta(k) >= Pick!MinDelta}
            P == Pick!Pool
            a == Pick!A
            b == Pick!B
            one == CHOOSE k \in live : TRUE
<1>1. a \in P /\ b \in P
  BY CandidatesInPool
<1>2. live # {} => one \in P
  <2>1. live \subseteq P
    BY <1>1
  <2>. HIDE DEF live
  <2>. QED  BY <2>1
<1>3. Pick!Picks \in {<<a>>, <<>>, <<b, a>>, <<a, b>>} \/ (live # {} /\ Pick!Picks = <<one>>)
  BY Zenon DEF Pick!Picks
<1>. HIDE DEF live, P, a, b, one
<1>4. CASE Pick!Picks = <<>>
  BY <1>4
<1>5. ASSUME NEW x \in P, Pick!Picks = <<x>>
      PROVE  /\ DOMAIN Pick!Picks \subseteq Nat
             /\ \A i \in DOMAIN Pick!Picks : Pick!Picks[i] \in P
             /\ Pick!Picks[1] \in P
  BY <1>5
<1>6. ASSUME NEW x \in P, NEW y \in P, Pick!Picks = <<x, y>>
      PROVE  /\ DOMAIN Pick!Picks \subseteq Nat
             /\ \A i \in DOMAIN Pick!Picks : Pick!Picks[i] \in P
             /\ Pick!Picks[1] \in P
  BY <1>6
<1>. QED  BY <1>1, <1>2, <1>3, <1>4, <1>5, <1>6 DEF P

\* Ranks are counts.
LEMMA RankIsNumber ==
  ASSUME NEW S, IsFiniteSet(S), NEW k
  PROVE  Pick!RankAmong(S, k) \in Nat
<1>1. ASSUME NEW i
      PROVE  Cardinality({Pick!Liquidity(j)[i] : j \in {x \in S : Pick!Liquidity(x)[i] > Pick!Liquidity(k)[i]}}) \in Nat
  <2>. DEFINE more == {x \in S : Pick!Liquidity(x)[i] > Pick!Liquidity(k)[i]}
  <2>1. IsFiniteSet(more)
    <3>1. more \subseteq S
      OBVIOUS
    <3>. HIDE DEF more
    <3>. QED  BY <3>1, FS_Subset
  <2>. HIDE DEF more
  <2>2. IsFiniteSet({Pick!Liquidity(j)[i] : j \in more})
    <3>. DEFINE h(j) == Pick!Liquidity(j)[i]
                hs == [j \in more |-> h(j)]
    <3>. HIDE DEF h
    <3>1. hs \in Surjection(more, {h(j) : j \in more})
      BY DEF Surjection
    <3>2. IsFiniteSet({h(j) : j \in more})
      BY <2>1, <3>1, FS_Surjection
    <3>. QED  BY <3>2 DEF h
  <2>3. Cardinality({Pick!Liquidity(j)[i] : j \in more}) \in Nat
    BY <2>2, FS_CardinalityType
  <2>. QED  BY <2>3 DEF more
<1>. QED  BY <1>1, SameCount DEF Pick!RankAmong

\* What the walk sorts the strikes by: numbers, and of no two strikes the same.
LEMMA WalkIsOrdered ==
  ASSUME SignalOK
  PROVE  /\ Pick!Order \in [Pick!Pool -> [1..4 -> Nat]]
         /\ \A j, k \in Pick!Pool : Pick!Order[j] = Pick!Order[k] => j = k
<1>1. CASE Pick!Pool = {}
  BY <1>1 DEF Pick!Order
<1>2. CASE Pick!Pool # {}
  <2>. DEFINE picks == IF Pick!TwoCandidates THEN Pick!Picks ELSE <<>>
              rest == Pick!Pool \ {picks[i] : i \in DOMAIN picks}
              anchor == IF picks = <<>> THEN Pick!Anchor ELSE picks[1]
              rank(k) == IF Pick!TwoCandidates THEN Pick!RankAmong(rest, k) ELSE 0
              place(k) == CHOOSE i \in DOMAIN picks : picks[i] = k
  <2>1. DOMAIN picks \subseteq Nat /\ (picks # <<>> => picks[1] \in Nat)
    <3>1. CASE Pick!TwoCandidates
      <4>1. picks = Pick!Picks
        BY <3>1
      <4>. QED  BY <1>2, <4>1, PicksInPool, PoolIsNumbers, Zenon
    <3>2. CASE ~Pick!TwoCandidates
      BY <3>2
    <3>. QED  BY <3>1, <3>2
  <2>2. anchor \in Int
    <3>1. Pick!Anchor \in Int
      <4>1. sig.target \in Nat \union {None}
        BY StrikesFacts, Zenon DEF SignalOK, Pick!Signals
      <4>. QED  BY <4>1, StrikesFacts DEF Pick!Anchor
    <3>. QED  BY <2>1, <3>1
  <2>3. \A k : rank(k) \in Nat
    <3>1. IsFiniteSet(rest)
      <4>1. rest \subseteq Chain
        BY PoolIsNumbers, Zenon
      <4>. HIDE DEF rest
      <4>. QED  BY <4>1, StrikesFacts, FS_Subset, Zenon
    <3>. HIDE DEF rest
    <3>. QED  BY <3>1, RankIsNumber
  <2>4. \A k \in Pick!Pool \ rest : place(k) \in DOMAIN picks /\ picks[place(k)] = k
    <3>. HIDE DEF picks
    <3>. QED  OBVIOUS
  <2>5. \A k \in Pick!Pool : k \in Nat /\ Pick!Dist(k, anchor) \in Nat
    BY <2>2, PoolIsNumbers DEF Pick!Dist
  <2>6. Pick!Order = [k \in Pick!Pool |-> IF k \in rest THEN <<1, rank(k), Pick!Dist(k, anchor), k>>
                                                          ELSE <<0, place(k), 0, 0>>]
    BY DEF Pick!Order
  <2>. HIDE DEF picks, rest, anchor, rank, place
  <2>7. ASSUME NEW k \in Pick!Pool
        PROVE  Pick!Order[k] \in [1..4 -> Nat]
    <3>1. CASE k \in rest
      BY <2>3, <2>5, <2>6, <3>1
    <3>2. CASE k \notin rest
      BY <2>1, <2>4, <2>6, <3>2
    <3>. QED  BY <3>1, <3>2
  <2>8. ASSUME NEW j \in Pick!Pool, NEW k \in Pick!Pool, Pick!Order[j] = Pick!Order[k]
        PROVE  j = k
    <3>1. CASE j \in rest /\ k \in rest
      BY <2>6, <2>8, <3>1
    <3>2. CASE j \in rest <=> k \notin rest
      <4>1. Pick!Order[j][1] # Pick!Order[k][1]
        BY <2>6, <3>2
      <4>. QED  BY <2>8, <4>1
    <3>3. CASE j \notin rest /\ k \notin rest
      <4>1. place(j) = place(k)
        <5>1. Pick!Order[j][2] = place(j) /\ Pick!Order[k][2] = place(k)
          BY <2>6, <3>3
        <5>. QED  BY <2>8, <5>1
      <4>2. picks[place(j)] = j /\ picks[place(k)] = k
        BY <2>4, <3>3
      <4>. QED  BY <4>1, <4>2
    <3>. QED  BY <3>1, <3>2, <3>3
  <2>9. Pick!Order = [k \in Pick!Pool |-> Pick!Order[k]]
    BY <2>6
  <2>. QED  BY <2>7, <2>8, <2>9
<1>. QED  BY <1>1, <1>2

\* What the selector returns can be traded in.
LEMMA SelectedIsTradeable ==
  ASSUME SignalOK, Pick!SelectOption # None
  PROVE  Pick!SelectOption \in Pick!Pool /\ Pick!Tradeable(Pick!SelectOption)
<1>. DEFINE good == {k \in Pick!Pool : Pick!Tradeable(k)}
            f == [k \in good |-> Pick!Order[k]]
<1>1. good # {} /\ Pick!SelectOption = CHOOSE k \in good : \A j \in good \ {k} : Pick!Before(Pick!Order[k], Pick!Order[j])
  BY DEF Pick!SelectOption
<1>2. f \in [good -> [1..4 -> Nat]] /\ \A j, k \in good : f[j] = f[k] => j = k
  BY WalkIsOrdered
<1>3. \E k \in good : \A j \in good \ {k} : Pick!Before(f[k], f[j])
  <2>. HIDE DEF f, good
  <2>. QED  BY <1>1, <1>2, WalkBegins, Zenon
<1>4. \E k \in good : \A j \in good \ {k} : Pick!Before(Pick!Order[k], Pick!Order[j])
  BY <1>3
<1>5. Pick!SelectOption \in good
  <2>. HIDE DEF good
  <2>. QED  BY <1>1, <1>4
<1>. QED  BY <1>5

QuotesOK ==
  /\ DOMAIN quotes = Pick!Listed
  /\ \A c \in Pick!Listed : quotes[c] # None => quotes[c].ts \in Int

\* How far the clock can have run past the one a quote is judged by.
Waited ==
  /\ stage = "start" => asked = 0 /\ now = 0
  /\ stage = "depth" => now = asked
  /\ stage = "rest" => now <= asked + Pick!SocketWait
  /\ stage = "choose" => now <= asked + Pick!SocketWait + Pick!RestTimeout

PickInv ==
  /\ SignalOK /\ QuotesOK /\ now \in Int /\ asked \in Int /\ Waited
  /\ stage \in {"start", "depth", "rest", "choose"} => taken = None
  /\ stage \in {"depth", "rest", "choose"} => sig.segment # "MCX"
  /\ Pick!AgeIsBounded

\* An option that is chosen by the clock that was read first, the waits after it.
LEMMA ChosenInTime ==
  ASSUME SignalOK, QuotesOK, sig.segment # "MCX", asked \in Int, NEW t \in Int,
         t <= asked + Pick!SocketWait + Pick!RestTimeout, Pick!SelectOption # None
  PROVE  t - quotes[Pick!SelectOption].ts <= Pick!MaxQuoteAge + Pick!SocketWait + Pick!RestTimeout
<1>. DEFINE c == Pick!SelectOption
<1>1. c \in Pick!Listed /\ Pick!Tradeable(c)
  BY SelectedIsTradeable DEF Pick!Listed
<1>. HIDE DEF c
<1>2. quotes[c].ts \in Int /\ asked - quotes[c].ts <= Pick!MaxQuoteAge
  BY <1>1 DEF QuotesOK, Pick!Tradeable
<1>3. t - quotes[c].ts <= Pick!MaxQuoteAge + Pick!SocketWait + Pick!RestTimeout
  BY <1>2 DEF Pick!MaxQuoteAge, Pick!SocketWait, Pick!RestTimeout
<1>. QED  BY <1>3 DEF c

LEMMA PickInvInit == Pick!Init => PickInv
<1>1. SUFFICES ASSUME Pick!Init PROVE PickInv
  OBVIOUS
<1>2. quotes \in [Pick!Listed -> {None} \union [ts : OldQuotes, kind : {"good"}]]
  BY <1>1 DEF Pick!Init
<1>3. QuotesOK
  <2>1. SUFFICES ASSUME NEW c \in Pick!Listed, quotes[c] # None PROVE quotes[c].ts \in Int
    BY <1>2 DEF QuotesOK
  <2>2. quotes[c] \in [ts : OldQuotes, kind : {"good"}]
    BY <1>2, <2>1
  <2>3. quotes[c].ts \in OldQuotes
    BY <2>2
  <2>. QED  BY <2>3, StrikesFacts, Zenon
<1>. QED  BY <1>1, <1>3 DEF Pick!Init, PickInv, SignalOK, Waited, Pick!AgeIsBounded

\* A name is traded in what it was.
LEMMA ListedStays ==
  ASSUME UNCHANGED sig
  PROVE  Pick!Listed' = Pick!Listed
  BY DEF Pick!Listed, Pick!Pool, Pick!OutOfTheMoney, Pick!Bullish

LEMMA PickInvNext == PickInv /\ [Pick!Next]_(Pick!vars) => PickInv'
<1>1. SUFFICES ASSUME PickInv, [Pick!Next]_(Pick!vars)
               PROVE  PickInv'
  OBVIOUS
<1>. USE DEF PickInv
<1>2. CASE Pick!Begins
  <2>1. UNCHANGED <<now, sig, quotes>> /\ asked' = now /\ stage = "start" /\ asked = now /\ now = 0
    BY <1>1, <1>2 DEF Pick!Begins, Waited
  <2>2. SignalOK' /\ QuotesOK'
    BY <1>1, <2>1, ListedStays DEF SignalOK, QuotesOK, Pick!Signals
  <2>3. CASE sig.segment = "MCX"
    <3>1. Pick!Chooses(Pick!SelectFuture)
      BY <1>2, <2>3 DEF Pick!Begins
    <3>2. stage' \in {"subscribe", "done"} /\ taken' = Pick!SelectFuture
      BY <3>1 DEF Pick!Chooses
    <3>3. ASSUME taken' # None
          PROVE  now' - quotes'[taken'].ts <= Pick!MaxQuoteAge + Pick!SocketWait + Pick!RestTimeout
      <4>1. taken' = Pick!Future /\ quotes[Pick!Future] # None /\ asked - quotes[Pick!Future].ts <= Pick!MaxQuoteAge
        BY <3>2, <3>3 DEF Pick!SelectFuture
      <4>2. quotes[Pick!Future].ts \in Int
        BY <1>1, <2>3, <4>1 DEF QuotesOK, Pick!Listed
      <4>3. now - quotes[Pick!Future].ts <= Pick!MaxQuoteAge + Pick!SocketWait + Pick!RestTimeout
        BY <2>1, <4>1, <4>2 DEF Pick!MaxQuoteAge, Pick!SocketWait, Pick!RestTimeout
      <4>. QED  BY <2>1, <4>1, <4>3
    <3>. QED  BY <1>1, <2>1, <2>2, <3>2, <3>3 DEF Waited, Pick!AgeIsBounded
  <2>4. CASE sig.segment # "MCX"
    <3>1. taken' = taken /\ taken = None /\ stage' \in {"depth", "done"}
      BY <1>1, <1>2, <2>1, <2>4 DEF Pick!Begins
    <3>. QED  BY <1>1, <2>1, <2>2, <2>4, <3>1 DEF Waited, Pick!AgeIsBounded
  <2>. QED  BY <2>3, <2>4
<1>3. CASE Pick!Followed
  <2>1. /\ UNCHANGED <<sig, quotes, asked>> /\ stage = "depth" /\ taken = None /\ sig.segment # "MCX"
        /\ now' \in asked..(asked + Pick!SocketWait)
    BY <1>1, <1>3 DEF Pick!Followed
  <2>2. SignalOK' /\ QuotesOK'
    BY <1>1, <2>1, ListedStays DEF SignalOK, QuotesOK, Pick!Signals
  <2>3. now' \in Int /\ now' <= asked + Pick!SocketWait /\ now' <= asked + Pick!SocketWait + Pick!RestTimeout
    BY <1>1, <2>1 DEF Pick!SocketWait, Pick!RestTimeout
  <2>4. CASE Pick!Chooses(Pick!SelectOption)
    <3>1. taken' = Pick!SelectOption /\ stage' \in {"subscribe", "done"}
      BY <2>4 DEF Pick!Chooses
    <3>2. taken' # None => now' - quotes[taken'].ts <= Pick!MaxQuoteAge + Pick!SocketWait + Pick!RestTimeout
      BY <1>1, <2>1, <2>3, <3>1, ChosenInTime
    <3>. QED  BY <1>1, <2>1, <2>2, <2>3, <3>1, <3>2 DEF Waited, Pick!AgeIsBounded
  <2>5. CASE stage' = "rest" /\ taken' = taken
    BY <1>1, <2>1, <2>2, <2>3, <2>5 DEF Waited, Pick!AgeIsBounded
  <2>. QED  BY <1>3, <2>4, <2>5 DEF Pick!Followed
<1>4. CASE Pick!Refreshes \/ Pick!RefreshFails
  <2>1. /\ UNCHANGED <<sig, asked, taken>> /\ stage = "rest" /\ stage' = "choose" /\ taken = None /\ sig.segment # "MCX"
        /\ now' \in now..(asked + Pick!SocketWait + Pick!RestTimeout)
    BY <1>1, <1>4 DEF Pick!Refreshes, Pick!RefreshFails, Pick!Answered
  <2>2. now' \in Int /\ now' <= asked + Pick!SocketWait + Pick!RestTimeout
    BY <1>1, <2>1 DEF Pick!SocketWait, Pick!RestTimeout
  <2>3. QuotesOK'
    <3>1. CASE Pick!RefreshFails
      BY <1>1, <2>1, <3>1, ListedStays DEF QuotesOK, Pick!RefreshFails
    <3>2. CASE Pick!Refreshes
      <4>1. PICK answer \in [stale -> Kinds \union {None}] :
              quotes' = [c \in DOMAIN quotes |->
                           IF c \in stale /\ answer[c] # None THEN [ts |-> now', kind |-> answer[c]] ELSE quotes[c]]
        BY <3>2 DEF Pick!Refreshes
      <4>2. \A c \in Pick!Listed : quotes'[c] = quotes[c] \/ quotes'[c].ts = now'
        BY <1>1, <4>1 DEF QuotesOK
      <4>. QED  BY <1>1, <2>1, <2>2, <4>1, <4>2, ListedStays DEF QuotesOK
    <3>. QED  BY <1>4, <3>1, <3>2
  <2>. QED  BY <1>1, <2>1, <2>2, <2>3 DEF SignalOK, Pick!Signals, Waited, Pick!AgeIsBounded
<1>5. CASE Pick!Selects
  <2>1. /\ UNCHANGED <<now, sig, quotes, asked>> /\ stage = "choose" /\ sig.segment # "MCX"
        /\ taken' = Pick!SelectOption /\ stage' \in {"subscribe", "done"}
    BY <1>1, <1>5 DEF Pick!Selects, Pick!Chooses
  <2>2. SignalOK' /\ QuotesOK'
    BY <1>1, <2>1, ListedStays DEF SignalOK, QuotesOK, Pick!Signals
  <2>3. taken' # None => now - quotes[taken'].ts <= Pick!MaxQuoteAge + Pick!SocketWait + Pick!RestTimeout
    BY <1>1, <2>1, ChosenInTime DEF Waited
  <2>. QED  BY <1>1, <2>1, <2>2, <2>3 DEF Waited, Pick!AgeIsBounded
<1>6. CASE Pick!Ticks
  <2>1. UNCHANGED <<now, stage, sig, asked, taken>> /\ stage = "rest" /\ taken = None
    BY <1>1, <1>6 DEF Pick!Ticks
  <2>2. PICK k \in Pick!Pool, kind \in {"good", "cheap", "thin"} : quotes' = [quotes EXCEPT ![k] = [ts |-> now, kind |-> kind]]
    BY <1>6, Zenon DEF Pick!Ticks
  <2>3. \A c \in Pick!Listed : quotes'[c] = quotes[c] \/ quotes'[c].ts = now
    BY <1>1, <2>2 DEF QuotesOK
  <2>4. QuotesOK'
    BY <1>1, <2>1, <2>2, <2>3, ListedStays, Zenon DEF QuotesOK
  <2>. QED  BY <1>1, <2>1, <2>4 DEF SignalOK, Pick!Signals, Waited, Pick!AgeIsBounded
<1>7. CASE Pick!Orders \/ UNCHANGED Pick!vars
  <2>1. UNCHANGED <<now, sig, quotes, asked, taken>> /\ stage' \in {stage, "done"}
    BY <1>7 DEF Pick!Orders, Pick!vars
  <2>2. SignalOK' /\ QuotesOK'
    BY <1>1, <2>1, ListedStays DEF SignalOK, QuotesOK, Pick!Signals
  <2>. QED  BY <1>1, <2>1, <2>2 DEF Waited, Pick!AgeIsBounded
<1>. QED  BY <1>1, <1>2, <1>3, <1>4, <1>5, <1>6, <1>7 DEF Pick!Next

\* A contract is never chosen off a quote older than the policy's age and the two waits, for
\* any chain, target and order in which the broker answers (Engine._select_instrument,
\* Engine._ensure_quotes, select_option).
THEOREM AgeIsBoundedHolds == Pick!Spec => []AgeIsBounded
<1>1. PickInv => AgeIsBounded
  BY DEF PickInv, AgeIsBounded
<1>. QED  BY <1>1, PickInvInit, PickInvNext, PTL DEF Pick!Spec

-----------------------------------------------------------------------------
(* "A rollover never leaves the OI source empty": the groups keep the futures of   *)
(* the boot, so the argument is about what the boot can have picked.  While one    *)
(* expiry passes, a pick of two holds one that outlives the days, also when it is  *)
(* made from an old file of the master.                                            *)

Outlives(c, s) == c \in Contracts /\ Segment[c] = s /\ Kind[c] = "FUTURE" /\ ExpiresOn[c] >= LastDay

Expires(c, s) == c \in Contracts /\ Segment[c] = s /\ Kind[c] = "FUTURE" /\ ExpiresOn[c] < LastDay

\* The days see one expiry of a name, the policy asks for the month after it, and while a
\* future that will expire is listed another one is.
OneExpiry ==
  /\ FuturesCount \in Nat /\ FuturesCount >= 2
  /\ \A s \in Segments, c, e \in Contracts : Expires(c, s) /\ Expires(e, s) => c = e
  /\ \A s \in Segments, m \in Moments : \A c \in Master(s, m) :
       Expires(c, s) => \E e \in Master(s, m) : e # c /\ Kind[e] = "FUTURE"

Dated == [Segments -> Moments \union {None}]

Files == [Segments -> [0..LastDay -> Moments \union {None}]]

IsLoad(x) ==
  /\ x \in [why : {x.why}, day : {x.day}, todo : {x.todo}, of : Dated]
  /\ x.todo # <<>> => x.day \in 0..LastDay

Mastered ==
  /\ moment \in Moments /\ files \in Files /\ IsLoad(load)
  /\ GroupsOK
  /\ \A s \in Segments : groups[s] # None => \E c \in groups[s].futures : Outlives(c, s)

LEMMA Numbers ==
  /\ LastDay \in Nat /\ IsFiniteSet(Contracts)
  /\ \A c \in Contracts : ExpiresOn[c] \in Nat
  /\ \A m \in Moments : m \in Nat /\ DayOf(m) \in 0..LastDay
<1>1. LastDay \in Nat /\ IsFiniteSet(Contracts) /\ \A c \in Contracts : ExpiresOn[c] \in Nat
  BY DeskAssumption DEF UniverseAssumptions
<1>2. \A m \in Moments : m \in Nat /\ DayOf(m) \in 0..LastDay
  BY <1>1 DEF Moments, DayOf
<1>. QED  BY <1>1, <1>2

\* Of what is live in a master, one outlives the days.
LEMMA OneOutlives ==
  ASSUME OneExpiry, Mastered, NEW of \in Dated, NEW s \in Segments, Live("FUTURE", s, of) # {}
  PROVE  \E c \in Live("FUTURE", s, of) : Outlives(c, s)
<1>1. PICK c \in Live("FUTURE", s, of) : TRUE
  OBVIOUS
<1>2. c \in Master(s, of[s]) /\ of[s] \in Moments /\ Kind[c] = "FUTURE" /\ Segment[c] = s /\ c \in Contracts
  BY <1>1 DEF Live, Known, Master, Dated
<1>3. CASE Expires(c, s)
  <2>1. PICK e \in Master(s, of[s]) : e # c /\ Kind[e] = "FUTURE"
    BY <1>2, <1>3 DEF OneExpiry
  <2>2. e \in Contracts /\ Segment[e] = s
    BY <2>1 DEF Master
  <2>3. Outlives(e, s)
    BY <1>2, <1>3, <2>1, <2>2, Numbers DEF OneExpiry, Expires, Outlives
  <2>4. Today \in 0..LastDay
    BY Numbers DEF Mastered, Today
  <2>5. e \in Live("FUTURE", s, of)
    BY <2>1, <2>2, <2>3, <2>4, Numbers DEF Live, Known, Outlives
  <2>. QED  BY <2>3, <2>5
<1>4. CASE ~Expires(c, s)
  BY <1>1, <1>2, <1>4, Numbers DEF Expires, Outlives
<1>. QED  BY <1>3, <1>4

\* Of a pick, one does: before the nearest of them comes the one that expires, if any.
LEMMA PickOutlives ==
  ASSUME OneExpiry, Mastered, NEW of \in Dated, NEW s \in Segments, FuturesOf(s, of) # {}
  PROVE  \E c \in FuturesOf(s, of) : Outlives(c, s)
<1>. DEFINE S == Live("FUTURE", s, of)
            lasting == {c \in S : Outlives(c, s)}
<1>1. S \subseteq Contracts /\ \A c \in S : Segment[c] = s /\ Kind[c] = "FUTURE"
  BY DEF Live, Known, Master
<1>2. lasting # {}
  BY OneOutlives DEF FuturesOf, Lowest
<1>. HIDE DEF S
<1>3. {ExpiresOn[c] : c \in lasting} \subseteq Nat /\ {ExpiresOn[c] : c \in lasting} # {}
  BY <1>1, <1>2, Numbers
<1>4. PICK c \in lasting : \A e \in lasting : ExpiresOn[c] <= ExpiresOn[e]
  <2>. DEFINE N == {ExpiresOn[e] : e \in lasting}
  <2>1. PICK m \in N : \A n \in N : m <= n
    <3>. HIDE DEF N
    <3>. QED  BY <1>3, SmallestMember, Zenon DEF N
  <2>. QED  BY <2>1
<1>. DEFINE before == {e \in S : ExpiresOn[e] < ExpiresOn[c]}
<1>5. \A e \in before : Expires(e, s)
  BY <1>1, <1>4, Numbers DEF Outlives, Expires
<1>6. Cardinality(before) \in Nat /\ Cardinality(before) < 2
  <2>1. CASE before = {}
    BY <2>1, FS_EmptySet
  <2>2. CASE before # {}
    <3>1. PICK e \in before : TRUE
      BY <2>2
    <3>2. before = {e}
      BY <1>1, <1>5, <3>1 DEF OneExpiry
    <3>. QED  BY <3>2, FS_Singleton
  <2>. QED  BY <2>1, <2>2
<1>7. c \in Lowest(S, ExpiresOn, FuturesCount)
  BY <1>4, <1>6 DEF Lowest, OneExpiry
<1>. QED  BY <1>4, <1>7 DEF FuturesOf, S

LEMMA MasteredInit == Init => Mastered
<1>. SUFFICES ASSUME Init PROVE Mastered
  OBVIOUS
<1>1. moment \in Moments
  BY Numbers DEF Init, Moments
<1>2. IsLoad(load)
  BY DEF Init, NoLoad, Blank, Dated, IsLoad
<1>3. files \in Files
  BY DEF Init, Files
<1>. QED  BY <1>1, <1>2, <1>3 DEF Init, Mastered, GroupsOK

\* What a load reads is of some moment.
LEMMA NewestIsDated ==
  ASSUME Mastered, NEW s \in Segments
  PROVE  Newest(s) \in Moments \union {None}
<1>1. \A d \in DOMAIN files[s] : d \in 0..LastDay /\ files[s][d] \in Moments \union {None}
  BY Zenon DEF Mastered, Files
<1>2. CASE DaysOnDisk(s) = {}
  BY <1>2 DEF Newest
<1>3. CASE DaysOnDisk(s) # {}
  <2>. DEFINE T == {LastDay - d : d \in DaysOnDisk(s)}
  <2>1. DaysOnDisk(s) \subseteq 0..LastDay
    BY <1>1 DEF DaysOnDisk
  <2>2. T \subseteq Nat /\ T # {}
    BY <1>3, <2>1, Numbers
  <2>3. PICK m \in T : \A k \in T : m <= k
    <3>. HIDE DEF T
    <3>. QED  BY <2>2, SmallestMember, Zenon
  <2>4. PICK d \in DaysOnDisk(s) : m = LastDay - d
    BY <2>3
  <2>5. \A e \in DaysOnDisk(s) : LastDay - d <= LastDay - e
    BY <2>3, <2>4
  <2>6. \A e \in DaysOnDisk(s) : e <= d
    BY <2>1, <2>4, <2>5, Numbers
  <2>7. Newest(s) = files[s][CHOOSE x \in DaysOnDisk(s) : \A e \in DaysOnDisk(s) : e <= x]
    BY <1>3 DEF Newest
  <2>8. (CHOOSE x \in DaysOnDisk(s) : \A e \in DaysOnDisk(s) : e <= x) \in DaysOnDisk(s)
    BY <2>6
  <2>. QED  BY <1>1, <2>7, <2>8, Zenon DEF DaysOnDisk
<1>. QED  BY <1>2, <1>3

LEMMA ReadIsDated ==
  ASSUME IsLoad(load), load.todo # <<>>, NEW s \in Segments, NEW m \in Moments \union {None}, Read(s, m)
  PROVE  IsLoad(load')
<1>1. load.of \in Dated /\ load = [why |-> load.why, day |-> load.day, todo |-> load.todo, of |-> load.of]
  BY DEF IsLoad
<1>2. [load.of EXCEPT ![s] = m] \in Dated
  BY <1>1 DEF Dated
<1>3. load' = [why |-> load.why, day |-> load.day, todo |-> Tail(load.todo), of |-> [load.of EXCEPT ![s] = m]]
  BY <1>1, Zenon DEF Read
<1>4. load.day \in 0..LastDay
  BY DEF IsLoad
<1>. QED  BY <1>2, <1>3, <1>4 DEF IsLoad

LEMMA LoadsAreDated ==
  ASSUME Mastered, [Next]_vars
  PROVE  moment' \in Moments /\ files' \in Files /\ IsLoad(load')
<1>0. moment \in Moments /\ files \in Files /\ IsLoad(load) /\ Today \in 0..LastDay
  BY Numbers DEF Mastered, Today
<1>1. IsLoad(NoLoad)
  BY DEF NoLoad, Blank, Dated, IsLoad
<1>2. ASSUME NEW why, NEW force, Ensures(why, force) PROVE files' \in Files /\ IsLoad(load')
  <2>1. IsLoad([why |-> why, day |-> Today, todo |-> SegmentList, of |-> Blank.of])
    BY <1>0 DEF Blank, Dated, IsLoad
  <2>2. [s \in Segments |-> [files[s] EXCEPT ![Today] = None]] \in Files
    BY <1>0 DEF Files
  <2>. QED  BY <1>0, <1>2, <2>1, <2>2 DEF Ensures
<1>3. ASSUME NEW s \in Segments, Fetches(s) PROVE files' \in Files /\ IsLoad(load')
  <2>1. load.todo # <<>> /\ load.day \in 0..LastDay
    BY <1>0, <1>3 DEF Fetches, IsLoad
  <2>2. [files EXCEPT ![s] = Written(s)] \in Files
    <3>1. \A d \in 0..LastDay : files[s][d] \in Moments \union {None}
      BY <1>0, Zenon DEF Files
    <3>2. Written(s) \in [0..LastDay -> Moments \union {None}]
      BY <1>0, <3>1 DEF Written
    <3>. QED  BY <1>0, <3>2 DEF Files
  <2>3. files[s][load.day] \in Moments \union {None} /\ Newest(s) \in Moments \union {None}
    BY <1>0, <2>1, NewestIsDated, Zenon DEF Files
  <2>. QED  BY <1>0, <1>3, <2>1, <2>2, <2>3, ReadIsDated DEF Fetches
<1>4. ASSUME NEW why, Replaces(why) PROVE IsLoad(load')
  BY <1>1, <1>4 DEF Replaces
<1>5. Passes => moment' \in Moments
  BY DEF Passes
<1>6. CASE Passes
  BY <1>0, <1>5, <1>6 DEF Passes
<1>7. CASE Boots \/ Rolls \/ Rebuilds
  BY <1>0, <1>2, <1>7, Zenon DEF Boots, Rolls, Rebuilds
<1>8. CASE Booted \/ Rolled \/ Repicks
  BY <1>0, <1>4, <1>8 DEF Booted, Rolled, Repicks
<1>9. ASSUME NEW s \in Segments, Fetches(s) PROVE moment' \in Moments /\ files' \in Files /\ IsLoad(load')
  BY <1>0, <1>3, <1>9 DEF Fetches
<1>10. CASE \E s \in Segments, c \in Contracts : Buys(s, c)
  BY <1>0, <1>10 DEF Buys
<1>11. CASE \E c \in held : Sells(c)
  BY <1>0, <1>11 DEF Sells
<1>12. CASE Stops
  BY <1>0, <1>1, <1>12 DEF Stops
<1>13. CASE UNCHANGED vars
  BY <1>0, <1>13 DEF vars
<1>. QED  BY <1>6, <1>7, <1>8, <1>9, <1>10, <1>11, <1>12, <1>13 DEF Next

\* A group's futures are the boot's.
LEMMA FuturesStand ==
  ASSUME Priced, Mastered, [Next]_vars, ~Booted, NEW s \in Segments, groups'[s] # None
  PROVE  groups[s] # None /\ groups'[s].futures = groups[s].futures
<1>1. CASE groups' = groups
  BY <1>1
<1>2. CASE Repicks
  <2>1. groups' = Repicked(load.of)
    BY <1>2 DEF Repicks
  <2>2. groups[s] # None
    BY <2>1 DEF Repicked
  <2>3. groups[s] \in GroupShape /\ groups'[s] = [groups[s] EXCEPT !.options = OptionsOf(s, load.of)]
    BY <2>1, <2>2 DEF Repicked, Priced, GroupsOK
  <2>. QED  BY <2>2, <2>3 DEF GroupShape
<1>3. CASE Stops
  BY <1>3 DEF Stops
<1>. QED  BY <1>1, <1>2, <1>3, Zenon DEF Next, Passes, Boots, Rolls, Rolled, Rebuilds, Fetches, Buys, Sells, vars

LEMMA MasteredNext == OneExpiry /\ Priced /\ Mastered /\ [Next]_vars => Mastered'
<1>. SUFFICES ASSUME OneExpiry, Priced, Mastered, [Next]_vars PROVE Mastered'
  OBVIOUS
<1>1. moment' \in Moments /\ files' \in Files /\ IsLoad(load') /\ GroupsOK'
  BY LoadsAreDated, PricedNext DEF Priced
<1>2. ASSUME NEW s \in Segments, groups'[s] # None PROVE \E c \in groups'[s].futures : Outlives(c, s)
  <2>1. CASE Booted
    <3>1. groups' = Built(load.of) /\ load.of \in Dated
      BY <2>1 DEF Booted, Mastered, IsLoad
    <3>2. FuturesOf(s, load.of) # {} /\ groups'[s] = Group(s, load.of)
      BY <1>2, <3>1 DEF Built
    <3>. QED  BY <3>1, <3>2, PickOutlives DEF Group
  <2>2. CASE ~Booted
    BY <1>2, <2>2, FuturesStand DEF Mastered
  <2>. QED  BY <2>1, <2>2
<1>. QED  BY <1>1, <1>2 DEF Mastered, Outlives

(* "A rollover never leaves the OI source empty" (UniversePolicy.futures_count):    *)
(* of any master, through stale files, restarts and rebuilds, while the days see   *)
(* one expiry of each name.                                                        *)
THEOREM OiSourceSurvives == OneExpiry => (Spec => []OiSourceSurvivesRoll)
<1>. SUFFICES ASSUME OneExpiry PROVE Spec => []OiSourceSurvivesRoll
  OBVIOUS
<1>1. Priced /\ Mastered => OiSourceSurvivesRoll
  <2>. SUFFICES ASSUME Priced, Mastered, engine = "up", NEW s \in Segments, groups[s] # None
                PROVE  \E c \in oi : Segment[c] = s /\ Kind[c] = "FUTURE" /\ ExpiresOn[c] >= Today
    BY DEF OiSourceSurvivesRoll
  <2>1. PICK c \in groups[s].futures : Outlives(c, s)
    BY DEF Mastered
  <2>2. c \in oi
    BY <2>1 DEF Priced, UniverseIsPriced, Futures
  <2>3. Today \in 0..LastDay /\ ExpiresOn[c] \in Nat /\ LastDay \in Nat
    BY <2>1, Numbers DEF Mastered, Today, Outlives
  <2>. QED  BY <2>1, <2>2, <2>3 DEF Outlives
<1>2. Priced /\ Mastered /\ [Next]_vars => (Priced /\ Mastered)'
  BY PricedNext, MasteredNext
<1>3. Init => Priced /\ Mastered
  BY PricedInit, MasteredInit
<1>. QED  BY <1>1, <1>2, <1>3, PTL DEF Spec

-----------------------------------------------------------------------------
(* The plans of a trigger, of Counter.  A list is sorted by putting its elements in one *)
(* by one, each behind those with a smaller key (Placed); so the walls come nearest     *)
(* first, and what rounds each of them outward and to a tick never swaps two.           *)

Some(S) == CHOOSE x \in S : TRUE
Rest(S) == S \ {Some(S)}

LEMMA SmallestSet ==
  ASSUME NEW S, IsFiniteSet(S), NEW T, T \subseteq SUBSET S, T # {}
  PROVE  \E s \in T : \A r \in SUBSET s : r # s => r \notin T
<1>1. IsWellFoundedOn(StrictSubsetOrdering(S), SUBSET S)
  BY FS_StrictSubsetOrderingWellFounded, FS_FiniteSubsetsOfFinite
<1>2. PICK s \in T : \A r \in T : ~(<<r, s>> \in StrictSubsetOrdering(S))
  BY <1>1, WFMin
<1>. QED  BY <1>2, Zenon DEF StrictSubsetOrdering

\* What a fold comes to at each subset of S: base, and a step for one more element.
Folded(a, S, base, step, V) ==
    a \in [SUBSET S -> V] /\ \A s \in SUBSET S : a[s] = IF s = {} THEN base ELSE step[Some(s), a[Rest(s)]]

LEMMA RestIsSmaller ==
  ASSUME NEW S, IsFiniteSet(S), NEW s \in SUBSET S, s # {}
  PROVE  /\ Some(s) \in s /\ Rest(s) \in SUBSET S /\ Rest(s) \in SUBSET s /\ Rest(s) # s
         /\ Cardinality(s) \in Nat /\ Cardinality(Rest(s)) = Cardinality(s) - 1
<1>1. Some(s) \in s
  BY DEF Some
<1>2. IsFiniteSet(s)
  BY FS_Subset
<1>. QED  BY <1>1, <1>2, FS_RemoveElement, FS_CardinalityType DEF Rest

LEMMA FoldExists ==
  ASSUME NEW S, IsFiniteSet(S), NEW V, NEW base \in V, NEW step \in [S \X V -> V]
  PROVE  \E a : Folded(a, S, base, step, V)
<1>. DEFINE By(g, r) == IF r = {} THEN base ELSE step[Some(r), g[Rest(r)]]
            Upto(g, n) == g \in [SUBSET S -> V] /\ \A r \in SUBSET S : Cardinality(r) <= n => g[r] = By(g, r)
            T == {n \in Nat : ~ \E g : Upto(g, n)}
<1>1. \A r \in SUBSET S : IsFiniteSet(r) /\ Cardinality(r) \in Nat
  BY FS_Subset, FS_CardinalityType
<1>2. \A r \in SUBSET S : r # {} => /\ Some(r) \in S /\ Rest(r) \in SUBSET S
                                     /\ Cardinality(Rest(r)) = Cardinality(r) - 1
  BY RestIsSmaller
<1>3. \A r \in SUBSET S : Cardinality(r) <= 0 => r = {}
  BY <1>1, FS_EmptySet
<1>4. Upto([r \in SUBSET S |-> base], 0)
  BY <1>3, Zenon
<1>5. ASSUME NEW n \in Nat, NEW g, Upto(g, n)
      PROVE  Upto([r \in SUBSET S |-> By(g, r)], n + 1)
  <2>. DEFINE h == [r \in SUBSET S |-> By(g, r)]
  <2>1. \A r \in SUBSET S : By(g, r) \in V
    BY <1>2, <1>5, Zenon
  <2>2. h \in [SUBSET S -> V]
    <3>. HIDE DEF By
    <3>. QED  BY <2>1
  <2>. SUFFICES ASSUME NEW r \in SUBSET S, Cardinality(r) <= n + 1
                PROVE  h[r] = By(h, r)
    BY <2>2, Zenon
  <2>3. h[r] = By(g, r)
    OBVIOUS
  <2>4. CASE r = {}
    BY <2>3, <2>4
  <2>5. CASE r # {}
    <3>1. Rest(r) \in SUBSET S /\ Cardinality(Rest(r)) <= n
      BY <1>1, <1>2, <2>5
    <3>2. g[Rest(r)] = By(g, Rest(r))
      BY <3>1, <1>5, Zenon
    <3>3. h[Rest(r)] = By(g, Rest(r))
      BY <3>1
    <3>. QED  BY <2>3, <2>5, <3>2, <3>3, Zenon
  <2>. QED  BY <2>4, <2>5, Zenon
<1>6. T = {}
  <2>. SUFFICES ASSUME T # {} PROVE FALSE
    BY Zenon
  <2>1. PICK n \in T : n - 1 \notin T
    BY LeastNumber, Zenon
  <2>2. n # 0 /\ n \in Nat
    <3>1. \E g : Upto(g, 0)
      <4>. DEFINE flat == [r \in SUBSET S |-> base]
      <4>1. Upto(flat, 0)
        BY <1>4, Zenon
      <4>. HIDE DEF Upto, flat
      <4>. QED  BY <4>1
    <3>. HIDE DEF Upto
    <3>. QED  BY <2>1, <3>1
  <2>3. n - 1 \in Nat /\ (n - 1) + 1 = n
    <3>. HIDE DEF T
    <3>. QED  BY <2>2
  <2>4. PICK g : Upto(g, n - 1)
    BY <2>1, <2>3, Zenon
  <2>5. Upto([r \in SUBSET S |-> By(g, r)], n)
    <3>. HIDE DEF Upto, By
    <3>1. Upto([r \in SUBSET S |-> By(g, r)], (n - 1) + 1)
      BY <1>5, <2>3, <2>4, Zenon
    <3>. QED  BY <2>3, <3>1
  <2>. QED  BY <2>1, <2>5, Zenon
<1>7. PICK g : Upto(g, Cardinality(S))
  BY <1>1, <1>6, Zenon
<1>8. \A r \in SUBSET S : g[r] = By(g, r)
  BY <1>1, <1>7, FS_Subset, Zenon
<1>. QED  BY <1>7, <1>8, Zenon DEF Folded

\* x behind those with a smaller key.
Placed(seq, x, key) ==
    Fade!InsertAt(seq, 1 + Fade!Cardinality({i \in DOMAIN seq : key[seq[i]] < key[x]}), x)

Places(a, S, key) ==
    a = [s \in SUBSET S |-> IF s = {} THEN <<>> ELSE Placed(a[Rest(s)], Some(s), key)]

LEMMA InOrderUnfolds ==
  ASSUME NEW S, NEW key
  PROVE  Fade!InOrder(S, key) = (CHOOSE a : Places(a, S, key))[S]
  BY DEF Fade!InOrder, Fade!FoldSet, Fade!MapThenFoldSet, Places, Placed, Some, Rest

LEMMA CountIs == \A S : Fade!Cardinality(S) = Cardinality(S)
  BY DEF Cardinality, Fade!Cardinality

\* Some elements of a sequence are no more than its length.
LEMMA CountUpTo ==
  ASSUME NEW n \in Nat, NEW P, P \subseteq 1..n
  PROVE  Cardinality(P) \in Nat /\ Cardinality(P) <= n
<1>1. IsFiniteSet(1..n) /\ Cardinality(1..n) = n
  <2>. DEFINE a == 1
  <2>1. a \in Int /\ n \in Int /\ n = IF a > n THEN 0 ELSE n - a + 1
    OBVIOUS
  <2>. HIDE DEF a
  <2>2. IsFiniteSet(a..n) /\ Cardinality(a..n) = n
    BY <2>1, FS_Interval
  <2>. QED  BY <2>2 DEF a
<1>. QED  BY <1>1, FS_Subset, FS_CardinalityType, Zenon

\* What comes before in an order is the first so many.
LEMMA FirstSoMany ==
  ASSUME NEW n \in Nat, NEW P, P \subseteq 1..n, \A i \in P, j \in 1..n : j <= i => j \in P
  PROVE  P = 1..Cardinality(P)
<1>. DEFINE Q == {j \in 1..(n + 1) : j \notin P}
<1>1. Q \subseteq Nat /\ n + 1 \in Q
  OBVIOUS
<1>. HIDE DEF Q
<1>2. PICK q \in Q : \A j \in Q : q <= j
  BY <1>1, SmallestMember, Zenon
<1>3. q \in 1..(n + 1) /\ q \notin P
  BY <1>2 DEF Q
<1>4. \A j \in 1..(n + 1) : j < q => j \in P
  <2>. SUFFICES ASSUME NEW j \in 1..(n + 1), j < q, j \notin P PROVE FALSE
    OBVIOUS
  <2>1. j \in Q
    BY DEF Q
  <2>. QED  BY <1>2, <1>3, <2>1
<1>5. \A j \in P : j < q
  <2>. SUFFICES ASSUME NEW j \in P, q <= j PROVE FALSE
    BY <1>3
  <2>1. q \in 1..n
    BY <1>3
  <2>. QED  BY <1>3, <2>1
<1>. DEFINE m == q - 1
<1>6. P = 1..m /\ m \in Nat
  <2>1. m \in Nat /\ m <= n
    BY <1>3
  <2>2. ASSUME NEW j \in 1..m PROVE j \in P
    <3>1. j \in 1..(n + 1) /\ j < q
      BY <1>3
    <3>. QED  BY <1>4, <3>1
  <2>3. ASSUME NEW j \in P PROVE j \in 1..m
    <3>1. j \in 1..n /\ j < q
      BY <1>5
    <3>. QED  BY <1>3, <3>1
  <2>. HIDE DEF m
  <2>. QED  BY <2>1, <2>2, <2>3, Zenon
<1>. HIDE DEF m
<1>7. Cardinality(1..m) = m
  <2>. DEFINE a == 1
  <2>1. a \in Int /\ m \in Int /\ m = IF a > m THEN 0 ELSE m - a + 1
    BY <1>6
  <2>. HIDE DEF a
  <2>2. Cardinality(a..m) = m
    BY <2>1, FS_Interval
  <2>. QED  BY <2>2 DEF a
<1>. QED  BY <1>6, <1>7

\* x behind the first so many of s.
Inserts(u, s, at, x) == u = SubSeq(s, 1, at) \o <<x>> \o SubSeq(s, at + 1, Len(s))

IsInserted(u, S, s, at, x) ==
    /\ u \in Seq(S \union {x}) /\ Len(u) = Len(s) + 1 /\ u[at + 1] = x
    /\ \A i \in 1..at : u[i] = s[i]
    /\ \A i \in (at + 2)..(Len(s) + 1) : u[i] = s[i - 1]

LEMMA Inserted ==
  ASSUME NEW S, NEW s \in Seq(S), NEW at \in Nat, at <= Len(s), NEW x,
         NEW u, Inserts(u, s, at, x)
  PROVE  IsInserted(u, S, s, at, x)
<1>. DEFINE W == S \union {x}
            n == Len(s)
            a == SubSeq(s, 1, at)
            b == SubSeq(s, at + 1, n)
            ab == a \o <<x>>
            w == ab \o b
<1>0. u = w
  BY DEF Inserts
<1>1. s \in Seq(W) /\ x \in W /\ n \in Nat
  BY SeqMonotonic
<1>2. \A k \in 1..n : s[k] \in W
  BY <1>1
<1>. HIDE DEF W
<1>3. a \in Seq(W) /\ Len(a) = at /\ \A i \in 1..at : a[i] = s[i]
  BY <1>1, <1>2, SubSeqProperties
<1>4. b \in Seq(W) /\ Len(b) = n - at /\ \A i \in 1..(n - at) : b[i] = s[at + i]
  <2>. DEFINE c == at + 1
  <2>1. c \in Int /\ n \in Int /\ c <= n + 1 /\ \A k \in c..n : s[k] \in W
    BY <1>1, <1>2
  <2>. HIDE DEF c, n
  <2>2. /\ SubSeq(s, c, n) \in Seq(W) /\ Len(SubSeq(s, c, n)) = (IF c <= n THEN n - c + 1 ELSE 0)
        /\ \A i \in 1..(n - c + 1) : SubSeq(s, c, n)[i] = s[c + i - 1]
    BY <2>1, SubSeqProperties
  <2>3. n - c + 1 = n - at /\ (IF c <= n THEN n - c + 1 ELSE 0) = n - at /\ \A i \in Nat : c + i - 1 = at + i
    BY <1>1, <2>1 DEF c, n
  <2>4. b = SubSeq(s, c, n)
    BY DEF b, c
  <2>5. b \in Seq(W) /\ Len(b) = n - at /\ \A i \in 1..(n - at) : b[i] = s[c + i - 1]
    BY <2>2, <2>3, <2>4, Zenon
  <2>6. \A i \in 1..(n - at) : c + i - 1 = at + i
    BY <2>3
  <2>. QED  BY <2>5, <2>6
<1>. HIDE DEF a, b, n
<1>5. ab \in Seq(W) /\ Len(ab) = at + 1 /\ ab[at + 1] = x /\ \A i \in 1..at : ab[i] = a[i]
  <2>1. <<x>> \in Seq(W) /\ Len(<<x>>) = 1 /\ <<x>>[1] = x
    BY <1>1
  <2>2. /\ ab \in Seq(W) /\ Len(ab) = at + 1
        /\ \A i \in 1..(at + 1) : ab[i] = IF i <= at THEN a[i] ELSE <<x>>[i - at]
    BY <1>3, <2>1, ConcatProperties
  <2>. HIDE DEF ab
  <2>3. at + 1 \in 1..(at + 1) /\ ~(at + 1 <= at) /\ (at + 1) - at = 1
    OBVIOUS
  <2>. QED  BY <2>1, <2>2, <2>3
<1>. HIDE DEF ab
<1>6. /\ u \in Seq(W) /\ Len(u) = at + 1 + (n - at)
      /\ \A i \in 1..(at + 1 + (n - at)) : u[i] = IF i <= at + 1 THEN ab[i] ELSE b[i - (at + 1)]
  <2>1. /\ w \in Seq(W) /\ Len(w) = Len(ab) + Len(b)
        /\ \A i \in 1..(Len(ab) + Len(b)) : w[i] = IF i <= Len(ab) THEN ab[i] ELSE b[i - Len(ab)]
    BY <1>4, <1>5, ConcatProperties, Zenon
  <2>2. Len(ab) = at + 1 /\ Len(b) = n - at
    BY <1>4, <1>5
  <2>. HIDE DEF w
  <2>. QED  BY <1>0, <2>1, <2>2
<1>. HIDE DEF w
<1>7. at + 1 + (n - at) = n + 1 /\ at <= n
  BY <1>1 DEF n
<1>8. u[at + 1] = x /\ \A i \in 1..at : u[i] = s[i]
  <2>1. at + 1 \in 1..(at + 1 + (n - at)) /\ \A i \in 1..at : i \in 1..(at + 1 + (n - at)) /\ i <= at + 1
    BY <1>1, <1>7
  <2>. QED  BY <1>3, <1>5, <1>6, <2>1
<1>9. ASSUME NEW i \in (at + 2)..(n + 1) PROVE u[i] = s[i - 1]
  <2>1. i \in 1..(n + 1) /\ ~(i <= at + 1) /\ i - (at + 1) \in 1..(n - at) /\ at + (i - (at + 1)) = i - 1
    BY <1>1, <1>7
  <2>. QED  BY <1>4, <1>6, <1>7, <2>1
<1>. QED  BY <1>6, <1>7, <1>8, <1>9 DEF n, W, IsInserted

\* All of s, sorted.
Listed(seq, s, key) ==
    /\ seq \in Seq(s)
    /\ \A x \in s : \E i \in 1..Len(seq) : seq[i] = x
    /\ \A i, j \in 1..Len(seq) : i <= j => key[seq[i]] <= key[seq[j]]

LEMMA PlacedIsListed ==
  ASSUME NEW S, NEW key \in [S -> Int], NEW s \in SUBSET S, NEW x \in S,
         NEW seq, Listed(seq, s, key)
  PROVE  Listed(Placed(seq, x, key), s \union {x}, key)
<1>. DEFINE n == Len(seq)
            P == {i \in DOMAIN seq : key[seq[i]] < key[x]}
            m == Cardinality(P)
            u == Placed(seq, x, key)
<1>1. seq \in Seq(s) /\ n \in Nat /\ DOMAIN seq = 1..n /\ \A i \in 1..n : seq[i] \in s
  BY DEF Listed
<1>2. key[x] \in Int /\ \A i \in 1..n : key[seq[i]] \in Int
  BY <1>1
<1>3. \A i, j \in 1..n : i <= j => key[seq[i]] <= key[seq[j]]
  BY DEF Listed
<1>. HIDE DEF n
<1>4. P = 1..m /\ m \in Nat /\ m <= n
  <2>1. P \subseteq 1..n
    BY <1>1
  <2>2. \A i \in P, j \in 1..n : j <= i => j \in P
    <3>. SUFFICES ASSUME NEW i \in P, NEW j \in 1..n, j <= i PROVE j \in P
      OBVIOUS
    <3>1. i \in 1..n /\ key[seq[i]] < key[x]
      BY <1>1
    <3>2. key[seq[j]] <= key[seq[i]]
      BY <1>1, <1>3, <3>1
    <3>3. key[seq[j]] < key[x]
      BY <1>2, <3>1, <3>2
    <3>. QED  BY <1>1, <3>3
  <2>. HIDE DEF P
  <2>. QED  BY <1>1, <2>1, <2>2, FirstSoMany, CountUpTo, Zenon
<1>5. Inserts(u, seq, m, x)
  <2>1. u = Fade!InsertAt(seq, 1 + m, x)
    BY CountIs DEF Placed
  <2>. HIDE DEF u, m
  <2>2. (1 + m) - 1 = m /\ 1 + m = m + 1
    BY <1>4
  <2>. QED  BY <2>1, <2>2, Zenon DEF Fade!InsertAt, Inserts, n
<1>6. /\ \A i \in 1..m : key[seq[i]] < key[x]
      /\ \A i \in 1..n : i > m => key[x] <= key[seq[i]]
  <2>1. \A i \in 1..n : i \in P <=> i <= m
    <3>. HIDE DEF P, m
    <3>. QED  BY <1>1, <1>4
  <2>2. \A i \in 1..n : i \in P <=> key[seq[i]] < key[x]
    BY <1>1
  <2>. HIDE DEF P, m
  <2>3. \A i \in 1..n : i <= m <=> key[seq[i]] < key[x]
    BY <2>1, <2>2
  <2>4. \A i \in 1..m : i \in 1..n /\ i <= m
    BY <1>1, <1>4
  <2>5. ASSUME NEW i \in 1..n, i > m PROVE key[x] <= key[seq[i]]
    <3>1. ~(key[seq[i]] < key[x])
      BY <1>4, <2>3, <2>5
    <3>. QED  BY <1>2, <3>1
  <2>. QED  BY <2>3, <2>4, <2>5
<1>. HIDE DEF P, m, u
<1>7. /\ u \in Seq(s \union {x}) /\ Len(u) = n + 1 /\ u[m + 1] = x
      /\ \A i \in 1..m : u[i] = seq[i]
      /\ \A i \in (m + 2)..(n + 1) : u[i] = seq[i - 1]
  <2>1. m <= Len(seq)
    BY <1>4 DEF n
  <2>2. IsInserted(u, s, seq, m, x)
    BY <1>1, <1>4, <1>5, <2>1, Inserted
  <2>. QED  BY <2>2 DEF n, IsInserted
<1>8. ASSUME NEW y \in s \union {x} PROVE \E i \in 1..Len(u) : u[i] = y
  <2>1. CASE y = x
    BY <1>1, <1>4, <1>7, <2>1
  <2>2. CASE y \in s
    <3>1. PICK i \in 1..n : seq[i] = y
      BY <2>2 DEF Listed, n
    <3>2. CASE i <= m
      BY <1>1, <1>4, <1>7, <3>1, <3>2
    <3>3. CASE i > m
      <4>1. i + 1 \in (m + 2)..(n + 1) /\ (i + 1) - 1 = i
        BY <1>1, <1>4, <3>3
      <4>2. i + 1 \in 1..Len(u) /\ u[i + 1] = seq[i]
        BY <1>1, <1>4, <1>7, <4>1
      <4>. QED  BY <3>1, <4>2
    <3>. QED  BY <1>1, <1>4, <3>2, <3>3
  <2>. QED  BY <2>1, <2>2
\* Where an element of u comes from.
<1>9. ASSUME NEW i \in 1..(n + 1)
      PROVE  \/ i <= m /\ i \in 1..n /\ u[i] = seq[i]
             \/ i = m + 1 /\ u[i] = x
             \/ i > m + 1 /\ i - 1 \in 1..n /\ i - 1 > m /\ u[i] = seq[i - 1]
  <2>1. CASE i <= m
    BY <1>1, <1>4, <1>7, <2>1
  <2>2. CASE i = m + 1
    BY <1>7, <2>2
  <2>3. CASE i > m + 1
    <3>1. i \in (m + 2)..(n + 1) /\ i - 1 \in 1..n /\ i - 1 > m
      BY <1>1, <1>4, <2>3
    <3>. QED  BY <1>7, <2>3, <3>1
  <2>. QED  BY <1>4, <2>1, <2>2, <2>3
<1>10. ASSUME NEW i \in 1..(n + 1), NEW j \in 1..(n + 1), i <= j PROVE key[u[i]] <= key[u[j]]
  <2>1. CASE i = j
    <3>1. key[u[i]] \in Int
      BY <1>2, <1>9
    <3>. QED  BY <2>1, <3>1
  <2>2. CASE i < j /\ i <= m
    <3>1. i \in 1..m /\ i \in 1..n /\ u[i] = seq[i] /\ key[u[i]] < key[x] /\ key[u[i]] \in Int
      BY <1>2, <1>4, <1>6, <1>9, <2>2
    <3>2. CASE j <= m
      BY <1>3, <1>4, <1>9, <1>10, <3>1, <3>2
    <3>3. CASE j = m + 1
      BY <1>2, <1>7, <3>1, <3>3
    <3>4. CASE j > m + 1
      <4>1. j - 1 \in 1..n /\ u[j] = seq[j - 1] /\ key[x] <= key[u[j]] /\ key[u[j]] \in Int
        BY <1>2, <1>4, <1>6, <1>9, <3>4
      <4>. QED  BY <1>2, <3>1, <4>1
    <3>. QED  BY <1>4, <3>2, <3>3, <3>4
  <2>3. CASE i < j /\ i = m + 1
    <3>1. j - 1 \in 1..n /\ j - 1 > m /\ u[j] = seq[j - 1]
      BY <1>4, <1>9, <2>3
    <3>. QED  BY <1>6, <1>7, <2>3, <3>1
  <2>4. CASE i < j /\ i > m + 1
    <3>1. i - 1 \in 1..n /\ j - 1 \in 1..n /\ i - 1 <= j - 1 /\ u[i] = seq[i - 1] /\ u[j] = seq[j - 1]
      BY <1>4, <1>9, <2>4
    <3>. QED  BY <1>3, <3>1
  <2>. QED  BY <1>4, <1>10, <2>1, <2>2, <2>3, <2>4
<1>. QED  BY <1>7, <1>8, <1>10, Zenon DEF Listed, u

\* The list itself exists: a fold whose value, at each subset, is a sequence.
LEMMA PlacesExist ==
  ASSUME NEW S, IsFiniteSet(S), NEW key \in [S -> Int]
  PROVE  \E a : Places(a, S, key)
<1>. DEFINE V == Seq(S)
            step == [w \in S \X V |-> Placed(w[2], w[1], key)]
<1>1. ASSUME NEW x \in S, NEW seq \in V PROVE Placed(seq, x, key) \in V
  <2>. DEFINE P == {i \in DOMAIN seq : key[seq[i]] < key[x]}
              m == Cardinality(P)
              u == Placed(seq, x, key)
  <2>1. DOMAIN seq = 1..Len(seq) /\ Len(seq) \in Nat
    OBVIOUS
  <2>2. m \in Nat /\ m <= Len(seq)
    <3>1. P \subseteq 1..Len(seq)
      BY <2>1
    <3>. HIDE DEF P
    <3>. QED  BY <2>1, <3>1, CountUpTo, Zenon
  <2>3. Inserts(u, seq, m, x)
    <3>1. u = Fade!InsertAt(seq, 1 + m, x)
      BY CountIs DEF Placed
    <3>. HIDE DEF u, m
    <3>2. (1 + m) - 1 = m /\ 1 + m = m + 1
      BY <2>2
    <3>. QED  BY <3>1, <3>2, Zenon DEF Fade!InsertAt, Inserts
  <2>. HIDE DEF P, m, u
  <2>4. IsInserted(u, S, seq, m, x)
    BY <2>2, <2>3, Inserted
  <2>5. S \union {x} = S
    OBVIOUS
  <2>. QED  BY <2>4, <2>5 DEF IsInserted, u
<1>2. step \in [S \X V -> V]
  BY <1>1
<1>3. <<>> \in V
  OBVIOUS
<1>4. PICK a : Folded(a, S, <<>>, step, V)
  <2>. HIDE DEF step, V
  <2>. QED  BY <1>2, <1>3, FoldExists, Zenon
<1>5. \A s \in SUBSET S : s # {} => step[Some(s), a[Rest(s)]] = Placed(a[Rest(s)], Some(s), key)
  <2>. SUFFICES ASSUME NEW s \in SUBSET S, s # {}
                PROVE  step[Some(s), a[Rest(s)]] = Placed(a[Rest(s)], Some(s), key)
    BY Zenon
  <2>1. Some(s) \in S /\ Rest(s) \in SUBSET S
    BY RestIsSmaller
  <2>2. a[Rest(s)] \in V
    BY <1>4, <2>1, Zenon DEF Folded
  <2>. HIDE DEF V
  <2>3. <<Some(s), a[Rest(s)]>> \in S \X V
    BY <2>1, <2>2
  <2>. QED  BY <2>3, Zenon
<1>6. \A s \in SUBSET S : a[s] = IF s = {} THEN <<>> ELSE Placed(a[Rest(s)], Some(s), key)
  <2>. HIDE DEF step, V
  <2>. QED  BY <1>4, <1>5, Zenon DEF Folded
<1>7. a \in [SUBSET S -> V]
  BY <1>4, Zenon DEF Folded
<1>8. Places(a, S, key)
  <2>. HIDE DEF V
  <2>. QED  BY <1>6, <1>7 DEF Places
<1>. QED  BY <1>8

LEMMA InOrderIs ==
  ASSUME NEW S, IsFiniteSet(S), NEW key \in [S -> Int]
  PROVE  Listed(Fade!InOrder(S, key), S, key)
<1>. DEFINE a == CHOOSE b : Places(b, S, key)
            T == {s \in SUBSET S : ~Listed(a[s], s, key)}
<1>1. Places(a, S, key)
  BY PlacesExist
<1>2. Fade!InOrder(S, key) = a[S]
  BY InOrderUnfolds
<1>. HIDE DEF a
<1>3. \A s \in SUBSET S : a[s] = IF s = {} THEN <<>> ELSE Placed(a[Rest(s)], Some(s), key)
  BY <1>1, Zenon DEF Places
<1>4. T = {}
  <2>. SUFFICES ASSUME T # {} PROVE FALSE
    OBVIOUS
  <2>1. PICK s \in T : \A r \in SUBSET s : r # s => r \notin T
    <3>. HIDE DEF T
    <3>1. T \subseteq SUBSET S
      BY DEF T
    <3>. QED  BY <3>1, SmallestSet
  <2>2. s \in SUBSET S /\ ~Listed(a[s], s, key)
    OBVIOUS
  <2>3. CASE s = {}
    <3>1. a[s] = <<>>
      BY <1>3, <2>2, <2>3, Zenon
    <3>2. Listed(<<>>, {}, key)
      BY DEF Listed
    <3>. QED  BY <2>2, <2>3, <3>1, <3>2
  <2>4. CASE s # {}
    <3>1. Some(s) \in s /\ Rest(s) \in SUBSET S /\ Rest(s) \in SUBSET s /\ Rest(s) # s
      BY <2>2, <2>4, RestIsSmaller
    <3>2. Listed(a[Rest(s)], Rest(s), key)
      BY <2>1, <3>1
    <3>3. Listed(Placed(a[Rest(s)], Some(s), key), Rest(s) \union {Some(s)}, key)
      BY <2>2, <3>1, <3>2, PlacedIsListed
    <3>4. Rest(s) \union {Some(s)} = s
      BY <3>1 DEF Rest
    <3>5. a[s] = Placed(a[Rest(s)], Some(s), key)
      BY <1>3, <2>2, <2>4
    <3>. QED  BY <2>2, <3>3, <3>4, <3>5
  <2>. QED  BY <2>3, <2>4
<1>. QED  BY <1>2, <1>4

\* Sums: of what f gives the elements of S.
Adds(a, f, S) == a = [s \in SUBSET S |-> IF s = {} THEN 0 ELSE f[Some(s)] + a[Rest(s)]]

LEMMA SumExists ==
  ASSUME NEW S, IsFiniteSet(S), NEW f \in [S -> Int]
  PROVE  \E a : Adds(a, f, S)
<1>. DEFINE step == [w \in S \X Int |-> f[w[1]] + w[2]]
<1>1. step \in [S \X Int -> Int] /\ 0 \in Int
  OBVIOUS
<1>2. PICK a : Folded(a, S, 0, step, Int)
  <2>. HIDE DEF step
  <2>. QED  BY <1>1, FoldExists, Zenon
<1>3. ASSUME NEW s \in SUBSET S, s # {}
      PROVE  step[Some(s), a[Rest(s)]] = f[Some(s)] + a[Rest(s)]
  <2>1. Some(s) \in S /\ Rest(s) \in SUBSET S
    BY <1>3, RestIsSmaller
  <2>2. a[Rest(s)] \in Int
    BY <1>2, <2>1, Zenon DEF Folded
  <2>3. <<Some(s), a[Rest(s)]>> \in S \X Int
    BY <2>1, <2>2
  <2>. QED  BY <2>3, Zenon
<1>4. a \in [SUBSET S -> Int] /\ \A s \in SUBSET S : a[s] = IF s = {} THEN 0 ELSE f[Some(s)] + a[Rest(s)]
  <2>. HIDE DEF step
  <2>. QED  BY <1>2, <1>3, Zenon DEF Folded
<1>. QED  BY <1>4 DEF Adds

LEMMA SumIs ==
  ASSUME NEW S, IsFiniteSet(S), NEW f \in [S -> Int], NEW a, Adds(a, f, S)
  PROVE  /\ a[S] \in Int
         /\ S # {} /\ (\A x \in S : f[x] > 0) => a[S] > 0
<1>. DEFINE Fine(s) == a[s] \in Int /\ ((\A x \in S : f[x] > 0) => a[s] >= 0 /\ (s # {} => a[s] > 0))
            T == {s \in SUBSET S : ~Fine(s)}
<1>1. \A s \in SUBSET S : a[s] = IF s = {} THEN 0 ELSE f[Some(s)] + a[Rest(s)]
  BY DEF Adds
<1>2. T = {}
  <2>. SUFFICES ASSUME T # {} PROVE FALSE
    OBVIOUS
  <2>1. PICK s \in T : \A r \in SUBSET s : r # s => r \notin T
    <3>. HIDE DEF T
    <3>1. T \subseteq SUBSET S
      BY DEF T
    <3>. QED  BY <3>1, SmallestSet
  <2>2. s \in SUBSET S /\ ~Fine(s)
    OBVIOUS
  <2>3. CASE s = {}
    <3>1. a[s] = 0
      BY <1>1, <2>2, <2>3
    <3>2. Fine(s)
      BY <2>3, <3>1
    <3>. QED  BY <2>2, <3>2
  <2>4. CASE s # {}
    <3>1. Some(s) \in S /\ Rest(s) \in SUBSET S /\ Rest(s) \in SUBSET s /\ Rest(s) # s
      BY <2>2, <2>4, RestIsSmaller
    <3>2. Fine(Rest(s))
      <4>. HIDE DEF Fine
      <4>. QED  BY <2>1, <3>1
    <3>3. a[s] = f[Some(s)] + a[Rest(s)] /\ f[Some(s)] \in Int
      BY <1>1, <2>2, <2>4, <3>1
    <3>. QED  BY <2>2, <3>1, <3>2, <3>3
  <2>. QED  BY <2>3, <2>4
<1>3. Fine(S)
  <2>. HIDE DEF Fine
  <2>. QED  BY <1>2
<1>. QED  BY <1>3

\* A zone's sums, unfolded.
WeightsAdd(a, ps) ==
    a = [s \in SUBSET DOMAIN ps |-> IF s = {} THEN 0 ELSE ps[Some(s)].weight + a[Rest(s)]]

PricesAdd(a, ps) ==
    a = [s \in SUBSET DOMAIN ps |->
           IF s = {} THEN 0 ELSE ps[Some(s)].price * ps[Some(s)].weight + a[Rest(s)]]

LEMMA ZoneUnfolds ==
  ASSUME NEW ps
  PROVE  LET weights == (CHOOSE a : WeightsAdd(a, ps))[DOMAIN ps]
             prices == (CHOOSE a : PricesAdd(a, ps))[DOMAIN ps]
         IN  Fade!ZoneOf(ps) = [price |-> prices \div weights, strength |-> weights]
  BY DEF Fade!ZoneOf, Fade!SumOf, Fade!FoldSeq, Fade!FoldFunction, Fade!FoldFunctionOnSet, Fade!MapThenFoldSet,
         WeightsAdd, PricesAdd, Some, Rest

IsPoint(p) == p.price \in Int /\ p.weight \in Int /\ p.weight > 0

LEMMA Quotient ==
  ASSUME NEW a \in Int, NEW b \in Int, b > 0
  PROVE  a \div b \in Int /\ a = b * (a \div b) + (a % b) /\ a % b \in Int /\ 0 <= a % b /\ a % b < b
  BY Z3

\* The weighted mean of levels is a whole number of units.
LEMMA ZonePriceIsInt ==
  ASSUME NEW P, NEW ps \in Seq(P), \A p \in P : IsPoint(p), Len(ps) > 0
  PROVE  Fade!ZoneOf(ps).price \in Int
<1>. DEFINE D == DOMAIN ps
            f == [i \in D |-> ps[i].weight]
            g == [i \in D |-> ps[i].price * ps[i].weight]
            b == CHOOSE a : WeightsAdd(a, ps)
            c == CHOOSE a : PricesAdd(a, ps)
<1>1. D = 1..Len(ps) /\ Len(ps) \in Nat
  OBVIOUS
<1>2. IsFiniteSet(D) /\ D # {}
  <2>. DEFINE k == 1
              n == Len(ps)
  <2>1. k \in Int /\ n \in Int /\ D = k..n
    BY <1>1
  <2>2. 1 \in D
    BY <1>1
  <2>. HIDE DEF k, n
  <2>3. IsFiniteSet(k..n)
    BY <2>1, FS_Interval
  <2>. QED  BY <2>1, <2>2, <2>3
<1>3. \A i \in D : IsPoint(ps[i])
  BY <1>1
<1>. HIDE DEF D
<1>4. f \in [D -> Int] /\ \A i \in D : f[i] > 0
  BY <1>3 DEF IsPoint
<1>5. g \in [D -> Int]
  BY <1>3 DEF IsPoint
<1>6. \A a : WeightsAdd(a, ps) <=> Adds(a, f, D)
  <2>1. \A s \in SUBSET D : s # {} => f[Some(s)] = ps[Some(s)].weight
    BY DEF Some
  <2>2. ASSUME NEW a
        PROVE  [s \in SUBSET D |-> IF s = {} THEN 0 ELSE ps[Some(s)].weight + a[Rest(s)]]
                 = [s \in SUBSET D |-> IF s = {} THEN 0 ELSE f[Some(s)] + a[Rest(s)]]
    <3>. HIDE DEF f
    <3>. QED  BY <2>1
  <2>. HIDE DEF f
  <2>. QED  BY <2>2 DEF WeightsAdd, Adds, D
<1>7. \A a : PricesAdd(a, ps) <=> Adds(a, g, D)
  <2>1. \A s \in SUBSET D : s # {} => g[Some(s)] = ps[Some(s)].price * ps[Some(s)].weight
    BY DEF Some
  <2>2. ASSUME NEW a
        PROVE  [s \in SUBSET D |-> IF s = {} THEN 0 ELSE ps[Some(s)].price * ps[Some(s)].weight + a[Rest(s)]]
                 = [s \in SUBSET D |-> IF s = {} THEN 0 ELSE g[Some(s)] + a[Rest(s)]]
    <3>. HIDE DEF g
    <3>. QED  BY <2>1
  <2>. HIDE DEF g
  <2>. QED  BY <2>2 DEF PricesAdd, Adds, D
<1>. HIDE DEF f, g
<1>8. b[D] \in Int /\ b[D] > 0
  <2>1. WeightsAdd(b, ps)
    BY <1>2, <1>4, <1>6, SumExists
  <2>. HIDE DEF b
  <2>. QED  BY <1>2, <1>4, <1>6, <2>1, SumIs
<1>9. c[D] \in Int
  <2>1. PricesAdd(c, ps)
    BY <1>2, <1>5, <1>7, SumExists
  <2>. HIDE DEF c
  <2>. QED  BY <1>2, <1>5, <1>7, <2>1, SumIs
<1>10. Fade!ZoneOf(ps) = [price |-> c[D] \div b[D], strength |-> b[D]]
  BY ZoneUnfolds, Zenon DEF D
<1>. HIDE DEF b, c
<1>. QED  BY <1>8, <1>9, <1>10, Quotient

LEMMA ImageIsFinite ==
  ASSUME NEW S, IsFiniteSet(S), NEW f
  PROVE  IsFiniteSet({f[x] : x \in S})
<1>. DEFINE T == {f[x] : x \in S}
            g == [x \in S |-> f[x]]
<1>1. g \in Surjection(S, T)
  BY DEF Surjection
<1>. HIDE DEF g, T
<1>2. IsFiniteSet(T)
  BY <1>1, FS_Surjection
<1>. QED  BY <1>2 DEF T

\* The zones of a ladder: so many, each at a whole number of units.
ZonesOK(zones) == IsFiniteSet(zones) /\ \A z \in zones : z.price \in Int

LEMMA ClusteredZones ==
  ASSUME NEW points, IsFiniteSet(points), \A p \in points : IsPoint(p), NEW tol
  PROVE  ZonesOK(Fade!ClusterZones(points, tol))
<1>. DEFINE P == {p \in points : p.price > 0}
            key == [p \in P |-> p.price]
            ps == Fade!ByPrice(P)
            n == Len(ps)
            breaks == Fade!Breaks(ps, tol)
            end(i) == Fade!EndOf(i, breaks, n)
            z == [i \in breaks |-> Fade!ZoneOf(SubSeq(ps, i, end(i)))]
<1>1. IsFiniteSet(P) /\ \A p \in P : IsPoint(p)
  BY FS_Subset
<1>2. key \in [P -> Int]
  BY <1>1 DEF IsPoint
<1>3. ps = Fade!InOrder(P, key)
  BY DEF Fade!ByPrice
<1>. HIDE DEF P, key, ps
<1>4. ps \in Seq(P)
  BY <1>1, <1>2, <1>3, InOrderIs DEF Listed
<1>5. n \in Nat /\ DOMAIN ps = 1..n /\ \A i \in 1..n : ps[i] \in P
  BY <1>4
<1>. HIDE DEF n
<1>6. breaks \subseteq 1..n
  BY <1>5 DEF Fade!Breaks
<1>. HIDE DEF breaks
<1>7. ASSUME NEW i \in breaks PROVE end(i) \in Int /\ i <= end(i) /\ end(i) <= n
  <2>. DEFINE later == {j \in breaks : j > i}
  <2>1. i \in Nat /\ i <= n
    BY <1>5, <1>6
  <2>2. CASE later = {}
    BY <1>5, <2>1, <2>2 DEF Fade!EndOf
  <2>3. CASE later # {}
    <3>. DEFINE j == CHOOSE m \in later : \A k \in later : m <= k
    <3>1. later \subseteq Nat
      <4>1. \A k \in breaks : k \in Nat
        BY <1>5, <1>6
      <4>. QED  BY <4>1
    <3>. HIDE DEF later
    <3>2. j \in later
      BY <2>3, <3>1, SmallestMember, Zenon
    <3>. HIDE DEF j
    <3>3. end(i) = j - 1
      BY <2>3 DEF Fade!EndOf, later, j
    <3>4. j \in 1..n /\ j > i
      BY <1>6, <3>2 DEF later
    <3>. HIDE DEF end
    <3>. QED  BY <1>5, <2>1, <3>3, <3>4
  <2>. QED  BY <2>2, <2>3
<1>. HIDE DEF end
<1>8. ASSUME NEW i \in breaks PROVE z[i].price \in Int
  <2>. DEFINE e == end(i)
              sub == SubSeq(ps, i, e)
  <2>1. e \in Int /\ i \in Int /\ i <= e /\ 1 <= i /\ e <= n
    BY <1>5, <1>6, <1>7
  <2>. HIDE DEF e
  <2>2. \A k \in i..e : ps[k] \in P
    BY <1>5, <2>1
  <2>3. sub \in Seq(P) /\ Len(sub) = IF i <= e THEN e - i + 1 ELSE 0
    BY <2>1, <2>2, SubSeqProperties
  <2>4. Len(sub) > 0
    BY <2>1, <2>3
  <2>5. z[i] = Fade!ZoneOf(sub)
    BY DEF e
  <2>. HIDE DEF sub, z
  <2>. QED  BY <1>1, <2>3, <2>4, <2>5, ZonePriceIsInt
<1>9. Fade!ClusterZones(points, tol) = {z[i] : i \in breaks}
  BY DEF Fade!ClusterZones, end, breaks, n, ps, P
<1>. HIDE DEF z
<1>10. IsFiniteSet(breaks)
  <2>. DEFINE k == 1
  <2>1. k \in Int /\ n \in Int /\ breaks \subseteq k..n
    BY <1>5, <1>6
  <2>. HIDE DEF k
  <2>. QED  BY <2>1, FS_Interval, FS_Subset, Zenon
<1>. QED  BY <1>8, <1>9, <1>10, ImageIsFinite DEF ZonesOK

LEMMA ElevenAreFinite ==
  ASSUME NEW a, NEW b, NEW c, NEW d, NEW e, NEW f, NEW g, NEW h, NEW i, NEW j, NEW k
  PROVE  IsFiniteSet({a, b, c, d, e, f, g, h, i, j, k})
<1>. DEFINE x == <<a, b, c, d, e, f, g, h, i, j, k>>
            l == 1
            n == 11
<1>1. {a, b, c, d, e, f, g, h, i, j, k} = {x[m] : m \in l..n}
  OBVIOUS
<1>2. l \in Int /\ n \in Int
  OBVIOUS
<1>. HIDE DEF x, l, n
<1>3. IsFiniteSet(l..n)
  BY <1>2, FS_Interval
<1>4. IsFiniteSet({x[m] : m \in l..n})
  BY <1>3, ImageIsFinite, Zenon
<1>. QED  BY <1>1, <1>4

LEMMA LadderIsPoints ==
  ASSUME NEW period \in Int \X Int \X Int, NEW tf \in {"d", "w"}
  PROVE  IsFiniteSet(Fade!LadderOf(period, tf)) /\ \A p \in Fade!LadderOf(period, tf) : IsPoint(p)
<1>. DEFINE levels == Fade!ClassicPivots(period[1], period[2], period[3])
            names == {x \in DOMAIN levels : levels[x] > 0}
            point == [name \in names |-> [price |-> levels[name] \div 6, tf |-> tf, name |-> name,
                                          weight |-> Fade!Weight[tf]]]
<1>1. period[1] \in Int /\ period[2] \in Int /\ period[3] \in Int
  OBVIOUS
<1>2. /\ DOMAIN levels = {"pivot", "r1", "s1", "r2", "s2", "r3", "s3", "r4", "s4", "tc", "bc"}
      /\ \A x \in DOMAIN levels : levels[x] \in Int
  BY <1>1 DEF Fade!ClassicPivots
<1>. HIDE DEF levels
<1>3. IsFiniteSet(names)
  BY <1>2, ElevenAreFinite, FS_Subset, Zenon
<1>4. Fade!Weight[tf] \in Int /\ Fade!Weight[tf] > 0
  BY DEF Fade!Weight
<1>5. Fade!LadderOf(period, tf) = {point[x] : x \in names}
  BY Zenon DEF Fade!LadderOf, Fade!PivotPoints, levels
<1>6. \A x \in names : IsPoint(point[x])
  <2>1. \A x \in names : levels[x] \div 6 \in Int
    BY <1>2, Quotient
  <2>. QED  BY <1>4, <2>1 DEF IsPoint
<1>. HIDE DEF names, point
<1>. QED  BY <1>3, <1>5, <1>6, ImageIsFinite

LEMMA Times ==
  ASSUME NEW s \in Nat, NEW a \in Int, NEW b \in Int
  PROVE  s * a \in Int /\ (a <= b => s * a <= s * b)
<1>1. s * a \in Int /\ s * b \in Int
  BY Z3
<1>2. s * (b - a) = s * b - s * a
  BY Z3
<1>3. b - a >= 0 => s * (b - a) >= 0
  BY Z3
<1>. QED  BY <1>1, <1>2, <1>3

\* Rounding: to the next multiple, or to the one before.
LEMMA Multiples ==
  ASSUME NEW s \in Nat \ {0}, NEW x \in Int, NEW k \in Int
  PROVE  LET q == x \div s
         IN  /\ q \in Int /\ x % s \in Int /\ x = s * q + (x % s) /\ 0 <= x % s /\ x % s < s
             /\ s * q <= x /\ x < s * (q + 1)
             /\ x <= s * k => IF s * q = x THEN q <= k ELSE q + 1 <= k
             /\ s * k <= x => k <= q
<1>. DEFINE q == x \div s
            r == x % s
<1>1. q \in Int /\ x = s * q + r /\ r \in Int /\ 0 <= r /\ r < s
  BY Quotient
<1>. HIDE DEF q, r
<1>2. s * q \in Int /\ s * k \in Int /\ s * (q + 1) = s * q + s
  <2>1. s * q \in Int /\ s * k \in Int
    BY <1>1, Times
  <2>2. s * (q + 1) = s * q + s
    BY <1>1, Z3
  <2>. QED  BY <2>1, <2>2
<1>3. k <= q => s * k <= s * q
  BY <1>1, Times
<1>4. q + 1 <= k => s * (q + 1) <= s * k
  BY <1>1, Times
<1>5. ASSUME x <= s * k PROVE IF s * q = x THEN q <= k ELSE q + 1 <= k
  <2>1. k < q => s * k <= s * q - s
    <3>1. k + 1 <= q => s * (k + 1) <= s * q
      BY <1>1, Times
    <3>2. s * (k + 1) = s * k + s
      BY Z3
    <3>. QED  BY <1>1, <1>2, <3>1, <3>2
  <2>. QED  BY <1>1, <1>2, <1>3, <1>5, <2>1
<1>6. ASSUME s * k <= x PROVE k <= q
  BY <1>1, <1>2, <1>4, <1>6
<1>7. s * q <= x /\ x < s * (q + 1)
  BY <1>1, <1>2
<1>. QED  BY <1>1, <1>5, <1>6, <1>7 DEF q, r

LEMMA CounterIs == Fade!CounterAssumption
  BY DeskAssumption

LEMMA Tick == TickSize \in Nat /\ TickSize # 0 /\ Rupee \in Nat /\ Rupee # 0
  BY CounterIs DEF Fade!CounterAssumption

\* A close is on a tick, and what is before it is not rounded beyond it.
LEMMA OnTickKeepsOrder ==
  ASSUME NEW x \in Int, NEW y \in Int, x <= y
  PROVE  Fade!OnTick(x) \in Int /\ Fade!OnTick(y) \in Int /\ Fade!OnTick(x) <= Fade!OnTick(y)
<1>. DEFINE s == TickSize
            q(v) == v \div s
            r(v) == v % s
            up(v) == IF 2 * r(v) < s \/ (2 * r(v) = s /\ q(v) % 2 = 0) THEN q(v) ELSE q(v) + 1
<1>1. s \in Nat \ {0}
  BY Tick
<1>2. \A v \in Int : Fade!OnTick(v) = s * up(v)
  BY DEF Fade!OnTick
<1>. HIDE DEF s
<1>3. /\ q(x) \in Int /\ r(x) \in Int /\ x = s * q(x) + r(x) /\ 0 <= r(x) /\ r(x) < s
      /\ q(y) \in Int /\ r(y) \in Int /\ y = s * q(y) + r(y) /\ 0 <= r(y) /\ r(y) < s
  BY <1>1, Multiples
<1>4. q(x) <= q(y)
  <2>1. s * q(x) <= x
    BY <1>1, Multiples
  <2>2. s * q(x) \in Int
    BY <1>1, <1>3, Times
  <2>3. s * q(x) <= y
    BY <2>1, <2>2
  <2>. HIDE DEF q
  <2>4. q(x) <= y \div s
    BY <1>1, <1>3, <2>3, Multiples
  <2>. QED  BY <2>4 DEF q
<1>5. q(x) = q(y) => r(x) <= r(y)
  <2>. HIDE DEF q, r
  <2>1. s * q(x) \in Int
    BY <1>1, <1>3, Times
  <2>. QED  BY <1>3, <2>1
<1>. HIDE DEF q, r
<1>6. up(x) \in Int /\ up(y) \in Int /\ up(x) <= up(y)
  BY <1>1, <1>3, <1>4, <1>5
<1>. HIDE DEF up
<1>7. s * up(x) \in Int /\ s * up(y) \in Int /\ s * up(x) <= s * up(y)
  BY <1>1, <1>6, Times
<1>. QED  BY <1>2, <1>7

LEMMA OnTickOfTick ==
  ASSUME NEW c \in Int, c % TickSize = 0
  PROVE  Fade!OnTick(c) = c
<1>. DEFINE s == TickSize
            q == c \div s
<1>1. s \in Nat \ {0}
  BY Tick
<1>2. q \in Int /\ c = s * q + (c % s)
  BY <1>1, Multiples
<1>3. c % s = 0
  OBVIOUS
<1>4. Fade!OnTick(c) = s * q
  BY <1>1, <1>3 DEF Fade!OnTick
<1>5. s * q \in Int
  BY <1>1, <1>2, Times
<1>. QED  BY <1>2, <1>3, <1>4, <1>5

\* A price's round numbers are finer below a threshold, and the threshold is one of both sides.
Round(t, x) == \E k \in Int : t = Fade!RoundStep(x) * k

LEMMA StepIs ==
  ASSUME NEW x \in Int
  PROVE  Fade!RoundStep(x) \in Nat \ {0}
<1>. QED  BY Tick DEF Fade!RoundStep

LEMMA StepsMeet ==
  ASSUME NEW x \in Int, NEW y \in Int, x <= y, Fade!RoundStep(x) # Fade!RoundStep(y)
  PROVE  \E t \in Int : x < t /\ t <= y /\ Round(t, x) /\ Round(t, y)
<1>. DEFINE c == Rupee
            a(v) == c * (IF v >= 2000 * c THEN 100 ELSE IF v >= 500 * c THEN 50 ELSE IF v >= 100 * c THEN 10 ELSE 1)
<1>1. c \in Nat /\ c # 0
  BY Tick
<1>2. Fade!RoundStep(x) = a(x) /\ Fade!RoundStep(y) = a(y)
  BY DEF Fade!RoundStep
<1>. HIDE DEF c
<1>3. \A v \in Int : \/ v < 100 * c /\ a(v) = c
                     \/ v >= 100 * c /\ v < 500 * c /\ a(v) = 10 * c
                     \/ v >= 500 * c /\ v < 2000 * c /\ a(v) = 50 * c
                     \/ v >= 2000 * c /\ a(v) = 100 * c
  BY <1>1
<1>. HIDE DEF a
<1>4. CASE x < 100 * c /\ y >= 100 * c
  <2>1. 100 * c = a(x) * 100
    BY <1>1, <1>3, <1>4
  <2>2. \/ 100 * c = a(y) * 10 \/ 100 * c = a(y) * 2 \/ 100 * c = a(y) * 1
    BY <1>1, <1>3, <1>4
  <2>3. 100 * c \in Int
    BY <1>1
  <2>. QED  BY <1>2, <1>4, <2>1, <2>2, <2>3 DEF Round
<1>5. CASE x >= 100 * c /\ x < 500 * c /\ y >= 500 * c
  <2>1. 500 * c = a(x) * 50
    BY <1>1, <1>3, <1>5
  <2>2. \/ 500 * c = a(y) * 10 \/ 500 * c = a(y) * 5
    BY <1>1, <1>3, <1>5
  <2>3. 500 * c \in Int
    BY <1>1
  <2>. QED  BY <1>2, <1>5, <2>1, <2>2, <2>3 DEF Round
<1>6. CASE x >= 500 * c /\ x < 2000 * c /\ y >= 2000 * c
  <2>1. 2000 * c = a(x) * 40
    BY <1>1, <1>3, <1>6
  <2>2. 2000 * c = a(y) * 20
    BY <1>1, <1>3, <1>6
  <2>3. 2000 * c \in Int
    BY <1>1
  <2>. QED  BY <1>2, <1>6, <2>1, <2>2, <2>3 DEF Round
<1>. QED  BY <1>1, <1>2, <1>3, <1>4, <1>5, <1>6

\* The next round number at or beyond x, upwards and downwards.
LEMMA OutwardIs ==
  ASSUME NEW x \in Int
  PROVE  /\ Fade!Outward(x, 1) \in Int /\ x <= Fade!Outward(x, 1) /\ Round(Fade!Outward(x, 1), x)
         /\ \A t \in Int : Round(t, x) /\ x <= t => Fade!Outward(x, 1) <= t
         /\ Fade!Outward(x, -1) \in Int /\ Fade!Outward(x, -1) <= x /\ Round(Fade!Outward(x, -1), x)
         /\ \A t \in Int : Round(t, x) /\ t <= x => t <= Fade!Outward(x, -1)
<1>. DEFINE s == Fade!RoundStep(x)
            q == x \div s
            up == IF s * q = x THEN q ELSE q + 1
<1>1. s \in Nat \ {0}
  BY StepIs
<1>2. q \in Int /\ s * q \in Int /\ s * q <= x /\ x < s * (q + 1) /\ q * s = s * q /\ q * s + s = s * (q + 1)
  <2>1. q \in Int /\ s * q <= x /\ x < s * (q + 1)
    BY <1>1, Multiples
  <2>2. s * q \in Int
    BY <1>1, <2>1, Times
  <2>. HIDE DEF s, q
  <2>3. q * s = s * q /\ q * s + s = s * (q + 1)
    BY <1>1, <2>1, Z3
  <2>. QED  BY <2>1, <2>2, <2>3
<1>3. Fade!Outward(x, 1) = IF q * s # x THEN q * s + s ELSE q * s
  BY DEF Fade!Outward
<1>4. Fade!Outward(x, -1) = q * s
  BY DEF Fade!Outward
<1>5. \A k \in Int : /\ x <= s * k => up <= k
                     /\ s * k <= x => k <= q
  BY <1>1, Multiples
<1>6. Fade!Outward(x, 1) = s * up /\ Fade!Outward(x, -1) = s * q
  <2>. HIDE DEF s, q
  <2>. QED  BY <1>2, <1>3, <1>4
<1>7. up \in Int
  <2>. HIDE DEF s, q
  <2>. QED  BY <1>2
<1>8. x <= s * up
  <2>. HIDE DEF s, q
  <2>1. CASE s * q = x
    BY <2>1
  <2>2. CASE s * q # x
    <3>1. up = q + 1
      BY <2>2
    <3>. HIDE DEF up
    <3>2. s * up = s * (q + 1)
      BY <3>1
    <3>3. s * (q + 1) \in Int
      BY <1>1, <1>2
    <3>. QED  BY <1>2, <3>2, <3>3
  <2>. QED  BY <2>1, <2>2
<1>. HIDE DEF q
<1>9. \A t : Round(t, x) <=> \E k \in Int : t = s * k
  BY DEF Round
<1>. HIDE DEF s, up
<1>10. s * up \in Int
  BY <1>1, <1>7, Times
<1>11. ASSUME NEW k \in Int, x <= s * k PROVE s * up <= s * k
  BY <1>1, <1>5, <1>7, <1>11, Times
<1>12. ASSUME NEW k \in Int, s * k <= x PROVE s * k <= s * q
  BY <1>1, <1>2, <1>5, <1>12, Times
<1>. QED  BY <1>2, <1>6, <1>7, <1>8, <1>9, <1>10, <1>11, <1>12

\* Upwards: in order, and no further from the lower than the higher is.
LEMMA OutwardUp ==
  ASSUME NEW x \in Int, NEW y \in Int, x <= y
  PROVE  /\ Fade!Outward(x, 1) <= Fade!Outward(y, 1)
         /\ y < Fade!Outward(x, 1) => Fade!Outward(y, 1) = Fade!Outward(x, 1)
<1>. DEFINE f == Fade!Outward(x, 1)
            g == Fade!Outward(y, 1)
<1>1. f \in Int /\ x <= f /\ Round(f, x) /\ \A t \in Int : Round(t, x) /\ x <= t => f <= t
  BY OutwardIs
<1>2. g \in Int /\ y <= g /\ Round(g, y) /\ \A t \in Int : Round(t, y) /\ y <= t => g <= t
  BY OutwardIs
<1>. HIDE DEF f, g
<1>3. CASE Fade!RoundStep(x) = Fade!RoundStep(y)
  <2>1. Round(g, x) /\ Round(f, y)
    BY <1>1, <1>2, <1>3 DEF Round
  <2>2. f <= g
    BY <1>1, <1>2, <2>1
  <2>3. y < f => g <= f
    BY <1>1, <1>2, <2>1
  <2>. QED  BY <1>1, <1>2, <2>2, <2>3 DEF f, g
<1>4. CASE Fade!RoundStep(x) # Fade!RoundStep(y)
  <2>1. PICK t \in Int : x < t /\ t <= y /\ Round(t, x) /\ Round(t, y)
    BY <1>4, StepsMeet
  <2>2. f <= t
    BY <1>1, <2>1
  <2>. QED  BY <1>1, <1>2, <2>1, <2>2 DEF f, g
<1>. QED  BY <1>3, <1>4

LEMMA OutwardDown ==
  ASSUME NEW x \in Int, NEW y \in Int, x <= y
  PROVE  /\ Fade!Outward(x, -1) <= Fade!Outward(y, -1)
         /\ Fade!Outward(y, -1) < x => Fade!Outward(x, -1) = Fade!Outward(y, -1)
<1>. DEFINE f == Fade!Outward(x, -1)
            g == Fade!Outward(y, -1)
<1>1. f \in Int /\ f <= x /\ Round(f, x) /\ \A t \in Int : Round(t, x) /\ t <= x => t <= f
  BY OutwardIs
<1>2. g \in Int /\ g <= y /\ Round(g, y) /\ \A t \in Int : Round(t, y) /\ t <= y => t <= g
  BY OutwardIs
<1>. HIDE DEF f, g
<1>3. CASE Fade!RoundStep(x) = Fade!RoundStep(y)
  <2>1. Round(g, x) /\ Round(f, y)
    BY <1>1, <1>2, <1>3 DEF Round
  <2>2. f <= g
    BY <1>1, <1>2, <2>1
  <2>3. g < x => g <= f
    BY <1>1, <1>2, <2>1
  <2>. QED  BY <1>1, <1>2, <2>2, <2>3 DEF f, g
<1>4. CASE Fade!RoundStep(x) # Fade!RoundStep(y)
  <2>1. PICK t \in Int : x < t /\ t <= y /\ Round(t, x) /\ Round(t, y)
    BY <1>4, StepsMeet
  <2>2. t <= g
    BY <1>2, <2>1
  <2>. QED  BY <1>1, <1>2, <2>1, <2>2 DEF f, g
<1>. QED  BY <1>3, <1>4

\* A target moves outward, and never past the next one: what is further may move further.
LEMMA SnapUp ==
  ASSUME NEW c \in Int, NEW x \in Int, NEW y \in Int, c < x, x <= y
  PROVE  /\ Fade!Snap(x, 1, c) \in Int /\ Fade!Snap(y, 1, c) \in Int
         /\ x <= Fade!Snap(x, 1, c) /\ Fade!Snap(x, 1, c) <= Fade!Snap(y, 1, c)
<1>. DEFINE f == Fade!Outward(x, 1)
            g == Fade!Outward(y, 1)
<1>1. f \in Int /\ x <= f /\ g \in Int /\ y <= g
  BY OutwardIs
<1>2. f <= g /\ (y < f => g = f)
  BY OutwardUp
<1>3. /\ Fade!Snap(x, 1, c) = IF Fade!Abs(x - c) > 0 /\ 5 * Fade!Abs(f - x) > Fade!Abs(x - c) THEN x ELSE f
      /\ Fade!Snap(y, 1, c) = IF Fade!Abs(y - c) > 0 /\ 5 * Fade!Abs(g - y) > Fade!Abs(y - c) THEN y ELSE g
  BY DEF Fade!Snap
<1>. HIDE DEF f, g
<1>4. Fade!Abs(x - c) = x - c /\ Fade!Abs(f - x) = f - x /\ Fade!Abs(y - c) = y - c /\ Fade!Abs(g - y) = g - y
  BY <1>1 DEF Fade!Abs
<1>. QED  BY <1>1, <1>2, <1>3, <1>4

LEMMA SnapDown ==
  ASSUME NEW c \in Int, NEW x \in Int, NEW y \in Int, y < c, x <= y
  PROVE  /\ Fade!Snap(x, -1, c) \in Int /\ Fade!Snap(y, -1, c) \in Int
         /\ Fade!Snap(y, -1, c) <= y /\ Fade!Snap(x, -1, c) <= Fade!Snap(y, -1, c)
<1>. DEFINE f == Fade!Outward(x, -1)
            g == Fade!Outward(y, -1)
<1>1. f \in Int /\ f <= x /\ g \in Int /\ g <= y
  BY OutwardIs
<1>2. f <= g /\ (g < x => f = g)
  BY OutwardDown
<1>3. /\ Fade!Snap(x, -1, c) = IF Fade!Abs(x - c) > 0 /\ 5 * Fade!Abs(f - x) > Fade!Abs(x - c) THEN x ELSE f
      /\ Fade!Snap(y, -1, c) = IF Fade!Abs(y - c) > 0 /\ 5 * Fade!Abs(g - y) > Fade!Abs(y - c) THEN y ELSE g
  BY DEF Fade!Snap
<1>. HIDE DEF f, g
<1>4. Fade!Abs(x - c) = c - x /\ Fade!Abs(f - x) = x - f /\ Fade!Abs(y - c) = c - y /\ Fade!Abs(g - y) = y - g
  BY <1>1 DEF Fade!Abs
<1>. QED  BY <1>1, <1>2, <1>3, <1>4

\* The nearest come first, and all of them are of the set.
LEMMA NearestIsListed ==
  ASSUME NEW S, ZonesOK(S), NEW c \in Int
  PROVE  LET seq == Fade!NearestFirst(S, c)
         IN  /\ seq \in Seq(S) /\ (S # {} => Len(seq) > 0)
             /\ \A i, j \in 1..Len(seq) : i <= j => Fade!Abs(seq[i].price - c) <= Fade!Abs(seq[j].price - c)
             /\ \A z \in S : Fade!Abs(seq[1].price - c) <= Fade!Abs(z.price - c)
<1>. DEFINE key == [z \in S |-> Fade!Abs(z.price - c)]
            seq == Fade!NearestFirst(S, c)
<1>1. key \in [S -> Int]
  BY DEF ZonesOK, Fade!Abs
<1>2. seq = Fade!InOrder(S, key)
  BY DEF Fade!NearestFirst
<1>3. \A z \in S : key[z] = Fade!Abs(z.price - c)
  OBVIOUS
<1>. HIDE DEF key, seq
<1>4. Listed(seq, S, key)
  BY <1>1, <1>2, InOrderIs DEF ZonesOK
<1>5. seq \in Seq(S) /\ Len(seq) \in Nat /\ \A i \in 1..Len(seq) : seq[i] \in S
  BY <1>4 DEF Listed
<1>6. \A i, j \in 1..Len(seq) : i <= j => key[seq[i]] <= key[seq[j]]
  BY <1>4 DEF Listed
<1>7. ASSUME NEW z \in S
      PROVE  Len(seq) > 0 /\ Fade!Abs(seq[1].price - c) <= Fade!Abs(z.price - c)
  <2>1. PICK i \in 1..Len(seq) : seq[i] = z
    BY <1>4 DEF Listed
  <2>2. 1 \in 1..Len(seq) /\ 1 <= i /\ Len(seq) > 0
    BY <1>5
  <2>3. key[seq[1]] <= key[seq[i]]
    BY <1>6, <2>2
  <2>. QED  BY <1>3, <1>5, <2>1, <2>2, <2>3
<1>. QED  BY <1>3, <1>5, <1>6, <1>7 DEF seq

LEMMA SomeZonesOK ==
  ASSUME NEW zones, ZonesOK(zones), NEW S \in SUBSET zones
  PROVE  ZonesOK(S)
  BY FS_Subset DEF ZonesOK

\* A stop is on its side, or at the close.
LEMMA StopIsBehind ==
  ASSUME NEW zones, ZonesOK(zones), NEW close \in Int, close % TickSize = 0, NEW d \in {1, -1}, NEW atr \in Nat
  PROVE  LET stop == Fade!StopOf(zones, close, d, atr)
         IN  /\ stop \in Int /\ d * (close - stop) >= 0
             /\ d = -1 /\ (\E z \in zones : z.price = close) => stop = close
<1>. DEFINE behind == Fade!Behind(zones, close, d)
            stop == Fade!StopOf(zones, close, d, atr)
            head == Fade!NearestFirst(behind, close)[1]
<1>1. \A z \in behind : z \in zones /\ (d = 1 => z.price < close) /\ (d = -1 => ~(z.price < close))
  BY DEF Fade!Behind
<1>2. \A z \in zones : d = -1 /\ ~(z.price < close) => z \in behind
  BY DEF Fade!Behind
<1>3. stop = IF behind = {} THEN Fade!OnTick(close - d * atr) ELSE Fade!OnTick(head.price)
  BY DEF Fade!StopOf
<1>4. Fade!OnTick(close) = close
  BY OnTickOfTick
<1>. HIDE DEF behind, stop, head
<1>5. CASE behind = {}
  <2>. DEFINE x == close - d * atr
  <2>1. x \in Int /\ (d = 1 => x <= close) /\ (d = -1 => close <= x)
    OBVIOUS
  <2>2. stop = Fade!OnTick(x)
    BY <1>3, <1>5
  <2>. HIDE DEF x
  <2>3. stop \in Int /\ (d = 1 => stop <= close) /\ (d = -1 => close <= stop)
    BY <1>4, <2>1, <2>2, OnTickKeepsOrder
  <2>4. d = -1 => \A z \in zones : z.price # close
    BY <1>2, <1>5
  <2>. QED  BY <2>3, <2>4 DEF stop
<1>6. CASE behind # {}
  <2>1. ZonesOK(behind)
    BY <1>1, SomeZonesOK
  <2>2. head \in behind /\ \A z \in behind : Fade!Abs(head.price - close) <= Fade!Abs(z.price - close)
    <3>. DEFINE seq == Fade!NearestFirst(behind, close)
    <3>1. /\ seq \in Seq(behind) /\ Len(seq) > 0
          /\ \A z \in behind : Fade!Abs(seq[1].price - close) <= Fade!Abs(z.price - close)
      BY <1>6, <2>1, NearestIsListed
    <3>2. head = seq[1]
      BY DEF head
    <3>. HIDE DEF seq
    <3>3. seq[1] \in behind
      BY <3>1
    <3>. QED  BY <3>1, <3>2, <3>3
  <2>3. head.price \in Int /\ (d = 1 => head.price <= close) /\ (d = -1 => close <= head.price)
    BY <1>1, <2>1, <2>2 DEF ZonesOK
  <2>4. stop = Fade!OnTick(head.price)
    BY <1>3, <1>6
  <2>5. stop \in Int /\ (d = 1 => stop <= close) /\ (d = -1 => close <= stop)
    BY <1>4, <2>3, <2>4, OnTickKeepsOrder
  <2>6. ASSUME d = -1, NEW z \in zones, z.price = close PROVE stop = close
    <3>1. z \in behind
      BY <1>2, <2>6
    <3>2. Fade!Abs(head.price - close) <= 0
      BY <2>2, <2>6, <3>1 DEF Fade!Abs
    <3>3. head.price = close
      BY <2>3, <3>2 DEF Fade!Abs
    <3>. QED  BY <1>4, <2>4, <3>3
  <2>. QED  BY <2>5, <2>6 DEF stop
<1>. QED  BY <1>5, <1>6

\* The walls on the way: nearest first, each ahead of the close or at it.
LEMMA WallsAreAhead ==
  ASSUME NEW zones, ZonesOK(zones), NEW close \in Int, NEW d \in {1, -1}
  PROVE  LET walls == Fade!WallsAhead(zones, close, d)
         IN  /\ DOMAIN walls = 1..Len(walls) /\ Len(walls) \in Nat /\ (Len(walls) = 0 => walls = <<>>)
             /\ \A i \in DOMAIN walls : /\ walls[i] \in zones /\ walls[i].price \in Int
                                        /\ (d = 1 => walls[i].price > close) /\ (d = -1 => walls[i].price <= close)
             /\ \A i, j \in DOMAIN walls : i <= j =>
                  Fade!Abs(walls[i].price - close) <= Fade!Abs(walls[j].price - close)
<1>. DEFINE S == {z \in Fade!Ahead(zones, close, d) : Fade!IsWall(z)}
            seq == Fade!NearestFirst(S, close)
            n == IF Len(seq) < Fade!MaxTargets THEN Len(seq) ELSE Fade!MaxTargets
            walls == Fade!WallsAhead(zones, close, d)
<1>1. \A z \in S : /\ z \in zones /\ z.price \in Int
                   /\ (d = 1 => z.price > close) /\ (d = -1 => z.price <= close)
  BY DEF Fade!Ahead, ZonesOK
<1>2. walls = SubSeq(seq, 1, n)
  BY DEF Fade!WallsAhead
<1>. HIDE DEF S
<1>3. ZonesOK(S)
  BY <1>1, SomeZonesOK
<1>4. seq \in Seq(S)
      /\ \A i, j \in 1..Len(seq) : i <= j => Fade!Abs(seq[i].price - close) <= Fade!Abs(seq[j].price - close)
  BY <1>3, NearestIsListed
<1>. HIDE DEF seq, walls
<1>5. Len(seq) \in Nat /\ \A i \in 1..Len(seq) : seq[i] \in S
  BY <1>4
<1>6. n \in Nat /\ n <= Len(seq)
  BY <1>5 DEF Fade!MaxTargets
<1>. HIDE DEF n
<1>7. walls \in Seq(S) /\ Len(walls) = n /\ DOMAIN walls = 1..n /\ \A i \in 1..n : walls[i] = seq[i]
  <2>. DEFINE k == 1
  <2>1. k \in Int /\ n \in Int /\ \A i \in k..n : seq[i] \in S
    BY <1>5, <1>6
  <2>2. walls = SubSeq(seq, k, n)
    BY <1>2
  <2>. HIDE DEF k
  <2>3. walls \in Seq(S) /\ Len(walls) = (IF k <= n THEN n - k + 1 ELSE 0)
        /\ \A i \in 1..(n - k + 1) : walls[i] = seq[k + i - 1]
    BY <2>1, <2>2, SubSeqProperties
  <2>4. Len(walls) = n /\ n - k + 1 = n /\ \A i \in 1..n : k + i - 1 = i
    BY <1>6, <2>3 DEF k
  <2>5. \A i \in 1..n : walls[i] = seq[i]
    BY <2>3, <2>4
  <2>6. DOMAIN walls = 1..n
    BY <2>3, <2>4
  <2>. QED  BY <2>3, <2>4, <2>5, <2>6
<1>8. \A i \in 1..n : i \in 1..Len(seq)
  BY <1>5, <1>6
<1>9. \A i \in 1..n : walls[i] \in S
  BY <1>5, <1>7, <1>8
<1>10. \A i, j \in 1..n : i <= j => Fade!Abs(walls[i].price - close) <= Fade!Abs(walls[j].price - close)
  BY <1>4, <1>7, <1>8
<1>11. Len(walls) = 0 => walls = <<>>
  BY <1>7
<1>. QED  BY <1>1, <1>6, <1>7, <1>9, <1>10, <1>11 DEF walls

\* Targets keep the order of their walls, and none is behind the close.
LEMMA TargetsKeepOrder ==
  ASSUME NEW close \in Int, close % TickSize = 0, NEW d \in {1, -1}, NEW x \in Int, NEW y \in Int,
         d * (x - close) > 0, d * (y - close) > 0, Fade!Abs(x - close) <= Fade!Abs(y - close)
  PROVE  LET a == Fade!OnTick(Fade!Snap(x, d, close))
             b == Fade!OnTick(Fade!Snap(y, d, close))
         IN  a \in Int /\ b \in Int /\ d * (b - a) >= 0 /\ d * (a - close) >= 0
<1>. DEFINE f == Fade!Snap(x, d, close)
            g == Fade!Snap(y, d, close)
            a == Fade!OnTick(f)
            b == Fade!OnTick(g)
<1>1. Fade!OnTick(close) = close
  BY OnTickOfTick
<1>2. CASE d = 1
  <2>1. close < x /\ x <= y
    BY <1>2 DEF Fade!Abs
  <2>2. f \in Int /\ g \in Int /\ close <= f /\ f <= g
    <3>1. f \in Int /\ g \in Int /\ x <= f /\ f <= g
      BY <1>2, <2>1, SnapUp
    <3>. QED  BY <2>1, <3>1
  <2>. HIDE DEF f, g
  <2>3. a \in Int /\ b \in Int /\ a <= b /\ close <= a
    BY <1>1, <2>2, OnTickKeepsOrder
  <2>. HIDE DEF a, b
  <2>4. d * (b - a) >= 0 /\ d * (a - close) >= 0
    BY <1>2, <2>3
  <2>. QED  BY <2>3, <2>4 DEF a, b, f, g
<1>3. CASE d = -1
  <2>1. x < close /\ y <= x
    BY <1>3 DEF Fade!Abs
  <2>2. f \in Int /\ g \in Int /\ f <= close /\ g <= f
    <3>1. f \in Int /\ g \in Int /\ f <= x /\ g <= f
      BY <1>3, <2>1, SnapDown
    <3>. QED  BY <2>1, <3>1
  <2>. HIDE DEF f, g
  <2>3. a \in Int /\ b \in Int /\ b <= a /\ a <= close
    BY <1>1, <2>2, OnTickKeepsOrder
  <2>. HIDE DEF a, b
  <2>4. d * (b - a) >= 0 /\ d * (a - close) >= 0
    BY <1>3, <2>3
  <2>. QED  BY <2>3, <2>4 DEF a, b, f, g
<1>. QED  BY <1>2, <1>3

\* What is graded better than F has a stop behind the close, targets ahead of it and in order.
LEMMA TradableIsSound ==
  ASSUME NEW zones, ZonesOK(zones), NEW close \in Int, close % TickSize = 0, NEW d \in {1, -1}, NEW atr \in Nat,
         Fade!Tradable(Fade!Confluence(zones, close, d, atr))
  PROVE  Fade!Sound(Fade!Confluence(zones, close, d, atr), close, d)
<1>. DEFINE plan == Fade!Confluence(zones, close, d, atr)
            stop == Fade!StopOf(zones, close, d, atr)
            walls == Fade!WallsAhead(zones, close, d)
            targets == [i \in DOMAIN walls |-> Fade!OnTick(Fade!Snap(walls[i].price, d, close))]
            room == Fade!Abs((IF Len(walls) > 1 THEN walls[2].price ELSE targets[1]) - close)
            grade == Fade!Letter(Fade!Abs(targets[1] - close), Fade!Abs(close - stop), walls[1].strength, room, atr)
<1>1. plan = IF stop = close \/ walls = <<>> THEN Fade!Blocked(stop)
             ELSE [stop |-> stop, targets |-> targets, grade |-> grade]
  BY DEF Fade!Confluence
<1>2. DOMAIN targets = DOMAIN walls
      /\ \A i \in DOMAIN walls : targets[i] = Fade!OnTick(Fade!Snap(walls[i].price, d, close))
  OBVIOUS
<1>3. grade # "F" => Fade!Abs(targets[1] - close) * 100 >= 100 * Fade!Abs(close - stop)
  BY DEF Fade!Letter, Fade!AtLeast, Fade!HardFloor
<1>. HIDE DEF plan, targets, grade, stop, walls
<1>4. plan.targets # <<>> /\ plan.grade # "F"
  BY DEF Fade!Tradable, plan
<1>5. ~(stop = close \/ walls = <<>>)
  BY <1>1, <1>4 DEF Fade!Blocked
<1>6. plan = [stop |-> stop, targets |-> targets, grade |-> grade]
  BY <1>1, <1>5
<1>7. stop \in Int /\ d * (close - stop) > 0
      /\ (d = -1 => \A z \in zones : z.price # close)
  <2>1. stop \in Int /\ d * (close - stop) >= 0
        /\ (d = -1 /\ (\E z \in zones : z.price = close) => stop = close)
    BY StopIsBehind DEF stop
  <2>. QED  BY <1>5, <2>1
<1>8. /\ DOMAIN walls = 1..Len(walls) /\ Len(walls) \in Nat /\ (Len(walls) = 0 => walls = <<>>)
      /\ \A i \in DOMAIN walls : /\ walls[i] \in zones /\ walls[i].price \in Int
                                 /\ (d = 1 => walls[i].price > close) /\ (d = -1 => walls[i].price <= close)
      /\ \A i, j \in DOMAIN walls : i <= j => Fade!Abs(walls[i].price - close) <= Fade!Abs(walls[j].price - close)
  BY WallsAreAhead DEF walls
<1>9. 1 \in DOMAIN walls /\ \A i \in DOMAIN walls : 1 <= i
  <2>2. Len(walls) # 0
    BY <1>5, <1>8
  <2>. QED  BY <1>8, <2>2
<1>10. \A i \in DOMAIN walls : d * (walls[i].price - close) > 0
  <2>. SUFFICES ASSUME NEW i \in DOMAIN walls PROVE d * (walls[i].price - close) > 0
    OBVIOUS
  <2>. DEFINE x == walls[i].price
  <2>1. x \in Int /\ (d = 1 => x > close) /\ (d = -1 => x <= close /\ x # close)
    BY <1>7, <1>8
  <2>. HIDE DEF x
  <2>2. d * (x - close) > 0
    BY <2>1
  <2>. QED  BY <2>2 DEF x
<1>11. \A i, j \in DOMAIN walls : i <= j =>
         /\ targets[i] \in Int /\ targets[j] \in Int
         /\ d * (targets[j] - targets[i]) >= 0 /\ d * (targets[i] - close) >= 0
  <2>. SUFFICES ASSUME NEW i \in DOMAIN walls, NEW j \in DOMAIN walls, i <= j
                PROVE  /\ targets[i] \in Int /\ targets[j] \in Int
                       /\ d * (targets[j] - targets[i]) >= 0 /\ d * (targets[i] - close) >= 0
    OBVIOUS
  <2>. DEFINE x == walls[i].price
              y == walls[j].price
              a == Fade!OnTick(Fade!Snap(x, d, close))
              b == Fade!OnTick(Fade!Snap(y, d, close))
  <2>1. x \in Int /\ y \in Int /\ d * (x - close) > 0 /\ d * (y - close) > 0
        /\ Fade!Abs(x - close) <= Fade!Abs(y - close)
    BY <1>8, <1>10
  <2>2. targets[i] = a /\ targets[j] = b
    BY <1>2
  <2>. HIDE DEF x, y
  <2>3. a \in Int /\ b \in Int /\ d * (b - a) >= 0 /\ d * (a - close) >= 0
    BY <2>1, TargetsKeepOrder, Zenon
  <2>. QED  BY <2>2, <2>3
<1>12. Fade!Abs(targets[1] - close) >= Fade!Abs(close - stop)
  <2>1. targets[1] \in Int
    BY <1>9, <1>11
  <2>2. Fade!Abs(targets[1] - close) \in Int /\ Fade!Abs(close - stop) \in Int
    BY <1>7, <2>1 DEF Fade!Abs
  <2>3. Fade!Abs(targets[1] - close) * 100 >= 100 * Fade!Abs(close - stop)
    BY <1>3, <1>4, <1>6
  <2>. QED  BY <2>2, <2>3
<1>13. \A i \in DOMAIN walls : d * (targets[i] - close) > 0
  <2>1. targets[1] \in Int /\ d * (targets[1] - close) >= 0
    BY <1>9, <1>11
  <2>2. targets[1] # close
    <3>1. close # stop
      BY <1>5
    <3>. QED  BY <1>7, <1>12, <2>1, <3>1 DEF Fade!Abs
  <2>3. d * (targets[1] - close) > 0
    BY <2>1, <2>2
  <2>. SUFFICES ASSUME NEW i \in DOMAIN walls PROVE d * (targets[i] - close) > 0
    OBVIOUS
  <2>4. targets[i] \in Int /\ d * (targets[i] - targets[1]) >= 0
    BY <1>9, <1>11
  <2>. QED  BY <2>1, <2>3, <2>4
<1>14. plan.stop = stop /\ plan.targets = targets
  BY <1>6
<1>15. \A i, j \in DOMAIN targets : i <= j => d * (targets[j] - targets[i]) >= 0
  BY <1>2, <1>11
<1>16. Fade!Sound(plan, close, d)
  BY <1>2, <1>7, <1>12, <1>13, <1>14, <1>15 DEF Fade!Sound
<1>. QED  BY <1>16 DEF plan

-----------------------------------------------------------------------------
\* What the fade's arithmetic needs: the trigger's own zones and close, and that both plans
\* were worth trading when they were made.
PlanInv ==
  /\ dir \in {1, -1} /\ ZonesOK(Fade!Zones)
  /\ equity.close \in Int /\ equity.close % TickSize = 0
  /\ Fade!Tradable(Fade!Confluence(Fade!Zones, equity.close, dir, Atr))
  /\ fade # None => /\ fade = Fade!Confluence(Fade!Zones, equity.close, -dir, Atr)
                    /\ Fade!Tradable(fade)

LEMMA PlanInvInit == Fade!Init => PlanInv
<1>. SUFFICES ASSUME Fade!Init PROVE PlanInv
  OBVIOUS
<1>1. dir \in {1, -1} /\ fade = None /\ Fade!Tradable(Fade!Confluence(Fade!Zones, equity.close, dir, Atr))
  BY DEF Fade!Init
<1>2. PICK day \in Dailies, week \in Weeklies, close \in Closes, candle \in Candles, v \in Fade!Volumes :
        equity = Fade!LegOf(day, week, close, candle, v)
  BY DEF Fade!Init
<1>3. /\ day \in Int \X Int \X Int /\ week \in Int \X Int \X Int
      /\ close \in Int /\ close % TickSize = 0
  BY CounterIs DEF Fade!CounterAssumption
<1>4. equity.points = Fade!LadderOf(day, "d") \union Fade!LadderOf(week, "w") /\ equity.close = close
  BY <1>2 DEF Fade!LegOf
<1>5. IsFiniteSet(equity.points) /\ \A p \in equity.points : IsPoint(p)
  <2>1. IsFiniteSet(Fade!LadderOf(day, "d")) /\ \A p \in Fade!LadderOf(day, "d") : IsPoint(p)
    BY <1>3, LadderIsPoints
  <2>2. IsFiniteSet(Fade!LadderOf(week, "w")) /\ \A p \in Fade!LadderOf(week, "w") : IsPoint(p)
    BY <1>3, LadderIsPoints
  <2>. QED  BY <1>4, <2>1, <2>2, FS_Union, Zenon
<1>6. ZonesOK(Fade!Zones)
  BY <1>5, ClusteredZones DEF Fade!Zones
<1>. QED  BY <1>1, <1>3, <1>4, <1>6 DEF PlanInv

LEMMA PlanInvNext == PlanInv /\ [Fade!Next]_(Fade!vars) => PlanInv'
<1>. SUFFICES ASSUME PlanInv, [Fade!Next]_(Fade!vars) PROVE PlanInv'
  OBVIOUS
<1>1. dir' = dir /\ equity' = equity
  BY DEF Fade!Next, Fade!vars, Fade!AskFuture, Fade!TakeRoute, Fade!Fade
<1>2. Fade!Zones' = Fade!Zones
  BY <1>1 DEF Fade!Zones
<1>3. \/ fade' = fade
      \/ LET plan == Fade!Confluence(Fade!Zones, equity.close, -dir, Atr)
         IN  fade' = IF Fade!Tradable(plan) THEN plan ELSE None
  BY DEF Fade!Next, Fade!vars, Fade!AskFuture, Fade!TakeRoute, Fade!Fade
<1>. QED  BY <1>1, <1>2, <1>3 DEF PlanInv

\* A signal and its fade are plans one can trade, for any period's high, low and close, any width
\* of the zones and any ATR: the stop is behind the close, the targets ahead of it and in order
\* although each is rounded by itself, and the first is worth the risk (compute_confluence,
\* cluster_zones, round_figure_snap).
THEOREM PlansAreSoundHolds == Fade!Spec => []PlansAreSound
<1>1. PlanInv => PlansAreSound
  <2>. SUFFICES ASSUME PlanInv PROVE Fade!PlansAreSound
    BY DEF PlansAreSound
  <2>. DEFINE zones == Fade!Zones
              close == equity.close
  <2>1. /\ dir \in {1, -1} /\ -dir \in {1, -1} /\ ZonesOK(zones) /\ close \in Int /\ close % TickSize = 0
        /\ Fade!Tradable(Fade!Confluence(zones, close, dir, Atr))
        /\ fade # None => fade = Fade!Confluence(zones, close, -dir, Atr) /\ Fade!Tradable(fade)
    BY DEF PlanInv
  <2>2. Atr \in Nat
    BY CounterIs DEF Fade!CounterAssumption
  <2>. HIDE DEF zones, close
  <2>3. Fade!Sound(Fade!Confluence(zones, close, dir, Atr), close, dir)
    BY <2>1, <2>2, TradableIsSound
  <2>4. ASSUME fade # None PROVE Fade!Sound(fade, close, -dir)
    <3>. DEFINE d == -dir
    <3>1. d \in {1, -1} /\ fade = Fade!Confluence(zones, close, d, Atr) /\ Fade!Tradable(fade)
      BY <2>1, <2>4
    <3>. HIDE DEF d
    <3>2. Fade!Sound(fade, close, d)
      BY <2>1, <2>2, <3>1, TradableIsSound
    <3>. QED  BY <3>2 DEF d
  <2>. QED  BY <2>3, <2>4 DEF Fade!PlansAreSound, zones, close
<1>. QED  BY <1>1, PlanInvInit, PlanInvNext, PTL DEF Fade!Spec

=============================================================================
