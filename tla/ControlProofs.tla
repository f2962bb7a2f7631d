---------------------------- MODULE ControlProofs ----------------------------
(* Proofs about Control, PurseDay and Decision, for any values of their constants *)
(* that they assume: the window real orders go out in, what the reconciler makes  *)
(* of the broker's answer, the days of a purse, and one signal for a trigger.     *)
(* MCControl names the instances of the last two, Days and Strategy.              *)
EXTENDS MCControl, TLAPS

-----------------------------------------------------------------------------
(* The window.  The property speaks of the memory only, but a restart believes   *)
(* the ledger's row and a call puts its own record into that row later: so the   *)
(* invariant asks of the memory and of the row alike that a live mode's deadline *)
(* was granted, and of a mode call in flight that it will write what the memory  *)
(* already says.                                                                 *)

Controls == [mode : {"SHADOW", "PAPER"} \union LiveModes, armed : Nat \union {None}, halted : BOOLEAN]

TypesOK ==
  /\ now \in Nat /\ control \in Controls /\ row \in Controls
  /\ call # None => call \in [what : {"mode", "halt", "kill", "square"}, new : Controls]

\* A live mode that is armed at all was armed by the operator.
Granted(c) == c.mode \in LiveModes /\ c.armed # None => c.armed \in granted

\* What a mode call will write is what the memory says.
InStep ==
  /\ up = "down" => call = None
  /\ call # None /\ call.what = "mode" =>
       call.new.mode = control.mode /\ call.new.armed = control.armed

Armed == TypesOK /\ Granted(control) /\ Granted(row) /\ InStep

LEMMA ArmedInit == Init => Armed
  BY DEF Init, Armed, TypesOK, Controls, Granted, InStep, LiveModes

\* The actions that have nothing to do with permission.
Quiets == UNCHANGED <<control, row, call, granted>> /\ now' \in Nat /\ (up' = "down" => up = "down")

LEMMA QuietSteps ==
  ASSUME Armed, Quiets
  PROVE  Armed'
  BY DEF Armed, Quiets, TypesOK, Granted, InStep, Controls

\* A call changes the memory, and the row when it is stored.
LEMMA CallSteps ==
  ASSUME Armed, NEW what \in {"halt", "kill"}, NEW halted \in BOOLEAN,
         Calls(what, [control EXCEPT !.halted = halted]), granted' = granted
  PROVE  Armed'
<1>1. /\ up = "running" /\ up' = up /\ now' = now /\ row' = row
      /\ control' = [control EXCEPT !.halted = halted]
      /\ call' = [what |-> what, new |-> control']
  BY DEF Calls
<1>2. control' \in Controls /\ control'.mode = control.mode /\ control'.armed = control.armed
  BY <1>1 DEF Armed, TypesOK, Controls
<1>. QED  BY <1>1, <1>2 DEF Armed, TypesOK, Granted, InStep

LEMMA SetModeSteps ==
  ASSUME Armed, NEW mode \in {"PAPER", "LIVE"}, SetMode(mode)
  PROVE  Armed'
<1> DEFINE deadline == IF mode \in LiveModes THEN now + ArmFor ELSE None
<1>1. deadline \in Nat \union {None}
  BY ControlAssumptions DEF Armed, TypesOK
<1>2. /\ up = "running" /\ up' = up /\ now' = now /\ row' = row
      /\ control' = [control EXCEPT !.mode = mode, !.armed = deadline]
      /\ call' = [what |-> "mode", new |-> control']
      /\ granted' = granted \union {deadline}
  BY DEF SetMode, Calls
<1>3. control' \in Controls /\ control'.mode = mode /\ control'.armed = deadline
  BY <1>1, <1>2 DEF Armed, TypesOK, Controls, LiveModes
<1> HIDE DEF deadline
<1>4. Granted(control)' /\ Granted(row)'
  BY <1>2, <1>3 DEF Armed, Granted
<1>5. TypesOK'
  BY <1>2, <1>3 DEF Armed, TypesOK
<1>6. InStep'
  BY <1>2, <1>3 DEF InStep
<1>. QED  BY <1>4, <1>5, <1>6 DEF Armed

LEMMA StoreSteps ==
  ASSUME Armed, Store
  PROVE  Armed'
<1>1. /\ up = "running" /\ up' = up /\ now' = now /\ control' = control /\ call # None
      /\ row' = Stored(call)
      /\ call' # None => call' = [call EXCEPT !.what = "square"]
      /\ granted' = IF call.what = "mode" THEN {call.new.armed} ELSE granted
  BY DEF Store
<1>2. call \in [what : {"mode", "halt", "kill", "square"}, new : Controls]
  BY <1>1 DEF Armed, TypesOK
<1>3. call' # None => /\ call' \in [what : {"mode", "halt", "kill", "square"}, new : Controls]
                      /\ call'.what = "square"
  BY <1>1, <1>2
<1>4. row' \in Controls
  BY <1>1, <1>2 DEF Stored, Armed, TypesOK, Controls
<1>5. Granted(control)' /\ Granted(row)'
  <2>1. CASE call.what = "mode"
    <3>1. row'.armed = call.new.armed /\ control'.armed = call.new.armed
      BY <1>1, <1>2, <2>1 DEF Stored, Armed, TypesOK, Controls, InStep
    <3>. QED  BY <1>1, <2>1, <3>1 DEF Granted
  <2>2. CASE call.what # "mode"
    <3>1. row'.mode = row.mode /\ row'.armed = row.armed
      BY <1>1, <1>2, <2>2 DEF Stored, Armed, TypesOK, Controls
    <3>. QED  BY <1>1, <2>2, <3>1 DEF Armed, Granted
  <2>. QED  BY <2>1, <2>2
<1>. QED  BY <1>1, <1>3, <1>4, <1>5 DEF Armed, TypesOK, InStep

LEMMA BootSteps ==
  ASSUME Armed, Boot
  PROVE  Armed'
<1>1. /\ up = "down" /\ up' = "booting" /\ now' = now /\ call' = call /\ granted' = granted
      /\ control' = Boots(row)
      /\ row' = IF control'.mode = row.mode THEN row ELSE [row EXCEPT !.mode = "PAPER", !.armed = None]
  BY DEF Boot
<1>2. call = None
  BY <1>1 DEF Armed, InStep
<1>3. control' = row \/ control' = [row EXCEPT !.mode = "PAPER"]
  BY <1>1 DEF Boots
<1>4. /\ control' \in Controls /\ row' \in Controls
      /\ control'.mode = "PAPER" \/ control' = row
      /\ row'.mode = "PAPER" \/ row' = row
  BY <1>1, <1>3 DEF Armed, TypesOK, Controls
<1>. QED  BY <1>1, <1>2, <1>4 DEF Armed, TypesOK, Granted, InStep, LiveModes

LEMMA ArmedNext == Armed /\ [Next]_vars => Armed'
<1>1. SUFFICES ASSUME Armed, [Next]_vars
               PROVE  Armed'
  OBVIOUS
<1>2. ASSUME \/ Reconcile \/ (\E p \in Ids : Trade(p))
             \/ (\E o \in adrift : LateFill(o)) \/ (\E c \in Codes : TradedByHand(c))
             \/ ResetBreaker \/ Acknowledged \/ Tick \/ UNCHANGED vars
      PROVE  Armed'
  <2>1. now \in Nat /\ now + 1 \in Nat
    BY <1>1 DEF Armed, TypesOK
  <2>2. Quiets
    <3>1. CASE Reconcile
      BY <2>1, <3>1 DEF Quiets, Reconcile, Compare, BrokerShows, Compared, CompareFails, Quiet
    <3>2. CASE \E p \in Ids : Trade(p)
      BY <2>1, <3>2 DEF Quiets, Trade, PlaceEntry, PlaceExit, BrokerFills, RecordFill, BrokerRefuses,
                        OpenMirror, SkipMirror, PaperExit, Quiet
    <3>3. CASE (\E o \in adrift : LateFill(o)) \/ (\E c \in Codes : TradedByHand(c))
      BY <2>1, <3>3 DEF Quiets, LateFill, TradedByHand, Quiet
    <3>4. CASE ResetBreaker \/ Acknowledged \/ Tick \/ UNCHANGED vars
      BY <2>1, <3>4 DEF Quiets, ResetBreaker, Acknowledged, Tick, vars
    <3>. QED  BY <1>2, <3>1, <3>2, <3>3, <3>4
  <2>. QED  BY <1>1, <2>2, QuietSteps
<1>3. ASSUME NEW mode \in {"PAPER", "LIVE"}, SetMode(mode)
      PROVE  Armed'
  BY <1>1, <1>3, SetModeSteps
<1>4. ASSUME NEW halted \in BOOLEAN, SetHalt(halted)
      PROVE  Armed'
  BY <1>1, <1>4, CallSteps DEF SetHalt
<1>5. ASSUME Kill
      PROVE  Armed'
  BY <1>1, <1>5, CallSteps DEF Kill
<1>6. ASSUME Store
      PROVE  Armed'
  BY <1>1, <1>6, StoreSteps
<1>7. ASSUME SquareOff \/ StoreFails \/ Crash
      PROVE  Armed'
  <2>1. call' = None /\ UNCHANGED <<now, control, row, granted>>
    BY <1>7 DEF SquareOff, StoreFails, Crash
  <2>. QED  BY <1>1, <2>1 DEF Armed, TypesOK, Granted, InStep
<1>8. ASSUME Boot
      PROVE  Armed'
  BY <1>1, <1>8, BootSteps
<1>. QED  BY <1>1, <1>2, <1>3, <1>4, <1>5, <1>6, <1>7, <1>8 DEF Next, Operator

(* Real orders go out only inside a window the operator armed and may still be     *)
(* relying on: across expiries, crashes between the memory and the ledger, writes  *)
(* that fail and answers he never got (engine.py, mode, set_mode, _load_control).  *)
THEOREM LiveOnlyWhileArmedHolds == Spec => []LiveOnlyWhileArmed
<1>1. Init => Armed
  BY ArmedInit
<1>2. Armed /\ [Next]_vars => Armed'
  BY ArmedNext
<1>3. Armed => LiveOnlyWhileArmed
  <2>1. SUFFICES ASSUME Armed, Mode \in LiveModes
                 PROVE  \E g \in granted \ {None} : now <= g
    BY DEF LiveOnlyWhileArmed
  <2>2. control.mode \in LiveModes /\ ~Expired(control)
    BY <2>1 DEF Mode, LiveModes
  <2>3. control.armed # None /\ control.armed \in granted /\ ~(control.armed < now)
    BY <2>1, <2>2 DEF Expired, Armed, Granted
  <2>4. control.armed \in Nat /\ now \in Nat
    BY <2>1, <2>3 DEF Armed, TypesOK, Controls
  <2>. QED  BY <2>3, <2>4
<1>. QED  BY <1>1, <1>2, <1>3, PTL DEF Spec

-----------------------------------------------------------------------------
(* The reconciler.  It asks the broker once and reads the book when the answer is *)
(* there, and orders, copies and exits move both meanwhile.  What has disagreed    *)
(* at every moment since the start disagreed when the broker answered, and in the *)
(* book when it was read: a position unmatched all along was held all along, and  *)
(* whichever position stands for its contract has the same quantity.              *)

Shapes ==
  /\ book \in [Ids -> {0, Lots}]
  /\ venue \in [Codes -> Int]
  /\ copies \subseteq DOMAIN ParentOf

\* What the broker answered shows the disagreements that stand.
Shown ==
  check # None =>
    /\ check \in Checks
    /\ check.orphans \subseteq Orphans(book, venue)
    /\ check.unmatched \subseteq Unmatched(book, venue) \intersect check.held
    /\ check.rows # None =>
         /\ \A c \in check.orphans : check.rows[c] # 0
         /\ \A p \in check.unmatched : Abs(check.rows[Contract[p]]) # Lots

Standing == Shapes /\ Shown

LEMMA LotsAreSome == Lots \in Nat /\ Lots > 0
  BY ControlAssumptions

LEMMA MirrorsArePositions == \A q \in DOMAIN ParentOf : q \in Ids /\ ParentOf[q] \in Ids
  BY ControlAssumptions

LEMMA StandingInit == Init => Standing
  BY LotsAreSome DEF Init, Standing, Shapes, Shown, Codes

\* A step that moves neither the book nor the broker, and leaves the comparison alone or
\* ends it.
LEMMA StandsStill ==
  ASSUME Standing, UNCHANGED <<book, venue>>, copies' \subseteq copies,
         check' = None \/ check' = check
  PROVE  Standing'
<1>1. Shapes'
  BY DEF Standing, Shapes
<1>2. Shown'
  BY DEF Standing, Shown, Orphans, Unmatched
<1>. QED  BY <1>1, <1>2 DEF Standing

\* A comparison begins.
LEMMA StandsBegun ==
  ASSUME Standing, UNCHANGED <<book, copies, venue>>, NEW live \in BOOLEAN,
         check' = Comparison(live)
  PROVE  Standing' /\ check' # None
<1>1. Shapes'
  BY DEF Standing, Shapes
<1>2. /\ Orphans(book, venue) \subseteq Codes
      /\ Unmatched(book, venue) \subseteq Open /\ Open \subseteq Ids
      /\ Orphans(book, venue)' = Orphans(book, venue)
      /\ Unmatched(book, venue)' = Unmatched(book, venue)
  BY DEF Orphans, Unmatched, Open
<1> DEFINE begun == [atVenue |-> live, held |-> Open, rows |-> None,
                     orphans |-> Orphans(book, venue), unmatched |-> Unmatched(book, venue)]
<1>3. check' = begun
  BY DEF Comparison
<1>4. Unmatched(book, venue) \subseteq Ids
  BY <1>2
<1>5. begun \in Checks
  BY <1>2, <1>4 DEF Checks
<1>6. begun # None
  BY <1>5, NoneIsNothing
<1>7. /\ begun.orphans = Orphans(book, venue) /\ begun.unmatched = Unmatched(book, venue)
      /\ begun.held = Open /\ begun.rows = None
  OBVIOUS
<1> HIDE DEF begun
<1>8. Shown'
  BY <1>2, <1>3, <1>5, <1>7 DEF Shown
<1>. QED  BY <1>1, <1>3, <1>6, <1>8 DEF Standing

\* The broker answers.
LEMMA StandsAnswered ==
  ASSUME Standing, BrokerShows
  PROVE  Standing' /\ check' # None
<1>1. check # None /\ check' = [check EXCEPT !.rows = venue] /\ UNCHANGED <<book, copies, venue>>
  BY DEF BrokerShows
<1>2. Shapes'
  BY <1>1 DEF Standing, Shapes
<1>3. check \in Checks /\ venue \in [Codes -> Int]
  BY <1>1 DEF Standing, Shown, Shapes
<1>4. /\ check' \in Checks /\ check'.rows = venue /\ check'.orphans = check.orphans
      /\ check'.unmatched = check.unmatched /\ check'.held = check.held
  BY <1>1, <1>3 DEF Checks
<1>5. \A c \in check.orphans : venue[c] # 0
  BY <1>1 DEF Standing, Shown, Orphans
<1>6. \A p \in check.unmatched : Abs(venue[Contract[p]]) # Lots
  BY <1>1, LotsAreSome DEF Standing, Shown, Shapes, Unmatched
<1>7. Shown'
  BY <1>1, <1>4, <1>5, <1>6 DEF Standing, Shown, Orphans, Unmatched
<1>8. check' # None
  BY <1>4, NoneIsNothing
<1>. QED  BY <1>2, <1>7, <1>8 DEF Standing

\* The book or the broker moves under a comparison.
LEMMA StandsDisturbed ==
  ASSUME Standing, Disturb, Shapes'
  PROVE  Standing' /\ (check # None => check' # None)
<1>1. CASE check = None
  BY <1>1 DEF Disturb, Standing, Shown
<1>2. CASE check # None
  <2> DEFINE orphans == check.orphans \intersect Orphans(book', venue')
             unmatched == check.unmatched \intersect Unmatched(book', venue')
  <2>1. check \in Checks
    BY <1>2 DEF Standing, Shown
  <2>2. check' = [check EXCEPT !.orphans = orphans, !.unmatched = unmatched]
    BY <1>2 DEF Disturb
  <2>3. /\ orphans \subseteq check.orphans /\ unmatched \subseteq check.unmatched
        /\ orphans \subseteq Orphans(book, venue)' /\ unmatched \subseteq Unmatched(book, venue)'
    BY DEF Orphans, Unmatched
  <2> HIDE DEF orphans, unmatched
  <2>4. /\ check' \in Checks /\ check'.orphans = orphans /\ check'.unmatched = unmatched
        /\ check'.rows = check.rows /\ check'.held = check.held
    BY <2>1, <2>2, <2>3 DEF Checks
  <2>5. check' # None
    BY <2>4, NoneIsNothing
  <2>6. Shown'
    BY <1>2, <2>3, <2>4 DEF Standing, Shown
  <2>. QED  BY <2>5, <2>6 DEF Standing
<1>. QED  BY <1>1, <1>2

LEMMA TradedIsANumber ==
  ASSUME Standing, NEW p, NEW side, Traded(p, side)
  PROVE  venue' \in [Codes -> Int]
<1>1. Lots \in Int /\ venue \in [Codes -> Int]
  BY LotsAreSome DEF Standing, Shapes
<1> DEFINE c == Contract[p]
           then == IF side = "buy" THEN venue[c] + Lots ELSE venue[c] - Lots
<1>2. venue' = [venue EXCEPT ![c] = then]
  BY DEF Traded
<1>3. c \in Codes => then \in Int
  BY <1>1
<1> HIDE DEF c, then
<1>. QED  BY <1>1, <1>2, <1>3

\* What an order, a copy, a hand or a kill does to the book and the broker.
LEMMA StandsTrade ==
  ASSUME Standing, NEW p \in Ids, Trade(p)
  PROVE  Standing' /\ (check # None => check' # None)
<1>1. CASE PlaceEntry(p) \/ PlaceExit(p) \/ BrokerRefuses(p) \/ SkipMirror(p)
  <2>1. UNCHANGED <<book, venue, check>> /\ copies' \subseteq copies
    BY <1>1 DEF PlaceEntry, PlaceExit, BrokerRefuses, SkipMirror
  <2>. QED  BY <2>1, StandsStill
<1>2. CASE BrokerFills(p)
  <2>1. Disturb /\ UNCHANGED <<book, copies>> /\ Traded(p, order[p].side)
    BY <1>2 DEF BrokerFills
  <2>2. venue' \in [Codes -> Int]
    BY <2>1, TradedIsANumber
  <2>3. Shapes'
    BY <2>1, <2>2 DEF Standing, Shapes
  <2>. QED  BY <2>1, <2>3, StandsDisturbed
<1>3. CASE RecordFill(p) \/ PaperExit(p) \/ OpenMirror(p)
  <2>1. Disturb /\ venue' = venue
    BY <1>3 DEF RecordFill, PaperExit, OpenMirror
  <2>2. book' \in [Ids -> {0, Lots}]
    <3>1. CASE RecordFill(p) \/ PaperExit(p)
      BY <3>1 DEF RecordFill, PaperExit, Standing, Shapes
    <3>2. CASE OpenMirror(p)
      BY <3>2, MirrorsArePositions DEF OpenMirror, Standing, Shapes
    <3>. QED  BY <1>3, <3>1, <3>2
  <2>3. copies' \subseteq DOMAIN ParentOf
    BY <1>3 DEF RecordFill, PaperExit, OpenMirror, MirrorsOf, Standing, Shapes
  <2>4. Shapes'
    BY <2>1, <2>2, <2>3 DEF Standing, Shapes
  <2>. QED  BY <2>1, <2>4, StandsDisturbed
<1>. QED  BY <1>1, <1>2, <1>3 DEF Trade

LEMMA StandsElsewhere ==
  ASSUME Standing,
         \/ \E o \in adrift : LateFill(o)
         \/ \E c \in Codes : TradedByHand(c)
         \/ SquareOff
  PROVE  Standing' /\ (check # None => check' # None)
<1>1. Disturb /\ UNCHANGED <<book, copies>>
  BY DEF LateFill, TradedByHand, SquareOff
<1>2. venue' \in [Codes -> Int]
  <2>1. ASSUME NEW o \in adrift, LateFill(o) PROVE venue' \in [Codes -> Int]
    BY <2>1, TradedIsANumber DEF LateFill
  <2>2. ASSUME NEW c \in Codes, TradedByHand(c) PROVE venue' \in [Codes -> Int]
    BY <2>2 DEF TradedByHand, Standing, Shapes
  <2>3. CASE SquareOff
    BY <2>3 DEF SquareOff
  <2>. QED  BY <2>1, <2>2, <2>3
<1>3. Shapes'
  BY <1>1, <1>2 DEF Standing, Shapes
<1>. QED  BY <1>1, <1>3, StandsDisturbed

\* Only the end of a comparison, or a crash, ends one that has its answer.
LEMMA StandingNext ==
  ASSUME Standing, [Next]_vars
  PROVE  /\ Standing'
         /\ check # None /\ check.rows # None /\ check' = None /\ up' # "down" => Compared
<1>1. CASE Compare
  <2>1. check' = Comparison(TRUE) /\ UNCHANGED <<book, copies, venue>>
    BY <1>1 DEF Compare
  <2>. QED  BY <2>1, StandsBegun
<1>2. CASE BrokerShows
  BY <1>2, StandsAnswered
<1>3. CASE Compared \/ CompareFails
  <2>1. UNCHANGED <<book, copies, venue>> /\ check' = None
    BY <1>3 DEF Compared, CompareFails
  <2>2. CompareFails => check.rows = None
    BY DEF CompareFails
  <2>. QED  BY <1>3, <2>1, <2>2, StandsStill
<1>4. ASSUME NEW p \in Ids, Trade(p) PROVE Standing' /\ (check # None => check' # None)
  BY <1>4, StandsTrade
<1>5. CASE \/ \E o \in adrift : LateFill(o)
           \/ \E c \in Codes : TradedByHand(c)
           \/ SquareOff
  BY <1>5, StandsElsewhere
<1>6. CASE \/ \E mode \in {"PAPER", "LIVE"} : SetMode(mode)
           \/ \E halted \in BOOLEAN : SetHalt(halted)
           \/ Kill \/ Store \/ StoreFails \/ ResetBreaker \/ Acknowledged
           \/ Tick \/ UNCHANGED vars
  <2>1. UNCHANGED <<book, copies, venue, check>>
    BY <1>6 DEF SetMode, SetHalt, Kill, Calls, Store, StoreFails, ResetBreaker, Acknowledged,
                Tick, vars
  <2>. QED  BY <2>1, StandsStill
<1>7. CASE Crash
  <2>1. UNCHANGED <<book, venue>> /\ copies' \subseteq copies /\ check' = None /\ up' = "down"
    BY <1>7 DEF Crash
  <2>. QED  BY <2>1, StandsStill
<1>8. CASE Boot
  <2> DEFINE live == control'.mode \in LiveModes
  <2>1. UNCHANGED <<book, copies, venue>> /\ check' = Comparison(live)
    BY <1>8 DEF Boot
  <2>2. live \in BOOLEAN
    OBVIOUS
  <2> HIDE DEF live
  <2>. QED  BY <2>1, <2>2, StandsBegun
<1>. QED  BY <1>1, <1>2, <1>3, <1>4, <1>5, <1>6, <1>7, <1>8 DEF Next, Operator, Reconcile

\* A comparison that ends on a standing disagreement sees a mismatch.
LEMMA StandingIsSeen ==
  ASSUME Standing, check # None, check.rows # None,
         check.orphans # {} \/ (check.atVenue /\ check.unmatched # {})
  PROVE  \E c \in Codes : Mismatch(check, c)
<1>1. check \in Checks /\ check.rows \in [Codes -> Int]
  BY DEF Standing, Shown, Checks
<1>2. CASE check.orphans # {}
  <2>1. PICK c \in check.orphans : TRUE
    BY <1>2
  <2>2. c \in Codes /\ check.rows[c] # 0 /\ \A p \in Ids : Contract[p] = c => book[p] = 0
    BY <1>1, <2>1 DEF Checks, Standing, Shown, Orphans
  <2>3. check.held \subseteq Ids
    BY <1>1 DEF Checks
  <2>4. {p \in check.held : Contract[p] = c /\ book[p] > 0} = {}
    BY <2>2, <2>3
  <2>5. Local(check.held, c) = 0
    BY <2>4 DEF Local
  <2>6. check.rows[c] \in Int
    BY <1>1, <2>2
  <2>7. Abs(check.rows[c]) # 0
    BY <2>2, <2>6 DEF Abs
  <2>. QED  BY <2>2, <2>5, <2>7 DEF Mismatch
<1>3. CASE check.atVenue /\ check.unmatched # {}
  <2>1. PICK p \in check.unmatched : TRUE
    BY <1>3
  <2>2. /\ p \in Ids /\ p \in check.held /\ book[p] > 0
        /\ Abs(check.rows[Contract[p]]) # Lots
    BY <1>1, <2>1 DEF Standing, Shown, Unmatched
  <2> DEFINE here == {q \in check.held : Contract[q] = Contract[p] /\ book[q] > 0}
  <2>3. Local(check.held, Contract[p]) = IF here = {} THEN 0 ELSE book[CHOOSE q \in here : TRUE]
    BY DEF Local
  <2>4. p \in here
    BY <2>2
  <2>5. \A q \in here : book[q] = Lots
    <3>1. check.held \subseteq Ids
      BY <1>1 DEF Checks
    <3>. QED  BY <3>1 DEF Standing, Shapes
  <2> HIDE DEF here
  <2>6. (CHOOSE q \in here : TRUE) \in here
    BY <2>4
  <2>7. Local(check.held, Contract[p]) = Lots
    BY <2>3, <2>4, <2>5, <2>6
  <2>. QED  BY <1>3, <2>2, <2>7 DEF Mismatch, Codes
<1>. QED  BY <1>2, <1>3

(* Whatever moves between the broker's answer and the reading of the book, mirrors   *)
(* in the same contract, late fills and a kill included: what disagreed all along    *)
(* freezes entries (Reconciler.run).                                                 *)
THEOREM StandingMismatchFreezesHolds == Spec => StandingMismatchFreezes
<1>1. Init => Standing
  BY StandingInit
<1>2. Standing /\ [Next]_vars => Standing'
  BY StandingNext
<1>3. Standing /\ [Next]_vars =>
        (check # None /\ check.rows # None /\ check' = None /\ up' # "down"
           => (check.orphans # {} \/ (check.atVenue /\ check.unmatched # {}) => frozen'))
  <2>1. SUFFICES ASSUME Standing, [Next]_vars, check # None, check.rows # None, check' = None,
                        up' # "down", check.orphans # {} \/ (check.atVenue /\ check.unmatched # {})
                 PROVE  frozen'
    OBVIOUS
  <2>2. Compared
    BY <2>1, StandingNext
  <2>3. \E c \in Codes : Mismatch(check, c)
    BY <2>1, StandingIsSeen
  <2>. QED  BY <2>2, <2>3 DEF Compared
<1>. QED  BY <1>1, <1>2, <1>3, PTL DEF Spec, StandingMismatchFreezes

-----------------------------------------------------------------------------
(* The days of a purse.  A reset puts a new object in the purse's place, a       *)
(* restart an old one, and a midnight may come between any two steps: what holds *)
(* is that no object counts a day to come, and that the purse of a process       *)
(* that lived through a midnight was rolled over by the pass that saw the day    *)
(* before anything could halt it again.                                          *)

\* An object that counts a day that has come.
Past(w) == w \in [p : Days!Purse, day : Nat] /\ w.day <= day

Calendar ==
  /\ day \in Nat /\ lastDay \in Nat /\ lastDay <= day
  /\ Past(purse) /\ Past(stored)
  /\ replaced # None => Past(replaced)

Rolled == running /\ lastDay = day /\ born < day => purse.day = day

\* Of a purse that counts today, also before the pass has seen today.
TrippedToday ==
  running /\ born < day /\ purse.day = day /\ purse.p.halt = "DAILY_LOSS" => trippedOn = day

Lived == Calendar /\ Rolled /\ TrippedToday

LEMMA DayNumbers == {Initial, Outlay, MaxDay} \subseteq Nat /\ Results \subseteq Int
  BY ControlRunAssumption DEF Days!PurseDayAssumptions

LEMMA LivedInit == Days!Init => Lived
<1> SUFFICES ASSUME Days!Init PROVE Lived
  OBVIOUS
<1>1. Days!NewPurse(Initial) \in Days!Purse /\ Days!NewPurse(Initial).halt = "none"
  BY DayNumbers DEF Days!NewPurse, Days!Purse, Days!Halts
<1>. QED  BY <1>1 DEF Lived, Calendar, Past, Rolled, TrippedToday, Days!Init, Days!New

\* Whatever an entry or an exit does to an object leaves its day.
LEMMA PurseSteps ==
  ASSUME NEW w \in Days!Purse, NEW amount \in Nat, NEW pnl \in Int
  PROVE  /\ Days!Deploy(w, amount) \in Days!Purse /\ Days!Deploy(w, amount).halt = w.halt
         /\ Days!Release(w, amount) \in Days!Purse /\ Days!Release(w, amount).halt = w.halt
         /\ Days!CheckBreakers(Days!ApplyClose(w, pnl)) \in Days!Purse
<1>1. w.balance \in Int /\ w.peak \in Int /\ w.deployed \in Nat /\ w.halt \in Days!Halts
  BY DEF Days!Purse
<1>2. w.deployed + amount \in Nat /\ Days!Larger(0, w.deployed - amount) \in Nat
  BY <1>1 DEF Days!Larger
<1>3. w.balance + pnl \in Int /\ Days!Larger(w.peak, w.balance + pnl) \in Int
  BY <1>1 DEF Days!Larger
<1>4. Days!Deploy(w, amount) \in Days!Purse /\ Days!Deploy(w, amount).halt = w.halt
  BY <1>2 DEF Days!Deploy, Days!Purse
<1>5. Days!Release(w, amount) \in Days!Purse /\ Days!Release(w, amount).halt = w.halt
  BY <1>2 DEF Days!Release, Days!Purse
<1>6. Days!ApplyClose(w, pnl) \in Days!Purse
  BY <1>3 DEF Days!ApplyClose, Days!Purse
<1>7. \A v \in Days!Purse, h \in Days!Halts : [v EXCEPT !.halt = h] \in Days!Purse
  BY DEF Days!Purse
<1>8. Days!CheckBreakers(Days!ApplyClose(w, pnl)) \in Days!Purse
  BY <1>6, <1>7 DEF Days!CheckBreakers, Days!Halts
<1>. QED  BY <1>4, <1>5, <1>8

\* The purse another money is put in counts the day it did.
LEMMA SameDay ==
  ASSUME NEW w, Past(w), NEW p \in Days!Purse
  PROVE  [w EXCEPT !.p = p] \in [p : Days!Purse, day : Nat]
         /\ [w EXCEPT !.p = p].day = w.day /\ [w EXCEPT !.p = p].p = p
  BY DEF Past

LEMMA LivedEntry ==
  ASSUME Lived, Days!Entry
  PROVE  Lived'
<1>1. UNCHANGED <<day, running, born, lastDay, trippedOn>>
  BY DEF Days!Entry, Days!StartEntry, Days!EntryRefused, Days!EntryFilled,
         Days!PositionSaved, Days!EntrySaved
<1>2. /\ Past(purse) /\ Past(stored) /\ (replaced # None => Past(replaced))
      /\ Outlay \in Nat /\ 0 \in Int
  BY DayNumbers DEF Lived, Calendar
<1> DEFINE Steps(w, v) == v \in [p : Days!Purse, day : Nat] /\ v.day = w.day /\ v.p.halt = w.p.halt
<1>3. ASSUME NEW w, Past(w)
      PROVE  /\ Steps(w, [w EXCEPT !.p = Days!Deploy(@, Outlay)])
             /\ Steps(w, [w EXCEPT !.p = Days!Release(@, Outlay)])
             /\ Steps(w, [w EXCEPT !.p = Days!Deploy(Days!Release(@, Outlay), Outlay)])
  <2>1. w.p \in Days!Purse
    BY <1>3 DEF Past
  <2>2. /\ Days!Deploy(w.p, Outlay) \in Days!Purse /\ Days!Deploy(w.p, Outlay).halt = w.p.halt
        /\ Days!Release(w.p, Outlay) \in Days!Purse /\ Days!Release(w.p, Outlay).halt = w.p.halt
    BY <1>2, <2>1, PurseSteps
  <2>3. /\ Days!Deploy(Days!Release(w.p, Outlay), Outlay) \in Days!Purse
        /\ Days!Deploy(Days!Release(w.p, Outlay), Outlay).halt = w.p.halt
    BY <1>2, <2>2, PurseSteps
  <2>. QED  BY <1>3, <2>2, <2>3, SameDay
<1>4. Steps(purse, purse') /\ (stored' = stored \/ stored' = Days!Captured)
      /\ (replaced' # None => replaced # None /\ Steps(replaced, replaced'))
  <2> HIDE DEF Steps
  <2>0. Steps(purse, purse) /\ (replaced # None => Steps(replaced, replaced))
    BY <1>2 DEF Steps, Past
  <2>1. CASE Days!StartEntry
    BY <1>2, <1>3, <2>0, <2>1 DEF Days!StartEntry
  <2>2. CASE Days!EntryRefused
    BY <1>2, <1>3, <2>0, <2>2 DEF Days!EntryRefused
  <2>3. CASE Days!EntryFilled
    <3>1. CASE replaced = None
      BY <1>2, <1>3, <2>0, <2>3, <3>1 DEF Days!EntryFilled, Days!Becomes, Days!Captured
    <3>2. CASE replaced # None
      BY <1>2, <1>3, <2>0, <2>3, <3>2 DEF Days!EntryFilled, Days!Becomes, Days!Captured
    <3>. QED  BY <3>1, <3>2
  <2>4. CASE Days!PositionSaved
    BY <2>0, <2>4 DEF Days!PositionSaved
  <2>5. CASE Days!EntrySaved
    BY <2>0, <2>5 DEF Days!EntrySaved
  <2>. QED  BY <2>1, <2>2, <2>3, <2>4, <2>5 DEF Days!Entry
<1>5. Past(Days!Captured)
  BY <1>2 DEF Days!Captured
<1>. QED  BY <1>1, <1>2, <1>4, <1>5 DEF Lived, Calendar, Past, Rolled, TrippedToday

\* An exit may halt the purse, and notes the day it did.
LEMMA LivedExit ==
  ASSUME Lived, NEW pnl \in Results, Days!Exit(pnl)
  PROVE  Lived'
<1> DEFINE after == Days!CheckBreakers(Days!ApplyClose(Days!Release(purse.p, Outlay), pnl))
<1>1. /\ UNCHANGED <<day, running, born, lastDay, replaced>>
      /\ purse' = [purse EXCEPT !.p = after] /\ stored' = purse'
      /\ trippedOn' = IF after.halt # purse.p.halt THEN day ELSE trippedOn
  BY DEF Days!Exit
<1>2. Past(purse) /\ purse.p \in Days!Purse /\ Outlay \in Nat /\ pnl \in Int
  BY DayNumbers DEF Lived, Calendar, Past
<1>3. after \in Days!Purse
  <2>1. Days!Release(purse.p, Outlay) \in Days!Purse
    BY <1>2, PurseSteps
  <2>. QED  BY <1>2, <2>1, PurseSteps
<1> HIDE DEF after
<1>4. purse' \in [p : Days!Purse, day : Nat] /\ purse'.day = purse.day /\ purse'.p = after
  BY <1>1, <1>2, <1>3, SameDay
<1>. QED  BY <1>1, <1>2, <1>4 DEF Lived, Calendar, Past, Rolled, TrippedToday

LEMMA LivedReset ==
  ASSUME Lived, Days!ResetWallet \/ Days!ResetSaved
  PROVE  Lived'
<1>1. UNCHANGED <<day, running, born, lastDay, trippedOn>> /\ day \in Nat
  BY DEF Days!ResetWallet, Days!ResetSaved, Lived, Calendar
<1>2. CASE Days!ResetWallet
  <2>1. Days!NewPurse(Initial) \in Days!Purse /\ Days!NewPurse(Initial).halt = "none"
    BY DayNumbers DEF Days!NewPurse, Days!Purse, Days!Halts
  <2>2. /\ purse' \in [p : Days!Purse, day : Nat] /\ purse'.day = day /\ purse'.p.halt = "none"
        /\ stored' = stored /\ (replaced' = None \/ replaced' = Days!Captured)
    BY <1>1, <1>2, <2>1 DEF Days!ResetWallet, Days!New
  <2>3. Past(Days!Captured)
    BY DEF Days!Captured, Lived, Calendar
  <2>. QED  BY <1>1, <2>2, <2>3 DEF Lived, Calendar, Past, Rolled, TrippedToday
<1>3. CASE Days!ResetSaved
  BY <1>1, <1>3 DEF Days!ResetSaved, Lived, Calendar, Past, Rolled, TrippedToday
<1>. QED  BY <1>2, <1>3

\* The day turns, and the pass that sees it rolls the purse over.
LEMMA LivedDay ==
  ASSUME Lived, Days!Midnight \/ Days!NewDay \/ Days!PersistWallets
  PROVE  Lived'
<1>1. CASE Days!Midnight
  BY <1>1 DEF Days!Midnight, Lived, Calendar, Past, Rolled, TrippedToday
<1>2. CASE Days!NewDay
  <2>1. UNCHANGED <<day, running, born, replaced, stored, trippedOn>> /\ lastDay' = day
        /\ purse' = Days!Rollover(purse)
    BY <1>2 DEF Days!NewDay
  <2>2. purse \in [p : Days!Purse, day : Nat] /\ day \in Nat
    BY DEF Lived, Calendar, Past
  <2>3. CASE purse.day = day
    BY <2>1, <2>3 DEF Days!Rollover, Lived, Calendar, Past, Rolled, TrippedToday
  <2>4. CASE purse.day # day
    <3> DEFINE after == [[purse.p EXCEPT !.day_start_balance = purse.p.balance]
                            EXCEPT !.halt = IF @ = "DAILY_LOSS" THEN "none" ELSE @]
    <3>1. after \in Days!Purse /\ after.halt # "DAILY_LOSS"
      BY <2>2 DEF Days!Purse, Days!Halts
    <3>2. purse' = [p |-> after, day |-> day]
      BY <2>1, <2>2, <2>4 DEF Days!Rollover
    <3> HIDE DEF after
    <3>3. purse' \in [p : Days!Purse, day : Nat] /\ purse'.day = day /\ purse'.p = after
      BY <2>2, <3>1, <3>2
    <3>. QED  BY <2>1, <2>2, <3>1, <3>3 DEF Lived, Calendar, Past, Rolled, TrippedToday
  <2>. QED  BY <2>3, <2>4
<1>3. CASE Days!PersistWallets
  BY <1>3 DEF Days!PersistWallets, Lived, Calendar, Past, Rolled, TrippedToday
<1>. QED  BY <1>1, <1>2, <1>3

LEMMA LivedBoot ==
  ASSUME Lived, Days!Crash \/ Days!Boot
  PROVE  Lived'
<1>1. CASE Days!Crash
  BY <1>1 DEF Days!Crash, Lived, Calendar, Past, Rolled, TrippedToday
<1>2. CASE Days!Boot
  BY <1>2 DEF Days!Boot, Lived, Calendar, Past, Rolled, TrippedToday
<1>. QED  BY <1>1, <1>2

\* Of PurseDay, for any results of trades, resets, crashes and midnights in any order:
\* once the pass has seen the day, the purse counts it, and a daily-loss halt is one
\* of that day (Wallet.rollover).
THEOREM MidnightLiftsHaltHolds == Days!Spec => []MidnightLiftsHalt
<1>1. Days!Init => Lived
  BY LivedInit
<1>2. Lived /\ [Days!Next]_Days!vars => Lived'
  <2> SUFFICES ASSUME Lived, [Days!Next]_Days!vars PROVE Lived'
    OBVIOUS
  <2>1. CASE UNCHANGED Days!vars
    BY <2>1 DEF Days!vars, Lived, Calendar, Past, Rolled, TrippedToday
  <2>. QED  BY <2>1, LivedEntry, LivedExit, LivedReset, LivedDay, LivedBoot DEF Days!Next
<1>3. Lived => MidnightLiftsHalt
  BY DEF Lived, Rolled, TrippedToday, MidnightLiftsHalt, Days!MidnightLiftsHalt
<1>. QED  BY <1>1, <1>2, <1>3, PTL DEF Days!Spec

-----------------------------------------------------------------------------
(* One signal for a trigger.  A trigger is confirmed at its own bar, or parked    *)
(* and promoted at a later one; what keeps it from being both is that a bar       *)
(* decided on for the first time is newer than every trigger spoken of and than   *)
(* the parked one, and that no trigger that is parked was spoken of.              *)

BarsRead == [ts : Int, vol : Int, trend : Int]
Signals == [ts : Int, src : Int, oi : {None, "low", "high"}]

Latest == hist[Len(hist)].ts

StoreOK ==
  /\ hist \in Seq(BarsRead) /\ hist # <<>>
  /\ parked # None => parked.ts \in Int /\ parked.ts <= Latest
  /\ \A t \in redone : t \in Int /\ t <= Latest
  /\ spoken \in Seq(Signals)
  /\ \A i \in DOMAIN spoken : spoken[i].src \in Int /\ spoken[i].src <= Latest

\* The bar is new to everything that was said, unless it was decided on before.
FirstTime ==
  due /\ Latest \notin redone =>
    /\ \A i \in DOMAIN spoken : spoken[i].src < Latest
    /\ parked # None => parked.ts < Latest

ParkedIsUnspoken ==
  parked # None /\ parked.ts \notin redone => \A i \in DOMAIN spoken : spoken[i].src # parked.ts

Told == StoreOK /\ FirstTime /\ ParkedIsUnspoken /\ Strategy!OneSignalPerTrigger

LEMMA BarNumbers ==
  /\ BarLength \in Nat /\ BarLength > 0 /\ MinBars \in Nat /\ MinBars >= 3
  /\ AvgBars \in Nat /\ Floor \in Nat /\ Volumes \subseteq Nat /\ Ttl \in Nat
  BY ControlRunAssumption DEF Strategy!DecisionAssumptions

\* What a sequence with one element more holds.
LEMMA Appended ==
  ASSUME NEW S, NEW s \in Seq(S), NEW x \in S
  PROVE  /\ Append(s, x) \in Seq(S) /\ Len(Append(s, x)) = Len(s) + 1 /\ Len(s) \in Nat
         /\ DOMAIN s = 1 .. Len(s) /\ DOMAIN Append(s, x) = 1 .. Len(s) + 1
         /\ \A i \in 1 .. Len(s) : Append(s, x)[i] = s[i]
         /\ Append(s, x)[Len(s) + 1] = x
  OBVIOUS

\* The last bar of the store.
LEMMA TheLatest ==
  ASSUME StoreOK
  PROVE  /\ Len(hist) \in Nat /\ Len(hist) > 0 /\ DOMAIN hist = 1 .. Len(hist)
         /\ Strategy!Last(hist) = hist[Len(hist)] /\ hist[Len(hist)] \in BarsRead
         /\ Strategy!Last(hist).ts = Latest /\ Latest \in Int
<1>1. hist \in Seq(BarsRead) /\ hist # <<>>
  BY DEF StoreOK
<1>2. Len(hist) \in Nat /\ Len(hist) > 0 /\ DOMAIN hist = 1 .. Len(hist)
  BY <1>1
<1>3. hist[Len(hist)] \in BarsRead
  BY <1>1, <1>2
<1>. QED  BY <1>2, <1>3 DEF Strategy!Last, Latest, BarsRead

LEMMA ToldInit == Strategy!Init => Told
<1> SUFFICES ASSUME Strategy!Init PROVE Told
  OBVIOUS
<1>1. PICK n \in MinBars - 1 .. MinBars :
        hist = [i \in 1 .. n |-> [ts |-> i * BarLength, vol |-> Floor, trend |-> 1]]
  BY DEF Strategy!Init
<1>2. n \in Nat /\ n >= 2
  BY BarNumbers
<1>3. \A i \in 1 .. n : i * BarLength \in Int
  BY <1>2, BarNumbers
<1>4. \A i \in 1 .. n : [ts |-> i * BarLength, vol |-> Floor, trend |-> 1] \in BarsRead
  BY <1>3, BarNumbers DEF BarsRead
<1>5. hist \in [1 .. n -> BarsRead]
  BY <1>1, <1>4
<1>6. hist \in Seq(BarsRead) /\ Len(hist) = n
  BY <1>2, <1>5
<1>7. spoken = <<>> /\ redone = {} /\ parked = None /\ due = FALSE
  BY DEF Strategy!Init
<1>. QED  BY <1>2, <1>6, <1>7 DEF Told, StoreOK, FirstTime, ParkedIsUnspoken,
             Strategy!OneSignalPerTrigger

\* What FUKAA makes of a bar: at most one signal, of this bar or of the parked trigger,
\* which is taken out; and what it parks is this bar, when it makes none.
LEMMA Outcomes ==
  ASSUME NEW bar, NEW f, NEW out, out \in {Strategy!OnSignal(bar, f), Strategy!OnBar(bar, f)}
  PROVE  \/ (out.signal = None /\ out.parked \in {None, parked})
         \/ (out.signal = None /\ out.parked # None /\ out.parked.ts = bar.ts
               /\ out = Strategy!OnSignal(bar, f))
         \/ (out.signal = bar.ts /\ out.parked = parked /\ out = Strategy!OnSignal(bar, f))
         \/ (out.signal = parked.ts /\ out.parked = None /\ parked # None)
<1>1. CASE out = Strategy!OnSignal(bar, f)
  BY <1>1 DEF Strategy!OnSignal, Strategy!Rejects, Strategy!Outcome
<1>2. CASE out = Strategy!OnBar(bar, f)
  BY <1>2 DEF Strategy!OnBar, Strategy!Rejects, Strategy!Outcome, Strategy!Silent, Strategy!Expires
<1>. QED  BY <1>1, <1>2

LEMMA ToldDecide ==
  ASSUME Told, NEW f \in Strategy!Facts, Strategy!Decide(f)
  PROVE  Told'
<1> DEFINE bar == Strategy!Last(hist)
           base == Strategy!ChainPassed(Strategy!BaseGates(f))
           out == IF base THEN Strategy!OnSignal(bar, f) ELSE Strategy!OnBar(bar, f)
<1>1. /\ due /\ ~due' /\ parked' = out.parked /\ UNCHANGED <<hist, redone>>
      /\ spoken' = IF out.signal = None THEN spoken
                   ELSE Append(spoken, [ts |-> bar.ts, src |-> out.signal, oi |-> f.oi])
  BY DEF Strategy!Decide
<1>2. bar \in BarsRead /\ bar.ts = Latest /\ Latest \in Int /\ Latest' = Latest
  BY <1>1, TheLatest DEF Told, Latest
<1>3. f.oi \in {None, "low", "high"}
  BY DEF Strategy!Facts
<1>4. out \in {Strategy!OnSignal(bar, f), Strategy!OnBar(bar, f)}
  OBVIOUS
<1> HIDE DEF bar, base, out
<1>5. \/ (out.signal = None /\ out.parked \in {None, parked})
      \/ (out.signal = None /\ out.parked # None /\ out.parked.ts = Latest)
      \/ (out.signal = Latest /\ out.parked = parked)
      \/ (out.signal = parked.ts /\ out.parked = None /\ parked # None)
  BY <1>2, <1>4, Outcomes
<1>6. ASSUME NEW src \in Int, src <= Latest,
             spoken' = Append(spoken, [ts |-> bar.ts, src |-> src, oi |-> f.oi])
      PROVE  /\ spoken' \in Seq(Signals)
             /\ \A i \in DOMAIN spoken' : spoken'[i].src \in Int /\ spoken'[i].src <= Latest
             /\ \A i \in DOMAIN spoken' :
                  (i \in DOMAIN spoken /\ spoken'[i].src = spoken[i].src)
                    \/ (i = Len(spoken) + 1 /\ spoken'[i].src = src)
  <2>1. [ts |-> bar.ts, src |-> src, oi |-> f.oi] \in Signals
        /\ [ts |-> bar.ts, src |-> src, oi |-> f.oi].src = src
    BY <1>2, <1>3 DEF BarsRead, Signals
  <2>2. /\ spoken' \in Seq(Signals) /\ Len(spoken) \in Nat
        /\ DOMAIN spoken = 1 .. Len(spoken) /\ DOMAIN spoken' = 1 .. Len(spoken) + 1
        /\ \A i \in 1 .. Len(spoken) : spoken'[i] = spoken[i]
        /\ spoken'[Len(spoken) + 1].src = src
    BY <1>6, <2>1, Appended DEF Told, StoreOK
  <2>3. \A i \in 1 .. Len(spoken) + 1 : i \in 1 .. Len(spoken) \/ i = Len(spoken) + 1
    BY <2>2
  <2>4. \A i \in DOMAIN spoken : spoken[i].src \in Int /\ spoken[i].src <= Latest
    BY DEF Told, StoreOK
  <2>. QED  BY <1>6, <2>2, <2>3, <2>4
<1>7. CASE spoken' = spoken /\ parked' \in {None, parked}
  BY <1>1, <1>2, <1>7 DEF Told, StoreOK, FirstTime, ParkedIsUnspoken, Strategy!OneSignalPerTrigger
<1>8. CASE spoken' = spoken /\ parked' # None /\ parked'.ts = Latest
  BY <1>1, <1>2, <1>8 DEF Told, StoreOK, FirstTime, ParkedIsUnspoken, Strategy!OneSignalPerTrigger
<1>9. CASE spoken' # spoken /\ out.signal = Latest /\ parked' = parked
  <2>1. spoken' = Append(spoken, [ts |-> bar.ts, src |-> Latest, oi |-> f.oi])
    BY <1>1, <1>9
  <2>2. Latest \notin redone => /\ \A i \in DOMAIN spoken : spoken[i].src # Latest
                                /\ parked # None => parked.ts # Latest
    BY <1>1, <1>2 DEF Told, StoreOK, FirstTime
  <2>. QED  BY <1>1, <1>2, <1>6, <1>9, <2>1, <2>2
            DEF Told, StoreOK, FirstTime, ParkedIsUnspoken, Strategy!OneSignalPerTrigger
<1>10. CASE spoken' # spoken /\ out.signal = parked.ts /\ parked' = None /\ parked # None
  <2>1. spoken' = Append(spoken, [ts |-> bar.ts, src |-> parked.ts, oi |-> f.oi])
    BY <1>1, <1>10
  <2>2. parked.ts \in Int /\ parked.ts <= Latest
    BY <1>10 DEF Told, StoreOK
  <2>3. parked.ts \notin redone => \A i \in DOMAIN spoken : spoken[i].src # parked.ts
    BY <1>10 DEF Told, ParkedIsUnspoken
  <2>. QED  BY <1>1, <1>2, <1>6, <1>10, <2>1, <2>2, <2>3
            DEF Told, StoreOK, FirstTime, ParkedIsUnspoken, Strategy!OneSignalPerTrigger
<1>. QED  BY <1>1, <1>5, <1>7, <1>8, <1>9, <1>10

\* The store keeps the bar that has just closed.
LEMMA LastIsKept ==
  ASSUME NEW s \in Seq(BarsRead), NEW b \in BarsRead, NEW n \in Nat, n > 0,
         NEW t, t = Strategy!LastN(Append(s, b), n)
  PROVE  t \in Seq(BarsRead) /\ t # <<>> /\ t[Len(t)] = b
<1> DEFINE a == Append(s, b)
<1>1. a \in Seq(BarsRead) /\ Len(a) \in Nat /\ Len(a) > 0 /\ a[Len(a)] = b
  BY Appended
<1>2. t = IF Len(a) <= n THEN a ELSE SubSeq(a, Len(a) - n + 1, Len(a))
  BY DEF Strategy!LastN
<1> HIDE DEF a
<1>3. CASE Len(a) <= n
  BY <1>1, <1>2, <1>3
<1>4. CASE Len(a) > n
  <2>1. t = SubSeq(a, Len(a) - n + 1, Len(a))
    BY <1>1, <1>2, <1>4
  <2>2. Len(a) - n + 1 \in 1 .. Len(a)
    BY <1>1, <1>4
  <2>3. t \in Seq(BarsRead) /\ Len(t) = n
    BY <1>1, <2>1, <2>2
  <2>4. t[n] = a[Len(a)]
    BY <1>1, <2>1, <2>2
  <2>. QED  BY <1>1, <2>3, <2>4
<1>. QED  BY <1>1, <1>3, <1>4

LEMMA ToldBarCloses ==
  ASSUME Told, NEW volume \in Volumes, NEW trend \in Strategy!Directions, NEW skipped \in 0 .. 1,
         Strategy!BarCloses(volume, trend, skipped)
  PROVE  Told'
<1> DEFINE b == [ts |-> Strategy!Last(hist).ts + (1 + skipped) * BarLength, vol |-> volume, trend |-> trend]
<1>1. hist' = Strategy!LastN(Append(hist, b), AvgBars + 4) /\ UNCHANGED <<parked, redone, spoken>>
  BY DEF Strategy!BarCloses
<1>2. Strategy!Last(hist).ts = Latest /\ Latest \in Int
  BY TheLatest DEF Told
<1>3. (1 + skipped) * BarLength \in Int /\ (1 + skipped) * BarLength > 0
  <2>1. CASE skipped = 0
    BY <2>1, BarNumbers
  <2>2. CASE skipped = 1
    BY <2>2, BarNumbers
  <2>. QED  BY <2>1, <2>2
<1>4. b \in BarsRead /\ b.ts > Latest
  BY <1>2, <1>3, BarNumbers DEF BarsRead, Strategy!Directions
<1> HIDE DEF b
<1>5. hist' \in Seq(BarsRead) /\ hist' # <<>> /\ Latest' = b.ts
  <2> DEFINE kept == AvgBars + 4
  <2>1. hist \in Seq(BarsRead) /\ kept \in Nat /\ kept > 0
    BY BarNumbers DEF Told, StoreOK
  <2>2. hist' = Strategy!LastN(Append(hist, b), kept)
    BY <1>1
  <2> HIDE DEF kept
  <2>3. hist' \in Seq(BarsRead) /\ hist' # <<>> /\ hist'[Len(hist')] = b
    BY <1>4, <2>1, <2>2, LastIsKept
  <2>. QED  BY <2>3 DEF Latest
<1>6. b.ts \in Int
  BY <1>4 DEF BarsRead
<1>7. \A i \in DOMAIN spoken : spoken[i].src \in Int
  BY DEF Told, StoreOK
<1>. QED  BY <1>1, <1>2, <1>4, <1>5, <1>6, <1>7
          DEF Told, StoreOK, FirstTime, ParkedIsUnspoken, Strategy!OneSignalPerTrigger

LEMMA ToldEmittedAgain ==
  ASSUME Told, NEW volume \in Volumes, Strategy!EmittedAgain(volume)
  PROVE  Told'
<1>1. /\ hist' = [hist EXCEPT ![Len(hist)].vol = volume] /\ UNCHANGED <<parked, spoken>>
      /\ redone' = redone \union {Strategy!Last(hist).ts}
  BY DEF Strategy!EmittedAgain
<1>2. hist \in Seq(BarsRead) /\ Len(hist) \in DOMAIN hist /\ hist[Len(hist)] \in BarsRead
      /\ Strategy!Last(hist).ts = Latest /\ volume \in Int
  BY BarNumbers, TheLatest DEF Told, StoreOK
<1>3. [hist[Len(hist)] EXCEPT !.vol = volume] \in BarsRead
      /\ [hist[Len(hist)] EXCEPT !.vol = volume].ts = Latest
  BY <1>2 DEF BarsRead, Latest
<1>4. hist' = [hist EXCEPT ![Len(hist)] = [hist[Len(hist)] EXCEPT !.vol = volume]]
  BY <1>1, <1>2
<1>5. hist' \in Seq(BarsRead) /\ Len(hist') = Len(hist)
      /\ hist'[Len(hist)] = [hist[Len(hist)] EXCEPT !.vol = volume]
  BY <1>2, <1>3, <1>4
<1>6. hist' # <<>> /\ Latest' = Latest /\ Latest \in Int
  BY <1>2, <1>3, <1>5 DEF Latest, BarsRead, Told, StoreOK
<1>. QED  BY <1>1, <1>2, <1>5, <1>6
          DEF Told, StoreOK, FirstTime, ParkedIsUnspoken, Strategy!OneSignalPerTrigger

LEMMA ToldOthers ==
  ASSUME Told, UNCHANGED <<hist, redone, spoken>>, parked' \in {None, parked}, due' => due
  PROVE  Told'
  BY DEF Told, StoreOK, FirstTime, ParkedIsUnspoken, Strategy!OneSignalPerTrigger, Latest

LEMMA ToldNext ==
  ASSUME Told, [Strategy!Next]_Strategy!vars
  PROVE  Told'
<1>1. CASE UNCHANGED Strategy!vars
  BY <1>1, ToldOthers DEF Strategy!vars
<1>2. ASSUME NEW volume \in Volumes, NEW trend \in Strategy!Directions, NEW skipped \in 0 .. 1,
             Strategy!BarCloses(volume, trend, skipped)
      PROVE  Told'
  BY <1>2, ToldBarCloses
<1>3. ASSUME NEW volume \in Volumes, Strategy!EmittedAgain(volume)
      PROVE  Told'
  BY <1>3, ToldEmittedAgain
<1>4. ASSUME NEW f \in Strategy!Facts, Strategy!Decide(f)
      PROVE  Told'
  BY <1>4, ToldDecide
<1>5. ASSUME NEW d \in DOMAIN decisions,
             Strategy!StepDone(d) \/ Strategy!StepFails(d) \/ Strategy!CounterFails(d)
      PROVE  Told'
  BY <1>5, ToldOthers DEF Strategy!StepDone, Strategy!StepFails, Strategy!CounterFails
<1>6. CASE Strategy!Restart
  BY <1>6, ToldOthers DEF Strategy!Restart
<1>. QED  BY <1>1, <1>2, <1>3, <1>4, <1>5, <1>6 DEF Strategy!Next

\* Of Decision, for any bars, verdicts, failures and restarts: a FUDKII trigger whose bar
\* was decided on once makes at most one FUKAA signal (fukaa.py on_signal and on_bar).
THEOREM OneSignalPerTriggerHolds == Strategy!Spec => []OneSignalPerTrigger
<1>1. Strategy!Init => Told
  BY ToldInit
<1>2. Told /\ [Strategy!Next]_Strategy!vars => Told'
  BY ToldNext
<1>3. Told => OneSignalPerTrigger
  BY DEF Told, OneSignalPerTrigger
<1>. QED  BY <1>1, <1>2, <1>3, PTL DEF Strategy!Spec

=============================================================================
