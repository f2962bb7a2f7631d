------------------------------ MODULE Control ------------------------------
(* What an operator and the broker's answers do to the engine's permission to   *)
(* trade: the mode and its arming, the halt, the kill button, and the position  *)
(* reconciler with its freeze (engine.py, exec/reconcile.py, api/routes.py).    *)
(* The ledger's control row outlives a crash; the freeze and the breaker do     *)
(* not. An order is two steps, its fill at the broker and the engine's record   *)
(* of it, because the reconciler can look between them; and its mirrors follow  *)
(* one by one, positions in the same contract that no order bought.             *)
EXTENDS Integers, FiniteSets

CONSTANTS
  Ids,          \* positions that may be opened, numbered in that order
  ParentOf,     \* mirror -> the position it is a copy of
  Contract,     \* position -> the contract it holds
  Lots,         \* what an order buys
  ArmFor,       \* armed_minutes
  MaxTime,      \* bound: the last time
  MaxNet,       \* bound: lots the broker shows in a contract, either way
  MaxCalls,     \* bound: operator calls, made one at a time, and their failing writes
  MaxTroubles,  \* bound: crashes, failed requests, refusals and trades made by hand
  None

ASSUME ControlAssumptions ==
  /\ Ids \subseteq Nat /\ {Lots, ArmFor, MaxTime, MaxNet, MaxCalls, MaxTroubles} \subseteq Nat
  /\ Lots > 0 /\ None \notin Nat
  /\ DOMAIN ParentOf \subseteq Ids /\ \A q \in DOMAIN ParentOf : ParentOf[q] \in Ids
  /\ \A q \in DOMAIN ParentOf : Contract[q] = Contract[ParentOf[q]]

VARIABLES
  now,
  up,        \* "down", "booting" until the first comparison is done, "running"
  control,   \* _mode, _armed_until, _halted
  row,       \* the ledger's control row
  call,      \* the operator's call in flight, None if there is none
  calls, troubles,
  tripped,   \* Gateway.breaker_tripped
  frozen,    \* Reconciler.frozen
  check,     \* the comparison under way, None if there is none
  book,      \* position -> qty_remaining while it is OPEN
  copies,    \* mirrors an entry has still to open
  order,     \* position -> its order in flight
  adrift,    \* orders working at the broker that nobody waits for any more
  venue,     \* contract -> what the broker's net positions show
  granted    \* ghost: the armings the operator may be relying on

vars == <<now, up, control, row, call, calls, troubles, tripped, frozen, check, book, copies,
          order, adrift, venue, granted>>

Codes == {Contract[p] : p \in Ids}

LiveModes == {"LIVE", "LIVE_CAPPED"}

\* An order: which way, and whether the broker has filled it.
Orders == [side : {"buy", "sell"}, filled : BOOLEAN]

\* A comparison with the broker: see Comparison.
Checks == [atVenue : BOOLEAN, held : SUBSET Ids, rows : [Codes -> Int] \union {None},
           orphans : SUBSET Codes, unmatched : SUBSET Ids]

ASSUME NoneIsNothing == None \notin Orders \union Checks

-----------------------------------------------------------------------------
(* Permission *)

Expired(c) == c.armed = None \/ c.armed < now

\* Mutant: mode() answers what was set, for ever.
ModeUnexpired == control.mode

Mode == IF control.mode \in LiveModes /\ Expired(control) THEN "PAPER" ELSE control.mode

Halted == control.halted \/ frozen \/ tripped

Quiet == UNCHANGED <<now, up, control, row, call, calls, granted>>

Trouble == troubles < MaxTroubles /\ troubles' = troubles + 1

-----------------------------------------------------------------------------
(* Comparing with the broker: the list of positions is taken before the request, *)
(* and each position's quantity is read when the answer is there.                *)

Open == {p \in Ids : book[p] > 0}

Abs(n) == IF n < 0 THEN -n ELSE n

\* What the broker shows while no position is in the contract.
Orphans(b, v) == {c \in Codes : v[c] # 0 /\ \A p \in Ids : Contract[p] = c => b[p] = 0}

\* Positions of another size than what the broker shows in their contract.
Unmatched(b, v) == {p \in Ids : b[p] > 0 /\ Abs(v[Contract[p]]) # b[p]}

\* ghosts `orphans` and `unmatched`: what has disagreed at every moment since the start.
Comparison(live) ==
  [atVenue |-> live, held |-> Open, rows |-> None,
   orphans |-> Orphans(book, venue), unmatched |-> Unmatched(book, venue)]

\* The book or the broker's positions moved while a comparison was under way.
Disturb ==
  check' = IF check = None THEN None
           ELSE [check EXCEPT !.orphans = @ \intersect Orphans(book', venue'),
                              !.unmatched = @ \intersect Unmatched(book', venue')]

\* Of the positions in one contract the dictionary keeps one, the last of the list; all
\* are of Lots here, so it does not matter which is taken.
Local(held, c) ==
  LET here == {p \in held : Contract[p] = c /\ book[p] > 0}
  IN IF here = {} THEN 0 ELSE book[CHOOSE p \in here : TRUE]

\* Mutant: what the broker does not show is not looked for.
MismatchWithoutPhantoms(k, c) ==
  k.rows[c] # 0 /\ (IF k.atVenue THEN Local(k.held, c) ELSE 0) # Abs(k.rows[c])

\* ORPHAN, QTY_MISMATCH or PHANTOM.
Mismatch(k, c) == (IF k.atVenue THEN Local(k.held, c) ELSE 0) # Abs(k.rows[c])

\* Every 60 s, in a live mode only.
Compare ==
  /\ up = "running" /\ check = None /\ Mode \in LiveModes
  /\ check' = Comparison(TRUE)
  /\ Quiet /\ UNCHANGED <<troubles, tripped, frozen, book, copies, order, adrift, venue>>

BrokerShows ==
  /\ check # None /\ check.rows = None
  /\ check' = [check EXCEPT !.rows = venue]
  /\ Quiet /\ UNCHANGED <<troubles, tripped, frozen, book, copies, order, adrift, venue>>

Compared ==
  /\ check # None /\ check.rows # None
  /\ frozen' = \E c \in Codes : Mismatch(check, c)
  /\ check' = None
  /\ up' = "running"
  /\ UNCHANGED <<now, control, row, call, calls, granted, troubles, tripped, book, copies, order,
                 adrift, venue>>

\* Fail closed.
CompareFails ==
  /\ check # None /\ check.rows = None /\ Trouble
  /\ frozen' = TRUE /\ check' = None /\ up' = "running"
  /\ UNCHANGED <<now, control, row, call, calls, granted, tripped, book, copies, order, adrift, venue>>

-----------------------------------------------------------------------------
(* Orders, in a live mode *)

MirrorsOf(p) == {q \in DOMAIN ParentOf : ParentOf[q] = p}

\* A mirror has no order of its own to be opened by.
PlaceEntry(p) ==
  /\ up = "running" /\ Mode \in LiveModes /\ ~Halted
  /\ p \notin DOMAIN ParentOf /\ order[p] = None
  /\ copies \intersect MirrorsOf(p) = {} /\ \A q \in {p} \union MirrorsOf(p) : book[q] = 0
  /\ order' = [order EXCEPT ![p] = [side |-> "buy", filled |-> FALSE]]
  /\ Quiet /\ UNCHANGED <<troubles, tripped, frozen, check, book, copies, adrift, venue>>

\* _manage_positions: a mirror is sold like any other.
PlaceExit(p) ==
  /\ up = "running" /\ Mode \in LiveModes
  /\ order[p] = None /\ book[p] > 0
  /\ order' = [order EXCEPT ![p] = [side |-> "sell", filled |-> FALSE]]
  /\ Quiet /\ UNCHANGED <<troubles, tripped, frozen, check, book, copies, adrift, venue>>

Traded(p, side) ==
  /\ venue' = [venue EXCEPT ![Contract[p]] = IF side = "buy" THEN @ + Lots ELSE @ - Lots]
  /\ Abs(venue'[Contract[p]]) <= MaxNet

BrokerFills(p) ==
  /\ order[p] # None /\ ~order[p].filled
  /\ order' = [order EXCEPT ![p].filled = TRUE]
  /\ Traded(p, order[p].side)
  /\ Quiet /\ UNCHANGED <<troubles, tripped, frozen, book, copies, adrift>> /\ Disturb

RecordFill(p) ==
  /\ up = "running" /\ order[p] # None /\ order[p].filled
  /\ book' = [book EXCEPT ![p] = IF order[p].side = "buy" THEN Lots ELSE 0]
  /\ copies' = IF order[p].side = "buy" THEN copies \union MirrorsOf(p) ELSE copies
  /\ order' = [order EXCEPT ![p] = None]
  /\ Quiet /\ UNCHANGED <<troubles, tripped, frozen, adrift, venue>> /\ Disturb

\* Armed no longer: the exit is filled on paper, whatever the broker holds.
PaperExit(p) ==
  /\ up = "running" /\ Mode = "PAPER" /\ order[p] = None /\ book[p] > 0
  /\ book' = [book EXCEPT ![p] = 0]
  /\ Quiet /\ UNCHANGED <<troubles, tripped, frozen, copies, order, adrift, venue>> /\ Disturb

\* _open_rt_twin: one mirror, of the parent as it is by now; nothing goes to the broker.
OpenMirror(q) ==
  /\ q \in copies
  /\ copies' = copies \ {q}
  /\ book' = [book EXCEPT ![q] = book[ParentOf[q]]]
  /\ Quiet /\ UNCHANGED <<troubles, tripped, frozen, order, adrift, venue>> /\ Disturb

\* Its purse, its segment, its exposure or dry volume is against it.
SkipMirror(q) ==
  /\ q \in copies
  /\ copies' = copies \ {q}
  /\ Quiet /\ UNCHANGED <<troubles, tripped, frozen, check, book, order, adrift, venue>>

\* The broker refuses, or does not say in time, and may fill the order yet; enough of
\* either in a row trip the breaker.
BrokerRefuses(p) ==
  /\ up = "running" /\ order[p] # None /\ ~order[p].filled /\ Trouble
  /\ order' = [order EXCEPT ![p] = None]
  /\ adrift' \in {adrift, adrift \union {[p |-> p, side |-> order[p].side]}}
  /\ tripped' \in {tripped, TRUE}
  /\ Quiet /\ UNCHANGED <<frozen, check, book, copies, venue>>

LateFill(o) ==
  /\ o \in adrift /\ adrift' = adrift \ {o}
  /\ Traded(o.p, o.side)
  /\ Quiet /\ UNCHANGED <<troubles, tripped, frozen, book, copies, order>> /\ Disturb

\* A trade made by hand in the same account.
TradedByHand(c) ==
  /\ Trouble
  /\ venue' = [venue EXCEPT ![c] = 0] /\ venue[c] # 0
  /\ Quiet /\ UNCHANGED <<tripped, frozen, book, copies, order, adrift>> /\ Disturb

-----------------------------------------------------------------------------
(* The operator: memory first, then the ledger *)

Calls(what, new) ==
  /\ up = "running" /\ call = None /\ calls < MaxCalls
  /\ calls' = calls + 1
  /\ call' = [what |-> what, new |-> new]
  /\ control' = new
  /\ UNCHANGED <<now, up, row, troubles, tripped, frozen, check, book, copies, order,
                 adrift, venue>>

SetMode(mode) ==
  LET armed == IF mode \in LiveModes THEN now + ArmFor ELSE None
  IN /\ Calls("mode", [control EXCEPT !.mode = mode, !.armed = armed])
     /\ granted' = granted \union {armed}

SetHalt(halted) ==
  Calls("halt", [control EXCEPT !.halted = halted]) /\ UNCHANGED granted

Kill == Calls("kill", [control EXCEPT !.halted = TRUE]) /\ UNCHANGED granted

\* set_mode and set_halt each update their own columns.
Stored(c) ==
  IF c.what = "mode" THEN [row EXCEPT !.mode = c.new.mode, !.armed = c.new.armed]
  ELSE [row EXCEPT !.halted = c.new.halted]

\* The call is answered, but a kill goes on to the broker's bulk square-off.
Store ==
  /\ up = "running" /\ call # None /\ call.what # "square"
  /\ row' = Stored(call)
  /\ call' = IF call.what = "kill" /\ Mode \in LiveModes THEN [call EXCEPT !.what = "square"]
             ELSE None
  /\ granted' = IF call.what = "mode" THEN {call.new.armed} ELSE granted
  /\ UNCHANGED <<now, up, control, calls, troubles, tripped, frozen, check, book, copies, order,
                 adrift, venue>>

\* The ledger's write raises: memory keeps the new record, the operator has an error,
\* and a kill goes no further.
StoreFails ==
  /\ up = "running" /\ call # None /\ call.what # "square" /\ calls < MaxCalls
  /\ call' = None /\ calls' = calls + 1
  /\ UNCHANGED <<now, up, control, row, granted, troubles, tripped, frozen, check, book, copies,
                 order, adrift, venue>>

SquareOff ==
  /\ call # None /\ call.what = "square"
  /\ venue' = [c \in Codes |-> 0]
  /\ call' = None
  /\ UNCHANGED <<now, up, control, row, calls, granted, troubles, tripped, frozen, book, copies,
                 order, adrift>>
  /\ Disturb

ResetBreaker ==
  /\ up = "running" /\ tripped /\ calls < MaxCalls
  /\ calls' = calls + 1 /\ tripped' = FALSE
  /\ UNCHANGED <<now, up, control, row, call, granted, troubles, frozen, check, book, copies, order,
                 adrift, venue>>

-----------------------------------------------------------------------------
(* POST /control/reconcile and /control/acknowledge name engine.reconciler, the *)
(* reconciler of bars, which has neither run() nor acknowledge(): the request   *)
(* fails with the freeze as it was.                                             *)

Acknowledged ==
  /\ up = "running" /\ calls < MaxCalls
  /\ calls' = calls + 1
  /\ UNCHANGED <<now, up, control, row, call, granted, troubles, tripped, frozen, check, book,
                 copies, order, adrift, venue>>

-----------------------------------------------------------------------------
(* Time and crashes *)

Tick ==
  /\ now < MaxTime /\ now' = now + 1
  /\ UNCHANGED <<up, control, row, call, calls, troubles, tripped, frozen, check, book, copies,
                 order, adrift, venue, granted>>

\* An order the broker has filled is known to the broker alone; one it has not stays
\* with it. Positions are saved with every record.
Crash ==
  /\ up # "down" /\ Trouble
  /\ up' = "down" /\ call' = None /\ check' = None /\ copies' = {}
  /\ order' = [p \in Ids |-> None]
  /\ adrift' = adrift \union {[p |-> p, side |-> order[p].side] :
                              p \in {q \in Ids : order[q] # None /\ ~order[q].filled}}
  /\ UNCHANGED <<now, control, row, calls, granted, tripped, frozen, book, venue>>

Boots(r) == IF r.mode \in LiveModes /\ Expired(r) THEN [r EXCEPT !.mode = "PAPER"] ELSE r

\* _load_control, then the boot's comparison, in any mode.
Boot ==
  /\ up = "down"
  /\ up' = "booting"
  /\ control' = Boots(row)
  /\ row' = IF control'.mode = row.mode THEN row ELSE [row EXCEPT !.mode = "PAPER", !.armed = None]
  /\ frozen' = FALSE /\ tripped' = FALSE
  /\ check' = Comparison(control'.mode \in LiveModes)
  /\ UNCHANGED <<now, call, calls, troubles, book, copies, order, adrift, venue, granted>>

-----------------------------------------------------------------------------
Init ==
  /\ now = 0 /\ up = "running" /\ calls = 0 /\ troubles = 0
  /\ control = [mode |-> "SHADOW", armed |-> None, halted |-> FALSE]
  /\ row = control
  /\ call = None /\ check = None
  /\ tripped = FALSE /\ frozen = FALSE
  /\ book = [p \in Ids |-> 0] /\ order = [p \in Ids |-> None]
  /\ copies = {} /\ adrift = {}
  /\ venue = [c \in Codes |-> 0]
  /\ granted = {None}

Operator ==
  \/ \E mode \in {"PAPER", "LIVE"} : SetMode(mode)
  \/ \E halted \in BOOLEAN : SetHalt(halted)
  \/ Kill \/ Store \/ StoreFails \/ SquareOff \/ ResetBreaker \/ Acknowledged

Trade(p) ==
  \/ PlaceEntry(p) \/ PlaceExit(p) \/ BrokerFills(p) \/ RecordFill(p) \/ BrokerRefuses(p)
  \/ OpenMirror(p) \/ SkipMirror(p) \/ PaperExit(p)

Reconcile == Compare \/ BrokerShows \/ Compared \/ CompareFails

Next ==
  \/ Operator \/ Reconcile
  \/ \E p \in Ids : Trade(p)
  \/ \E o \in adrift : LateFill(o)
  \/ \E c \in Codes : TradedByHand(c)
  \/ Tick \/ Crash \/ Boot

Spec == Init /\ [][Next]_vars

-----------------------------------------------------------------------------
(* What must hold *)

\* Real orders go out only inside a window the operator armed and may still be
\* relying on, across crashes, expiries and answers he never got (engine.mode,
\* _load_control).
LiveOnlyWhileArmed ==
  up = "running" /\ Mode \in LiveModes => \E g \in granted \ {None} : now <= g

\* Whatever fills, is copied, sold or lapses while a comparison is under way: what has
\* disagreed ever since it began does freeze entries, a contract the broker shows and
\* the book is not in, in any mode, and live a position whose quantity is not the
\* broker's (Reconciler.run).
StandingMismatchFreezes ==
  [][check # None /\ check.rows # None /\ check' = None /\ up' # "down"
       => (check.orphans # {} \/ (check.atVenue /\ check.unmatched # {}) => frozen')]_vars

=============================================================================
