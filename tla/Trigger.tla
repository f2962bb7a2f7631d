------------------------------- MODULE Trigger -------------------------------
(* What the books do with a FUDKII trigger, and what the pages say they did: the  *)
(* parent's entry, its mirror, the fade and its mirror, the operator's takes and  *)
(* skips, and the cards and the day book that are read back from the ledger       *)
(* (Engine.book_cards, api/daybook.py: assemble).  One symbol; the triggers are   *)
(* its decision bars.  Orders, purses and exits are EntryPath's and ExitPath's:   *)
(* here an order is filled or it is not.                                          *)
EXTENDS Integers, FiniteSetsExt

CONSTANTS Slots,    \* the half hours of the session
          Bars,     \* those whose bar may trigger
          Operators,\* the requests that may be in flight at once
          MaxTakes, \* how often the operator takes
          MaxBoots, \* how often the engine starts anew
          None

Mirror == "RT_X"   \* RT_N and RT_Y are mirrored alike
Fader == "CT_X"
FadeMirror == "CT_Y"
CounterBooks == {Fader, FadeMirror}
Books == {"FUDKII", Mirror} \union CounterBooks

Ids == [book : Books, bar : Bars, fade : BOOLEAN]
Position == [id : Ids, book : Books, open : BOOLEAN, slot : Nat, auto : BOOLEAN]

TriggerAssumption == Slots \in Nat /\ Bars \subseteq 1..Slots /\ None \notin Position

VARIABLES now,       \* the half hour
          task,      \* a decision or a request of the operator, at its await
          today,     \* _signals_today
          seen,      \* the client order ids the gateway knows
          positions, \* in memory, by their number
          signals,   \* the ledger: the decision recorded for a signal,
          rows,      \*   the positions, by the same,
          events,    \*   and the events
          takes, boots

vars == <<now, task, today, seen, positions, signals, rows, events, takes, boots>>

\* Signal.signal_id is of the strategy, the bar and the direction.
IdOf(book, bar) == [book |-> book, bar |-> bar, fade |-> book \in CounterBooks]
Parent(bar) == IdOf("FUDKII", bar)
FadeOf(bar) == IdOf(Fader, bar)

\* source_signal_id: only a fade has one.
Source(id) == IF id.fade THEN Parent(id.bar) ELSE None

Idle == [at |-> "idle", id |-> None, auto |-> FALSE]
Enter(id, auto) == [at |-> "select", id |-> id, auto |-> auto]

Init ==
  /\ now = 1 /\ task = [k \in Bars \union Operators |-> Idle]
  /\ today = {} /\ seen = {} /\ positions = <<>>
  /\ signals = <<>> /\ rows = <<>> /\ events = {}
  /\ takes = 0 /\ boots = 0

Holds(book) == \E i \in DOMAIN positions : positions[i].book = book /\ positions[i].open

\* insert_signal: ON CONFLICT DO NOTHING.
Recorded(id, decision) ==
  [i \in DOMAIN signals \union {id} |-> IF i \in DOMAIN signals THEN signals[i] ELSE decision]

-----------------------------------------------------------------------------
(* Engine._decide hands a trigger to _handle_signal, then to _handle_counter.     *)

\* Half an hour, in which decisions and requests take seconds; the bar it ends may trigger.
Passes ==
  /\ now <= Slots /\ \A k \in DOMAIN task : task[k] = Idle
  /\ now' = now + 1
  /\ \/ UNCHANGED <<task, today>>
     \/ /\ now \in Bars
        /\ task' = [task EXCEPT ![now] = Enter(Parent(now), TRUE)]
        /\ today' = today \union {Parent(now)}
  /\ UNCHANGED <<seen, positions, signals, rows, events, takes, boots>>

\* After the entry: the trigger's own task goes on to the counter route.
After(k) == IF task[k].auto /\ task[k].id = Parent(k) THEN [task[k] EXCEPT !.at = "route"] ELSE Idle

\* Every return before the order: no contract, no money, no room in the book.
Declined(k) ==
  /\ task[k].at = "select"
  /\ signals' = Recorded(task[k].id, "DECLINED")
  /\ task' = [task EXCEPT ![k] = After(k)]
  /\ UNCHANGED <<now, today, seen, positions, rows, events, takes, boots>>

\* Mutant: the gateway does not know the id of the order.
SubmitsAnyway(k) ==
  /\ task[k].at = "select" /\ ~Holds(task[k].id.book)
  /\ task' = [task EXCEPT ![k].at = "order"]
  /\ UNCHANGED <<now, today, seen, positions, signals, rows, events, takes, boots>>

\* ExposureBook.check: a book that holds the name is full. Then the gateway: an id is sent once.
Submits(k) ==
  /\ task[k].at = "select" /\ ~Holds(task[k].id.book)
  /\ IF task[k].id \in seen
       THEN /\ signals' = Recorded(task[k].id, "DUPLICATE")
            /\ task' = [task EXCEPT ![k] = After(k)] /\ UNCHANGED seen
       ELSE /\ seen' = seen \union {task[k].id}
            /\ task' = [task EXCEPT ![k].at = "order"] /\ UNCHANGED signals
  /\ UNCHANGED <<now, today, positions, rows, events, takes, boots>>

Unfilled(k) ==
  /\ task[k].at = "order"
  /\ signals' = Recorded(task[k].id, "REJECTED")
  /\ task' = [task EXCEPT ![k] = After(k)]
  /\ UNCHANGED <<now, today, seen, positions, rows, events, takes, boots>>

\* by: what entered it, the engine or the operator.
Opened(id, book, auto) == [id |-> id, book |-> book, open |-> TRUE, slot |-> now, auto |-> auto]

\* position_id: a number nobody has yet.
Number == Max(DOMAIN positions \union DOMAIN rows \union {0}) + 1

With(p) == [i \in DOMAIN positions \union {Number} |-> IF i = Number THEN p ELSE positions[i]]

\* The order's row and the signal's are written first, then the position is made.
Filled(k) ==
  /\ task[k].at = "order"
  /\ signals' = Recorded(task[k].id, "FILLED")
  /\ positions' = With(Opened(task[k].id, task[k].id.book, task[k].auto))
  /\ task' = [task EXCEPT ![k].at = "save"]
  /\ UNCHANGED <<now, today, seen, rows, events, takes, boots>>

\* upsert_position, for what a book opened under one id.
SaveOf(ps, id, book) ==
  [i \in DOMAIN rows \union {j \in DOMAIN ps : ps[j].id = id /\ ps[j].book = book} |->
     IF i \in DOMAIN rows THEN rows[i] ELSE ps[i]]

Saves(k) ==
  /\ task[k].at = "save"
  /\ rows' = SaveOf(positions, task[k].id, task[k].id.book)
  /\ task' = [task EXCEPT ![k].at = "mirror"]
  /\ UNCHANGED <<now, today, seen, positions, signals, events, takes, boots>>

MirrorOf(book) == IF book = "FUDKII" THEN Mirror ELSE IF book = Fader THEN FadeMirror ELSE None

\* _open_rt_twin: the mirror takes the fill, under the same signal id; or stands aside and
\* says so, or says nothing when its purse is halted. A book of its own mirrors nothing.
OpensTwin(k) ==
  LET twin == MirrorOf(task[k].id.book)
      ps == With(Opened(task[k].id, twin, task[k].auto))
  IN  /\ task[k].at = "mirror" /\ twin # None /\ ~Holds(twin)
      /\ positions' = ps
      /\ rows' = SaveOf(ps, task[k].id, twin)
      /\ task' = [task EXCEPT ![k] = After(k)]
      /\ UNCHANGED <<now, today, seen, signals, events, takes, boots>>

StandsAside(k) ==
  LET twin == MirrorOf(task[k].id.book)
  IN  /\ task[k].at = "mirror"
      /\ \/ events' = events \union {[kind |-> "skipped", id |-> task[k].id, book |-> b] : b \in {twin} \ {None}}
         \/ UNCHANGED events
      /\ task' = [task EXCEPT ![k] = After(k)]
      /\ UNCHANGED <<now, today, seen, positions, signals, rows, takes, boots>>

-----------------------------------------------------------------------------
(* _handle_counter, when the entry is done with.                                  *)

Routed(bar, route) == events \union {[kind |-> route, id |-> Parent(bar), book |-> None]}

StaysInTrend(bar) ==
  /\ task[bar].at = "route"
  /\ events' = Routed(bar, "IN_TREND")
  /\ task' = [task EXCEPT ![bar] = Idle]
  /\ UNCHANGED <<now, today, seen, positions, signals, rows, takes, boots>>

\* The fade has no wall to aim at: its row is the trigger's own, and that one is there already.
FadesWithoutPlan(bar) ==
  /\ task[bar].at = "route"
  /\ events' = Routed(bar, "COUNTER")
  /\ signals' = Recorded(Parent(bar), "COUNTER_NO_PLAN")
  /\ task' = [task EXCEPT ![bar] = Idle]
  /\ UNCHANGED <<now, today, seen, positions, rows, takes, boots>>

Fades(bar) ==
  /\ task[bar].at = "route"
  /\ events' = Routed(bar, "COUNTER")
  /\ today' = today \union {FadeOf(bar)}
  /\ task' = [task EXCEPT ![bar] = Enter(FadeOf(bar), TRUE)]
  /\ UNCHANGED <<now, seen, positions, signals, rows, takes, boots>>

-----------------------------------------------------------------------------
(* The operator.                                                                  *)

\* operator_take: the same signal under the book's name, or the fade of it.
Takes(k, book, bar) ==
  /\ task[k] = Idle /\ takes < MaxTakes
  /\ Parent(bar) \in today /\ ~Holds(book)
  /\ takes' = takes + 1
  /\ today' = today \union {IdOf(book, bar)}
  /\ task' = [task EXCEPT ![k] = Enter(IdOf(book, bar), FALSE)]
  /\ UNCHANGED <<now, seen, positions, signals, rows, events, boots>>

\* What operator_skip finds for a card.
HeldOn(book, bar) ==
  {i \in DOMAIN positions :
     /\ positions[i].open /\ positions[i].book = book
     /\ \/ positions[i].id = Parent(bar)
        \/ positions[i].id \in today /\ Source(positions[i].id) = Parent(bar)}

\* The position leaves, in memory and in its row.
Leaves(i) ==
  /\ positions' = [positions EXCEPT ![i].open = FALSE]
  /\ rows' = IF i \in DOMAIN rows THEN [rows EXCEPT ![i].open = FALSE] ELSE rows

Skips(book, bar) ==
  /\ HeldOn(book, bar) # {}
  /\ Leaves(CHOOSE i \in HeldOn(book, bar) : \A j \in HeldOn(book, bar) : i <= j)
  /\ UNCHANGED <<now, task, today, seen, signals, events, takes, boots>>

\* The exit engine closes a position; its own row is there by then.
Exits(i) ==
  /\ positions[i].open /\ i \in DOMAIN rows
  /\ Leaves(i)
  /\ UNCHANGED <<now, task, today, seen, signals, events, takes, boots>>

-----------------------------------------------------------------------------
\* Engine.start: the open positions and the order ids come from the ledger, the signals do not.
Boots ==
  /\ boots < MaxBoots /\ boots' = boots + 1
  /\ task' = [k \in DOMAIN task |-> Idle]
  /\ today' = {} /\ seen' = seen \intersect DOMAIN signals
  /\ positions' = [i \in {j \in DOMAIN rows : rows[j].open} |-> rows[i]]
  /\ UNCHANGED <<now, signals, rows, events, takes>>

Enters(k) ==
  Declined(k) \/ Submits(k) \/ Unfilled(k) \/ Filled(k) \/ Saves(k) \/ OpensTwin(k) \/ StandsAside(k)

Next ==
  \/ \E bar \in Bars : StaysInTrend(bar) \/ FadesWithoutPlan(bar) \/ Fades(bar)
  \/ \E k \in DOMAIN task : Enters(k)
  \/ \E book \in Books, bar \in Bars : Skips(book, bar) \/ \E k \in Operators : Takes(k, book, bar)
  \/ \E i \in DOMAIN positions : Exits(i)
  \/ Passes \/ Boots

Spec == Init /\ [][Next]_vars

-----------------------------------------------------------------------------
(* The pages.                                                                     *)

\* The signal a book would have entered on: for a counter book the fade CT-X recorded, if any.
EntrySignal(book, bar) ==
  IF book \notin CounterBooks THEN Parent(bar)
  ELSE IF FadeOf(bar) \in DOMAIN signals THEN FadeOf(bar) ELSE None

\* pos_by_key: the last row of the book's under that signal.
RowOf(book, bar) ==
  LET found == {i \in DOMAIN rows : rows[i].book = book /\ rows[i].id = EntrySignal(book, bar)}
  IN  IF found = {} THEN None ELSE rows[CHOOSE i \in found : \A j \in found : j <= i]

RouteOf(bar) ==
  LET found == {e.kind : e \in {x \in events : x.id = Parent(bar) /\ x.kind # "skipped"}}
  IN  IF found = {} THEN None ELSE CHOOSE r \in found : TRUE

CounterState(bar) ==
  IF RouteOf(bar) = None THEN "NO_ROUTE"
  ELSE IF RouteOf(bar) = "IN_TREND" THEN "IN_TREND"
  ELSE IF FadeOf(bar) \notin DOMAIN signals THEN "COUNTER_NO_PLAN"
  ELSE signals[FadeOf(bar)]

\* A trigger whose row is in the ledger has a card in every book.
Card(book, bar) ==
  LET held == RowOf(book, bar)
  IN  IF held # None THEN (IF held.open THEN "OPEN" ELSE "TRADED")
      ELSE IF book = "FUDKII" THEN signals[Parent(bar)]
      ELSE IF book \in CounterBooks THEN CounterState(bar)
      ELSE IF \E e \in events : e.kind = "skipped" /\ e.id = Parent(bar) /\ e.book = book THEN "SKIPPED"
      ELSE IF signals[Parent(bar)] = "FILLED" THEN "NOT_MIRRORED"
      ELSE "NO_FILL"

\* Mutant: within half an hour.
ListedNearer(p, bar) == p.slot - bar \in -1..0

\* assemble: a position of the symbol opened within the hour of the bar's start, either side.
Listed(p, bar) == p.slot - bar \in -2..1

-----------------------------------------------------------------------------
(* A book enters a signal once, whatever the engine, the mirror and the operator  *)
(* do meanwhile (gateway.py: a client order id is sent once): two positions under *)
(* one signal would be one card.                                                  *)
OneEntryPerSignal ==
  \A i, j \in DOMAIN rows : rows[i].id = rows[j].id /\ rows[i].book = rows[j].book => i = j

(* What the engine itself entered for a book is on that book's card of that       *)
(* trigger, and in the day book under it, after a restart as before it            *)
(* (Engine.book_cards: "Assembled from the ledger (so a restart loses nothing)"). *)
EntriesAreShown ==
  \A i \in DOMAIN rows :
    rows[i].auto =>
      /\ Parent(rows[i].id.bar) \in DOMAIN signals
      /\ Card(rows[i].book, rows[i].id.bar) \in {"OPEN", "TRADED"}
      /\ Listed(rows[i], rows[i].id.bar)

=============================================================================
