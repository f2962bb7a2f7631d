----------------------------- MODULE EntryPath ------------------------------
(***************************************************************************)
(* How a signal becomes a position (engine.py, _handle_signal and what it  *)
(* calls).  Every closed 30-minute bar is handled in a task of its own and *)
(* an operator's take is one more, so several entries are under way at     *)
(* once, interleaving wherever the handler awaits: the broker's answer,    *)
(* the ledger's writes, the volumes a mirror asks for.  Between two awaits *)
(* the handler runs alone, and is one action here.                         *)
(*                                                                         *)
(* A task is one call of _handle_signal.  Its record says where it is      *)
(* suspended and what it carries across: the money it holds, the fill it   *)
(* got, the books still to mirror into, the rows it has already serialised *)
(* for the ledger.                                                         *)
(*                                                                         *)
(* Chosen by the environment: whether a signal gets as far as the sizer    *)
(* and for what outlay, whether there is a book to fill against, what the  *)
(* broker answers and when, the slippage of a fill, when a position is     *)
(* exited and for how much, mode changes, halts, crashes, failing writes.  *)
(***************************************************************************)
EXTENDS Wallet, Gateway, FiniteSets, FiniteSetsExt

CONSTANTS
    Tasks,             \* calls of _handle_signal
    Books,             \* strategy keys with a wallet of their own
    Symbols,           \* underlyings
    Ids,               \* client order ids, one per signal
    BookOf, SymbolOf, IdOf,   \* what each task was called for
    Twins,             \* book -> the books a fill of it is mirrored into
    StartModes,        \* modes the control table may hold at boot
    Initial,           \* rupees a book starts with
    Outlays,           \* outlays the sizer may come to
    Slips,             \* fill cost minus quoted outlay
    Charge,            \* charges of one leg
    PnLs,              \* gross results an exit may realise
    PositionPct,       \* RiskLimits.position_budget as a share of the balance
    MaxPerBook,        \* min(max_positions_per_strategy, max_positions_all_books)
    MaxPerUnderlying,  \* max_positions_per_underlying
    MaxUnderlyingPct,  \* max_underlying_exposure_pct
    MaxMishaps,        \* bound: crashes and failing ledger writes in a behaviour
    MaxInterventions   \* bound: halts, mode changes, resets, snapshots, exits

ASSUME EntryAssumptions ==
    /\ IsFiniteSet(Tasks)
    /\ BookOf \in [Tasks -> Books]
    /\ SymbolOf \in [Tasks -> Symbols]
    /\ IdOf \in [Tasks -> Ids]
    /\ Twins \in [Books -> SUBSET Books]
    /\ \A b \in Books : b \notin Twins[b]
    /\ StartModes \subseteq Modes
    /\ Initial \in Nat
    /\ Outlays \subseteq Nat \ {0}
    /\ Slips \subseteq Int
    /\ Charge \in Nat
    /\ PnLs \subseteq Int
    /\ {PositionPct, MaxPerBook, MaxPerUnderlying, MaxUnderlyingPct} \subseteq Nat
    /\ {MaxMishaps, MaxInterventions} \subseteq Nat

VARIABLES
    task,          \* the handlers under way
    purse,         \* Engine.wallets
    pos,           \* Engine.positions: pos[t][b] is what t opened in book b
    gw,            \* the gateway's bookkeeping
    mode,          \* Engine._mode
    halted,        \* operator halt or a frozen reconciler
    venue,         \* what became of t's order at the broker
    orderRows, positionRows, walletRows,   \* the ledger
    crashes, faults, interventions,        \* counted against their bounds
    slip           \* ghost: per book, cost of fills beyond the money held for them

memory == <<task, purse, pos, gw>>
control == <<mode, halted>>
ledger == <<orderRows, positionRows, walletRows>>
env == <<crashes, faults, interventions>>
vars == <<task, purse, pos, gw, mode, halted, venue,
          orderRows, positionRows, walletRows, crashes, faults, interventions, slip>>

-----------------------------------------------------------------------------
(* States *)

NoSnapshot == NewPurse(0)

Stages == {"signal", "placing", "recording", "saving_position", "saving_wallet",
           "mirroring", "done"}

TaskState ==
    [stage    : Stages,
     hold     : Nat,                    \* reserved and neither released nor committed
     cost     : Nat,                    \* what the fill cost, 0 without a fill
     left     : SUBSET Books,           \* keys _open_rt_twin has still to visit
     at       : Books,                  \* the book of the position being saved
     row      : {"OPEN", "CLOSED"},     \* its status when it was serialised
     snapshot : Purse]

Idle(t) ==
    [stage |-> "signal", hold |-> 0, cost |-> 0, left |-> {},
     at |-> BookOf[t], row |-> "OPEN", snapshot |-> NoSnapshot]

\* "none": not in the dictionary yet; "gone": exited and popped from it.
\* A CLOSED position still in the dictionary is a mirror of a closed parent.
PositionState == [status : {"none", "OPEN", "CLOSED", "gone"}, cost : Nat]

NoPosition == [status |-> "none", cost |-> 0]

Init ==
    /\ task = [t \in Tasks |-> Idle(t)]
    /\ purse = [b \in Books |-> NewPurse(Initial)]
    /\ pos = [t \in Tasks |-> [b \in Books |-> NoPosition]]
    /\ gw = Rebooted({})
    /\ mode \in StartModes
    /\ halted = FALSE
    /\ venue = [t \in Tasks |-> "none"]
    /\ orderRows = {}
    /\ positionRows = [t \in Tasks |-> [b \in Books |-> NoPosition]]
    /\ walletRows = [b \in Books |-> NewPurse(Initial)]
    /\ crashes = 0
    /\ faults = 0
    /\ interventions = 0
    /\ slip = [b \in Books |-> 0]

OpenIn(b) == {t \in Tasks : pos[t][b].status = "OPEN"}

OpenPositions == {tb \in Tasks \X Books : pos[tb[1]][tb[2]].status = "OPEN"}

\* Engine.halted(): whatever the reason, entries stop.
Halted == halted \/ gw.breaker_tripped

-----------------------------------------------------------------------------
(* From the signal to the gateway: one block without an await *)

ExposureAllows(b, sym, outlay) ==
    LET same == {u \in OpenIn(b) : SymbolOf[u] = sym}
        current == SumFunctionOnSet([u \in same |-> pos[u][b].cost], same)
        capital == purse[b].balance
    IN  /\ Cardinality(OpenIn(b)) < MaxPerBook
        /\ Cardinality(same) < MaxPerUnderlying
        /\ capital > 0 => (current + outlay) * 100 <= MaxUnderlyingPct * capital

\* size_position keeps the outlay within the position budget and what is left.
Sized(w, outlay) ==
    /\ outlay * 100 <= PositionPct * w.balance
    /\ outlay <= Available(w)

\* The checks of _handle_signal that let a signal through to the gateway.
Admitted(t, outlay) ==
    LET b == BookOf[t] IN
    /\ task[t].stage = "signal"
    /\ purse[b].halt = "none"
    /\ Sized(purse[b], outlay)
    /\ ExposureAllows(b, SymbolOf[t], outlay)
    /\ CanReserve(purse[b], outlay)

\* The outlay is taken from the purse before the order is submitted.
HoldAnd(t, outlay, cost, stage) ==
    /\ purse' = [purse EXCEPT ![BookOf[t]] = Deploy(@, outlay)]
    /\ task' = [task EXCEPT ![t].stage = stage, ![t].hold = outlay, ![t].cost = cost]

\* No instrument, another segment, a halted purse, not sized, no exposure left.
Decline(t) ==
    /\ task[t].stage = "signal"
    /\ task' = [task EXCEPT ![t].stage = "done"]
    /\ UNCHANGED <<purse, pos, gw, control, venue, ledger, env, slip>>

RefuseDuplicate(t, outlay) ==
    /\ Admitted(t, outlay)
    /\ Duplicate(gw, IdOf[t])
    /\ HoldAnd(t, outlay, 0, "recording")
    /\ UNCHANGED <<pos, gw, control, venue, ledger, env, slip>>

RefuseHalted(t, outlay) ==
    /\ Admitted(t, outlay)
    /\ ~Duplicate(gw, IdOf[t])
    /\ Halted
    /\ gw' = Reject(See(gw, IdOf[t]))
    /\ HoldAnd(t, outlay, 0, "recording")
    /\ UNCHANGED <<pos, control, venue, ledger, env, slip>>

\* Past the idempotency and halt checks, in every mode.
Prechecked(t) == ~Duplicate(gw, IdOf[t]) /\ ~Halted

ShadowOnly(t, outlay) ==
    /\ Admitted(t, outlay)
    /\ Prechecked(t)
    /\ mode = "SHADOW"
    /\ gw' = ShadowOk(See(gw, IdOf[t]))
    /\ HoldAnd(t, outlay, 0, "recording")
    /\ UNCHANGED <<pos, control, venue, ledger, env, slip>>

\* NoBook: no depth and no last price, stale depth, or nothing near the touch.
RefuseNoBook(t, outlay) ==
    /\ Admitted(t, outlay)
    /\ Prechecked(t)
    /\ mode = "PAPER"
    /\ gw' = Reject(See(gw, IdOf[t]))
    /\ HoldAnd(t, outlay, 0, "recording")
    /\ UNCHANGED <<pos, control, venue, ledger, env, slip>>

PaperFill(t, outlay, s) ==
    /\ Admitted(t, outlay)
    /\ Prechecked(t)
    /\ mode = "PAPER"
    /\ outlay + s > 0
    /\ gw' = Filled(See(gw, IdOf[t]))
    /\ HoldAnd(t, outlay, outlay + s, "recording")
    /\ UNCHANGED <<pos, control, venue, ledger, env, slip>>

\* The caps see the open positions _submit counted a moment before.
WithinCaps(ok) == mode = "LIVE_CAPPED" => CapsAllow(gw, Cardinality(OpenPositions), ok)

RefuseCapped(t, outlay) ==
    /\ Admitted(t, outlay)
    /\ Prechecked(t)
    /\ mode \in LiveModes
    /\ \E ok \in BOOLEAN : ~WithinCaps(ok)
    /\ gw' = Reject(See(gw, IdOf[t]))
    /\ HoldAnd(t, outlay, 0, "recording")
    /\ UNCHANGED <<pos, control, venue, ledger, env, slip>>

PlaceLive(t, outlay) ==
    /\ Admitted(t, outlay)
    /\ Prechecked(t)
    /\ mode \in LiveModes
    /\ WithinCaps(TRUE)
    /\ gw' = See(gw, IdOf[t])
    /\ venue' = [venue EXCEPT ![t] = "working"]
    /\ HoldAnd(t, outlay, 0, "placing")
    /\ UNCHANGED <<pos, control, ledger, env, slip>>

-----------------------------------------------------------------------------
(* The broker, and the executor polling it *)

VenueSettles(t, outcome) ==
    /\ venue[t] = "working"
    /\ venue' = [venue EXCEPT ![t] = outcome]
    /\ UNCHANGED <<memory, control, ledger, env, slip>>

LiveFilled(t, s) ==
    /\ task[t].stage = "placing"
    /\ venue[t] = "filled"
    /\ task[t].hold + s > 0
    /\ gw' = Filled(gw)
    /\ task' = [task EXCEPT ![t].stage = "recording", ![t].cost = task[t].hold + s]
    /\ UNCHANGED <<purse, pos, control, venue, ledger, env, slip>>

\* The placement failed, the order ended badly, or the polls ran out of time:
\* in the last case the order may be working still, or be filled already.
LiveRefused(t) ==
    /\ task[t].stage = "placing"
    /\ gw' = Reject(gw)
    /\ task' = [task EXCEPT ![t].stage = "recording"]
    /\ UNCHANGED <<purse, pos, control, venue, ledger, env, slip>>

-----------------------------------------------------------------------------
(* The order is on record: the hold is given back, or becomes a position *)

\* Mutant: a refusal returns early and keeps its hold.
RecordRefusalKeepsHold(t) ==
    /\ task[t].stage = "recording"
    /\ task[t].cost = 0
    /\ orderRows' = orderRows \cup {IdOf[t]}
    /\ task' = [task EXCEPT ![t].stage = "done"]
    /\ UNCHANGED <<purse, pos, gw, control, venue, positionRows, walletRows, env, slip>>

\* The order's write and the signal's are one step: only a boot reads the order's row, and
\* what a failure of either leaves is in RecordFails.
RecordRefusal(t) ==
    /\ task[t].stage = "recording"
    /\ task[t].cost = 0
    /\ orderRows' = orderRows \cup {IdOf[t]}
    /\ purse' = [purse EXCEPT ![BookOf[t]] = Release(@, task[t].hold)]
    /\ task' = [task EXCEPT ![t].stage = "done", ![t].hold = 0]
    /\ UNCHANGED <<pos, gw, control, venue, positionRows, walletRows, env, slip>>

\* The order's write raises, or the signal's after it: the hold goes, and with
\* it all trace of a fill.
RecordFails(t) ==
    /\ task[t].stage = "recording"
    /\ crashes + faults < MaxMishaps
    /\ faults' = faults + 1
    /\ orderRows' \in {orderRows, orderRows \cup {IdOf[t]}}
    /\ purse' = [purse EXCEPT ![BookOf[t]] = Release(@, task[t].hold)]
    /\ task' = [task EXCEPT ![t].stage = "done", ![t].hold = 0]
    /\ UNCHANGED <<pos, gw, control, venue, positionRows, walletRows, crashes,
                   interventions, slip>>

\* Mutant: the fill is committed on top of the hold.
SwapHoldKept(w, hold, cost) == ApplyCharges(Deploy(w, cost), Charge)

\* The provisional hold is swapped for what the fill cost.
SwapHold(w, hold, cost) == ApplyCharges(Deploy(Release(w, hold), cost), Charge)

OpenPosition(t) ==
    LET b == BookOf[t] IN
    /\ task[t].stage = "recording"
    /\ task[t].cost > 0
    /\ orderRows' = orderRows \cup {IdOf[t]}
    /\ pos' = [pos EXCEPT ![t][b] = [status |-> "OPEN", cost |-> task[t].cost]]
    /\ purse' = [purse EXCEPT ![b] = SwapHold(@, task[t].hold, task[t].cost)]
    /\ slip' = [slip EXCEPT ![b] = @ + Larger(0, task[t].cost - task[t].hold)]
    /\ task' = [task EXCEPT ![t].stage = "saving_position", ![t].hold = 0,
                            ![t].at = b, ![t].row = "OPEN", ![t].left = Twins[b]]
    /\ UNCHANGED <<gw, control, venue, positionRows, walletRows, env>>

\* The position's row lands; the purse is serialised for the next write.
SavePosition(t) ==
    LET b == task[t].at IN
    /\ task[t].stage = "saving_position"
    /\ positionRows' = [positionRows EXCEPT
           ![t][b] = [status |-> task[t].row, cost |-> task[t].cost]]
    /\ task' = [task EXCEPT ![t].stage = "saving_wallet", ![t].snapshot = purse[b]]
    /\ UNCHANGED <<purse, pos, gw, control, venue, orderRows, walletRows, env, slip>>

NextStage(left) == IF left = {} THEN "done" ELSE "mirroring"

SaveWallet(t) ==
    /\ task[t].stage = "saving_wallet"
    /\ walletRows' = [walletRows EXCEPT ![task[t].at] = task[t].snapshot]
    /\ task' = [task EXCEPT ![t].stage = NextStage(task[t].left),
                            ![t].snapshot = NoSnapshot]
    /\ UNCHANGED <<purse, pos, gw, control, venue, orderRows, positionRows, env, slip>>

\* The exception ends the handler (a mirror's is caught, and ends it as well).
SaveFails(t) ==
    /\ task[t].stage \in {"saving_position", "saving_wallet"}
    /\ crashes + faults < MaxMishaps
    /\ faults' = faults + 1
    /\ task' = [task EXCEPT ![t].stage = "done", ![t].snapshot = NoSnapshot]
    /\ UNCHANGED <<purse, pos, gw, control, venue, ledger, crashes, interventions, slip>>

-----------------------------------------------------------------------------
(* Mirroring a fill into the RT / CT books (_open_rt_twin) *)

\* The parent's volume has dried up, the purse is halted or short, or the
\* book is full: the skip is written to the event log.
SkipTwin(t, k) ==
    /\ task[t].stage = "mirroring"
    /\ k \in task[t].left
    /\ task' = [task EXCEPT ![t].left = @ \ {k},
                            ![t].stage = NextStage(task[t].left \ {k})]
    /\ UNCHANGED <<purse, pos, gw, control, venue, ledger, env, slip>>

\* The mirror copies the parent as it is now, whatever happened to it meanwhile.
MirroredStatus(t) == IF pos[t][BookOf[t]].status = "OPEN" THEN "OPEN" ELSE "CLOSED"

OpenTwin(t, k) ==
    LET cost == task[t].cost IN
    /\ task[t].stage = "mirroring"
    /\ k \in task[t].left
    /\ purse[k].halt = "none"
    /\ cost <= Available(purse[k])
    /\ ExposureAllows(k, SymbolOf[t], cost)
    /\ pos' = [pos EXCEPT ![t][k] = [status |-> MirroredStatus(t), cost |-> cost]]
    /\ purse' = [purse EXCEPT ![k] = SwapHold(@, 0, cost)]
    /\ task' = [task EXCEPT ![t].stage = "saving_position", ![t].left = @ \ {k},
                            ![t].at = k, ![t].row = MirroredStatus(t)]
    /\ UNCHANGED <<gw, control, venue, ledger, env, slip>>

-----------------------------------------------------------------------------
(* The rest of the engine, as far as entries feel it *)

Intervene ==
    /\ interventions < MaxInterventions
    /\ interventions' = interventions + 1
    /\ UNCHANGED <<crashes, faults>>

\* A full exit: see ExitPath for the path it takes.
Settled(w, cost, pnl) ==
    CheckBreakers(ApplyClose(ApplyCharges(Release(w, cost), Charge), pnl))

ClosePosition(t, b, pnl) ==
    LET w == Settled(purse[b], pos[t][b].cost, pnl) IN
    /\ Intervene
    /\ pos[t][b].status = "OPEN"
    /\ pnl >= -pos[t][b].cost
    /\ purse' = [purse EXCEPT ![b] = w]
    /\ pos' = [pos EXCEPT ![t][b].status = "gone"]
    /\ positionRows' = [positionRows EXCEPT
           ![t][b] = [status |-> "CLOSED", cost |-> pos[t][b].cost]]
    /\ walletRows' = [walletRows EXCEPT ![b] = w]
    /\ UNCHANGED <<task, gw, control, venue, orderRows, slip>>

\* The operator's switch, or the reconciler freezing and thawing.
SetHalt ==
    /\ Intervene
    /\ halted' = ~halted
    /\ UNCHANGED <<memory, mode, venue, ledger, slip>>

\* POST /control/mode, or an arming window running out.
SetMode(m) ==
    /\ Intervene
    /\ mode # m
    /\ mode' = m
    /\ UNCHANGED <<memory, halted, venue, ledger, slip>>

OperatorResetsBreaker ==
    /\ Intervene
    /\ gw.consecutive_rejects > 0
    /\ gw' = ResetBreaker(gw)
    /\ UNCHANGED <<task, purse, pos, control, venue, ledger, slip>>

\* _persist_wallets, every five minutes and at shutdown.
PersistWallet(b) ==
    /\ Intervene
    /\ walletRows' = [walletRows EXCEPT ![b] = purse[b]]
    /\ UNCHANGED <<memory, control, venue, orderRows, positionRows, slip>>

\* The process dies and boots again from the ledger.  Handlers under way are
\* lost; signals not yet raised are raised later.
CrashAndBoot ==
    /\ crashes + faults < MaxMishaps
    /\ crashes' = crashes + 1
    /\ task' = [t \in Tasks |->
                  IF task[t].stage = "signal" THEN task[t]
                  ELSE [Idle(t) EXCEPT !.stage = "done"]]
    /\ purse' = walletRows
    /\ pos' = [t \in Tasks |-> [b \in Books |->
                 IF positionRows[t][b].status = "OPEN" THEN positionRows[t][b]
                 ELSE NoPosition]]
    /\ gw' = Rebooted(orderRows)
    /\ UNCHANGED <<control, venue, ledger, faults, interventions, slip>>

-----------------------------------------------------------------------------
Submit(t) ==
    \E outlay \in Outlays :
        \/ RefuseDuplicate(t, outlay)
        \/ RefuseHalted(t, outlay)
        \/ ShadowOnly(t, outlay)
        \/ RefuseNoBook(t, outlay)
        \/ \E s \in Slips : PaperFill(t, outlay, s)
        \/ RefuseCapped(t, outlay)
        \/ PlaceLive(t, outlay)

Answer(t) == LiveRefused(t) \/ \E s \in Slips : LiveFilled(t, s)

Record(t) == RecordRefusal(t) \/ OpenPosition(t) \/ RecordFails(t)

Save(t) == SavePosition(t) \/ SaveWallet(t) \/ SaveFails(t)

Mirror(t) == \E k \in Books : SkipTwin(t, k) \/ OpenTwin(t, k)

\* A handler goes on after an await.
Resume(t) == Answer(t) \/ Record(t) \/ Save(t) \/ Mirror(t)

Next ==
    \/ \E t \in Tasks :
        \/ Decline(t)
        \/ Submit(t)
        \/ \E outcome \in {"filled", "dead"} : VenueSettles(t, outcome)
        \/ Resume(t)
        \/ \E b \in Books, pnl \in PnLs : ClosePosition(t, b, pnl)
    \/ SetHalt
    \/ \E m \in Modes : SetMode(m)
    \/ OperatorResetsBreaker
    \/ \E b \in Books : PersistWallet(b)
    \/ CrashAndBoot

\* The event loop resumes every coroutine whose await is over, the executor
\* polls to a deadline, and a ledger write returns or raises.
Fairness == \A t \in Tasks : WF_vars(Resume(t))

Spec == Init /\ [][Next]_vars /\ Fairness

-----------------------------------------------------------------------------
(* Properties *)

\* Every variable has its shape (Wallet, Gateway, Position, the ledger's rows).
TypeOK ==
    /\ task \in [Tasks -> TaskState]
    /\ purse \in [Books -> Purse]
    /\ pos \in [Tasks -> [Books -> PositionState]]
    /\ gw \in GatewayState(Ids)
    /\ mode \in Modes
    /\ halted \in BOOLEAN
    /\ venue \in [Tasks -> {"none", "working", "filled", "dead"}]
    /\ orderRows \subseteq Ids
    /\ positionRows \in [Tasks -> [Books -> PositionState]]
    /\ walletRows \in [Books -> Purse]
    /\ crashes \in Nat /\ faults \in Nat /\ interventions \in Nat
    /\ slip \in [Books -> Nat]

HeldFor(b) ==
    SumFunctionOnSet([t \in Tasks |-> task[t].hold], {t \in Tasks : BookOf[t] = b})

\* What a position in the dictionary cost.
CostIn(t, b) == IF pos[t][b].status \in {"OPEN", "CLOSED"} THEN pos[t][b].cost ELSE 0

CostOf(b) == SumFunctionOnSet([t \in Tasks |-> CostIn(t, b)], Tasks)

\* A purse's deployed money is exactly the holds of the entries under way plus
\* what the positions held cost, whatever is refused, slips, fails to be
\* written or is exited meanwhile ("a hold must not outlive its order").
\* A crash forgets the holds, so this is about one life of the process.
DeployedIsAccountedFor ==
    crashes = 0 =>
        \A b \in Books : purse[b].deployed = HeldFor(b) + CostOf(b)

\* No rupee is spent twice: a purse is never deployed beyond its balance
\* except by the slippage of fills and by charges, however many entries of
\* one bar boundary are under way together (the reserve before the await).
NoDoubleSpend ==
    crashes = 0 =>
        \A b \in Books :
            purse[b].deployed <= purse[b].balance + purse[b].charges_paid + slip[b]

\* Whatever t has been, in memory or in the ledger, in its own book.
EverOpened(t) ==
    \/ pos[t][BookOf[t]].status # "none"
    \/ positionRows[t][BookOf[t]].status # "none"

\* One client order id never opens two positions, although a signal can be
\* handled twice at once and the process can restart in between.
OnePositionPerOrder ==
    \A t, u \in Tasks :
        EverOpened(t) /\ EverOpened(u) /\ IdOf[t] = IdOf[u] => t = u

\* The order's row is in the ledger before any position it opened is: a
\* position re-hydrated after a restart has an id the gateway remembers.
OrderRowFirst ==
    \A t \in Tasks, b \in Books :
        pos[t][b].status # "none" \/ positionRows[t][b].status # "none"
            => IdOf[t] \in orderRows /\ IdOf[t] \in gw.seen

\* While the process lives, one client order id goes to the broker once.
SentOnce ==
    crashes = 0 =>
        \A t, u \in Tasks :
            venue[t] # "none" /\ venue[u] # "none" /\ IdOf[t] = IdOf[u] => t = u

\* BreakerCap rejects in a row trip the breaker, and then nothing but an
\* operator or a restart clears it: not a fill that was still under way.
BreakerLatches ==
    [][ /\ gw'.consecutive_rejects >= BreakerCap => gw'.breaker_tripped
        /\ gw.breaker_tripped /\ ~gw'.breaker_tripped =>
               \/ OperatorResetsBreaker
               \/ crashes' > crashes ]_vars

\* Every hold is given back or becomes a position in the end: the purses are
\* free of holds again and again, whatever the broker and the ledger do.
HoldsSettle == []<>(\A t \in Tasks : task[t].hold = 0)

=============================================================================
