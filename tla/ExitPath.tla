------------------------------ MODULE ExitPath ------------------------------
(***************************************************************************)
(* How a position is closed (engine.py, _manage_positions and _exit).  The *)
(* clock evaluates every open position once a second and carries out what  *)
(* the exit ladder decides, one exit at a time; an operator's skip or kill *)
(* runs beside it.  Both suspend at the broker and at every ledger write,  *)
(* and find the position as the other has left it.                         *)
(*                                                                         *)
(* The ladder itself is left open here: it may say TARGET, or one of the   *)
(* Rules about the market, or nothing whenever it likes, and HALT or       *)
(* DAILY_LOSS only when those conditions hold.  Lots are the unit of       *)
(* quantity; a position costs EntryCost rupees a lot.  What a paper fill   *)
(* was truncated to is not kept: apply_exit books the decision's quantity  *)
(* whatever was filled.                                                    *)
(***************************************************************************)
EXTENDS Wallet, Gateway, FiniteSets, FiniteSetsExt, Sequences

CONSTANTS
    Positions,        \* open at the start
    Books, BookOf,    \* the purse each belongs to
    Qty,              \* lots bought
    EntryCost,        \* rupees per lot
    NTargets,         \* rungs of the target ladder
    RungLots,         \* lots a rung takes, except the last
    Rules,            \* the reasons of the rules about the market, targets aside
    StartModes,       \* modes the control table may hold at boot
    SwitchModes,      \* modes an operator, or an arming that runs out, sets
    Initial,          \* rupees in a purse
    Invested,         \* what each wallet's row says is deployed at the start
    Charge,           \* charges of one fill
    PnLs,             \* gross results of a slice
    MaxRefusals,      \* bound: no book, rejections, timeouts
    MaxMishaps,       \* bound: crashes and failing ledger writes
    MaxInterventions, \* bound: halts and kills, and twice the skips and mode changes
    MaxTrouble        \* bound: all of these together, a mishap counted twice

ASSUME ExitAssumptions ==
    /\ Positions # {} /\ IsFiniteSet(Positions)
    /\ BookOf \in [Positions -> Books]
    /\ Qty \in [Positions -> Nat \ {0}]
    /\ EntryCost \in [Positions -> Nat]
    /\ NTargets \in [Positions -> Nat]
    /\ RungLots \in [Positions -> Nat \ {0}]
    /\ Rules \subseteq {"SL_OP", "SL_EQ", "TRAIL", "EOD", "TIME_STOP"}
    /\ StartModes \subseteq Modes /\ SwitchModes \subseteq Modes
    /\ Initial \in Nat
    /\ Invested \in [Books -> Nat]
    /\ Charge \in Nat
    /\ PnLs \subseteq Int
    /\ {MaxRefusals, MaxMishaps, MaxInterventions, MaxTrouble} \subseteq Nat

\* The ledger is read back in order: each wallet's row carries the cost of the
\* lots its positions were bought with.
ASSUME LedgerAddsUp ==
    \A b \in Books :
        Invested[b] = SumFunctionOnSet([p \in Positions |-> Qty[p] * EntryCost[p]],
                                       {p \in Positions : BookOf[p] = b})

VARIABLES
    pos,            \* Engine.positions
    purse,          \* Engine.wallets
    gw,             \* the gateway's bookkeeping
    act,            \* the exit each actor has under way
    mode, halted,   \* the control table; halted also stands for a frozen reconciler
    orders,         \* every exit order the broker was sent, in order
    net,            \* lots the broker holds
    rows, purseRow, orderRows, trades,   \* the ledger
    refusals, crashes, faults, interventions

control == <<mode, halted>>
broker == <<orders, net>>
ledger == <<rows, purseRow, orderRows, trades>>
mishaps == <<crashes, faults>>
env == <<refusals, crashes, faults, interventions>>
vars == <<pos, purse, gw, act, mode, halted, orders, net,
          rows, purseRow, orderRows, trades, refusals, crashes, faults, interventions>>

-----------------------------------------------------------------------------
(* States *)

Actors == {"clock", "operator"}

Reasons == Rules \union {"TARGET", "HALT", "DAILY_LOSS", "MANUAL"}

\* exit_client_order_id: the position, the rungs taken so far, the reason.
ExitIds == Positions \X Nat \X Reasons

\* Mutant: whatever sells all that is left has one id.
ExitIdOfTheRest(p, r) == <<p, pos[p].hits, IF r = "TARGET" THEN r ELSE "MANUAL">>

ExitId(p, r) == <<p, pos[p].hits, r>>

PositionState == [remaining : Nat, hits : Nat, status : {"OPEN", "CLOSED"}]

Opened(p) == [remaining |-> Qty[p], hits |-> 0, status |-> "OPEN"]

Stages == {"idle", "asked", "killing", "placing", "recording",
           "saving_position", "saving_wallet", "saving_trade"}

ActorState ==
    [stage    : Stages,
     p        : Positions,
     id       : ExitIds,
     qty      : Nat,                \* decision.qty
     order    : Nat,                \* its place in orders
     filled   : BOOLEAN,
     row      : PositionState,      \* the position when it was serialised
     snapshot : Purse]              \* the purse when it was serialised

AnyPosition == CHOOSE p \in Positions : TRUE

AtRest ==
    [stage |-> "idle", p |-> AnyPosition, id |-> <<AnyPosition, 0, "HALT">>,
     qty |-> 0, order |-> 0, filled |-> FALSE,
     row |-> Opened(AnyPosition), snapshot |-> NewPurse(0)]

CostLeft(b) ==
    SumFunctionOnSet([p \in Positions |-> pos[p].remaining * EntryCost[p]],
                     {p \in Positions : BookOf[p] = b})

OrderState(ids) ==
    [id : ids, life : Nat, qty : Nat, state : {"working", "filled", "dead"}]

Init ==
    /\ pos = [p \in Positions |-> Opened(p)]
    /\ purse = [b \in Books |-> Deploy(NewPurse(Initial), Invested[b])]
    /\ gw = Rebooted({})
    /\ act = [a \in Actors |-> AtRest]
    /\ mode \in StartModes
    /\ halted = FALSE
    /\ orders = <<>>
    /\ net = [p \in Positions |-> IF mode \in LiveModes THEN Qty[p] ELSE 0]
    /\ rows = pos
    /\ purseRow = purse
    /\ orderRows = {}
    /\ trades = [p \in Positions |-> 0]
    /\ refusals = 0
    /\ crashes = 0
    /\ faults = 0
    /\ interventions = 0

Halted == halted \/ gw.breaker_tripped

\* What is left of the bound for one more trouble of this weight.
Trouble(weight) ==
    refusals + interventions + 2 * (crashes + faults) + weight <= MaxTrouble

\* No book on paper; a rejection, a failed call or a timeout at the broker.
Refused ==
    /\ Trouble(1) /\ refusals < MaxRefusals
    /\ refusals' = refusals + 1
    /\ UNCHANGED <<mishaps, interventions>>

Smaller(a, b) == IF a <= b THEN a ELSE b

-----------------------------------------------------------------------------
(* What is decided *)

\* _ladder_qty: a rung takes its share, the last rung whatever is left.
RungQty(p) ==
    IF pos[p].hits = NTargets[p] - 1 THEN pos[p].remaining
    ELSE Smaller(RungLots[p], pos[p].remaining)

DecidedQty(p, r) == IF r = "TARGET" THEN RungQty(p) ELSE pos[p].remaining

\* The answers ExitEngine.evaluate can give for a position with a quote.
MayDecide(p, r) ==
    \/ r \in Rules
    \/ r = "TARGET" /\ pos[p].hits < NTargets[p]
    \/ r = "HALT" /\ Halted
    \/ r = "DAILY_LOSS" /\ ~Halted /\ purse[BookOf[p]].halt = "DAILY_LOSS"

\* The clock reaches an open position and the ladder answers.
ClockDecides(a, p, r) ==
    /\ a = "clock"
    /\ act[a].stage = "idle"
    /\ pos[p].status = "OPEN"
    /\ MayDecide(p, r)

\* The skip has been written to the event log; what is left is read only now.
OperatorDecides(a, p, r) ==
    /\ a = "operator"
    /\ act[a].stage = "asked"
    /\ act[a].p = p
    /\ r = "MANUAL"

Decides(a, p, r) == ClockDecides(a, p, r) \/ OperatorDecides(a, p, r)

-----------------------------------------------------------------------------
(* The gateway: an exit is checked for a duplicate id and for nothing else *)

Fresh(p, r) == ~Duplicate(gw, ExitId(p, r))

Suspend(a, p, r, stage, filled) ==
    act' = [act EXCEPT ![a].stage = stage, ![a].p = p, ![a].id = ExitId(p, r),
                       ![a].qty = DecidedQty(p, r), ![a].filled = filled]

ExitBlocked(a, p, r) ==
    /\ Decides(a, p, r)
    /\ ~Fresh(p, r)
    /\ Suspend(a, p, r, "recording", FALSE)
    /\ UNCHANGED <<pos, purse, gw, control, broker, ledger, env>>

ExitShadowed(a, p, r) ==
    /\ Decides(a, p, r)
    /\ Fresh(p, r)
    /\ mode = "SHADOW"
    /\ gw' = ShadowOk(See(gw, ExitId(p, r)))
    /\ Suspend(a, p, r, "recording", FALSE)
    /\ UNCHANGED <<pos, purse, control, broker, ledger, env>>

ExitWithoutBook(a, p, r) ==
    /\ Decides(a, p, r)
    /\ Fresh(p, r)
    /\ mode = "PAPER"
    /\ Refused
    /\ gw' = Reject(See(gw, ExitId(p, r)))
    /\ Suspend(a, p, r, "recording", FALSE)
    /\ UNCHANGED <<pos, purse, control, broker, ledger>>

ExitOnPaper(a, p, r) ==
    /\ Decides(a, p, r)
    /\ Fresh(p, r)
    /\ mode = "PAPER"
    /\ gw' = Filled(See(gw, ExitId(p, r)))
    /\ Suspend(a, p, r, "recording", TRUE)
    /\ UNCHANGED <<pos, purse, control, broker, ledger, env>>

ExitLive(a, p, r) ==
    /\ Decides(a, p, r)
    /\ Fresh(p, r)
    /\ mode \in LiveModes
    /\ gw' = See(gw, ExitId(p, r))
    /\ orders' = Append(orders, [id |-> ExitId(p, r), life |-> crashes,
                                 qty |-> DecidedQty(p, r), state |-> "working"])
    /\ act' = [act EXCEPT ![a].stage = "placing", ![a].p = p, ![a].id = ExitId(p, r),
                          ![a].qty = DecidedQty(p, r), ![a].order = Len(orders) + 1]
    /\ UNCHANGED <<pos, purse, control, net, ledger, env>>

-----------------------------------------------------------------------------
(* The broker, and what the poll makes of it *)

VenueFills(n) ==
    /\ orders[n].state = "working"
    /\ orders' = [orders EXCEPT ![n].state = "filled"]
    /\ net' = [net EXCEPT ![orders[n].id[1]] = @ - orders[n].qty]
    /\ UNCHANGED <<pos, purse, gw, act, control, ledger, env>>

VenueKills(n) ==
    /\ orders[n].state = "working"
    /\ Refused
    /\ orders' = [orders EXCEPT ![n].state = "dead"]
    /\ UNCHANGED <<pos, purse, gw, act, control, net, ledger>>

AnswerFilled(a) ==
    /\ act[a].stage = "placing"
    /\ orders[act[a].order].state = "filled"
    /\ gw' = Filled(gw)
    /\ act' = [act EXCEPT ![a].stage = "recording", ![a].filled = TRUE, ![a].order = 0]
    /\ UNCHANGED <<pos, purse, control, broker, ledger, env>>

\* place raises for an exit: nothing is recorded, the tick or the request ends.
AnswerRaises(a) ==
    /\ act[a].stage = "placing"
    /\ act' = [act EXCEPT ![a] = AtRest]
    /\ IF orders[act[a].order].state = "dead" THEN UNCHANGED env ELSE Refused
    /\ UNCHANGED <<pos, purse, gw, control, broker, ledger>>

-----------------------------------------------------------------------------
(* The order is on record: the slice is booked, then saved *)

RecordUnfilled(a) ==
    /\ act[a].stage = "recording"
    /\ ~act[a].filled
    /\ orderRows' = orderRows \cup {act[a].id}
    /\ act' = [act EXCEPT ![a] = AtRest]
    /\ UNCHANGED <<pos, purse, gw, control, broker, rows, purseRow, trades, env>>

\* Mutant: the decision's quantity is booked even when less is left.
SliceAsDecided(a) == act[a].qty

SliceOf(a) == Smaller(act[a].qty, pos[act[a].p].remaining)

\* Mutant: any fill closes the position.
AfterSliceCloses(a) ==
    [remaining |-> 0, hits |-> pos[act[a].p].hits, status |-> "CLOSED"]

\* apply_exit on the position as it is now.
AfterSlice(a) ==
    LET before == pos[act[a].p]
        left == before.remaining - SliceOf(a)
    IN  [remaining |-> left,
         hits      |-> before.hits + IF act[a].id[3] = "TARGET" THEN 1 ELSE 0,
         status    |-> IF left = 0 THEN "CLOSED" ELSE before.status]

\* Mutant: the decision's cost is released, not that of the lots still there.
FreedAsDecided(a) == act[a].qty * EntryCost[act[a].p]

\* pos.entry * min(decision.qty, qty_remaining), with qty_remaining read first.
Freed(a) == SliceOf(a) * EntryCost[act[a].p]

SettleSlice(w, cost, gross) ==
    CheckBreakers(ApplyClose(ApplyCharges(Release(w, cost), Charge), gross))

BookSlice(a, pnl) ==
    LET p == act[a].p
        gross == IF SliceOf(a) = 0 THEN 0 ELSE pnl
    IN  /\ act[a].stage = "recording"
        /\ act[a].filled
        /\ orderRows' = orderRows \cup {act[a].id}
        /\ pos' = [pos EXCEPT ![p] = AfterSlice(a)]
        /\ purse' = [purse EXCEPT ![BookOf[p]] =
                        SettleSlice(@, Freed(a), gross)]
        /\ act' = [act EXCEPT ![a] = [AtRest EXCEPT !.stage = "saving_position",
                                                   !.p = p, !.row = AfterSlice(a)]]
        /\ UNCHANGED <<gw, control, broker, rows, purseRow, trades, env>>

SavePosition(a) ==
    LET p == act[a].p IN
    /\ act[a].stage = "saving_position"
    /\ rows' = [rows EXCEPT ![p] = act[a].row]
    /\ act' = [act EXCEPT ![a] = [AtRest EXCEPT !.stage = "saving_wallet", !.p = p,
                                               !.snapshot = purse[BookOf[p]]]]
    /\ UNCHANGED <<pos, purse, gw, control, broker, purseRow, orderRows, trades, env>>

\* Mutant: a position its last target closed leaves no trade.
AfterWalletByStopOnly(a) ==
    IF pos[act[a].p].status = "CLOSED" /\ pos[act[a].p].hits = 0
    THEN [AtRest EXCEPT !.stage = "saving_trade", !.p = act[a].p]
    ELSE AtRest

\* Whether there is a trade to write is read off the position as it is now.
AfterWallet(a) ==
    IF pos[act[a].p].status = "CLOSED"
    THEN [AtRest EXCEPT !.stage = "saving_trade", !.p = act[a].p]
    ELSE AtRest

SaveWallet(a) ==
    /\ act[a].stage = "saving_wallet"
    /\ purseRow' = [purseRow EXCEPT ![BookOf[act[a].p]] = act[a].snapshot]
    /\ act' = [act EXCEPT ![a] = AfterWallet(a)]
    /\ UNCHANGED <<pos, purse, gw, control, broker, rows, orderRows, trades, env>>

SaveTrade(a) ==
    /\ act[a].stage = "saving_trade"
    /\ trades' = [trades EXCEPT ![act[a].p] = @ + 1]
    /\ act' = [act EXCEPT ![a] = AtRest]
    /\ UNCHANGED <<pos, purse, gw, control, broker, rows, purseRow, orderRows, env>>

\* A ledger write raises and ends the exit where it stands.
WriteFails(a) ==
    /\ act[a].stage \in {"recording", "saving_position", "saving_wallet", "saving_trade"}
    /\ Trouble(2) /\ crashes + faults < MaxMishaps
    /\ faults' = faults + 1
    /\ act' = [act EXCEPT ![a] = AtRest]
    /\ UNCHANGED <<pos, purse, gw, control, broker, ledger, refusals, crashes,
                   interventions>>

-----------------------------------------------------------------------------
(* The operator, and the process *)

Intervene(weight) ==
    /\ Trouble(weight) /\ interventions + weight <= MaxInterventions
    /\ interventions' = interventions + weight
    /\ UNCHANGED <<refusals, mishaps>>

\* POST /skip: an open position is picked, then the event log is awaited.
OperatorSkips(p) ==
    /\ Intervene(2)
    /\ act["operator"].stage = "idle"
    /\ pos[p].status = "OPEN"
    /\ act' = [act EXCEPT !["operator"].stage = "asked", !["operator"].p = p]
    /\ UNCHANGED <<pos, purse, gw, control, broker, ledger>>

\* POST /control/kill: halt first, then the broker's own square-off if live.
OperatorKills ==
    /\ Intervene(1)
    /\ act["operator"].stage = "idle"
    /\ halted' = TRUE
    /\ act' = [act EXCEPT !["operator"].stage = "killing"]
    /\ UNCHANGED <<pos, purse, gw, mode, broker, ledger>>

SquareOff ==
    /\ act["operator"].stage = "killing"
    /\ net' = IF mode \in LiveModes THEN [p \in Positions |-> 0] ELSE net
    /\ act' = [act EXCEPT !["operator"] = AtRest]
    /\ UNCHANGED <<pos, purse, gw, control, orders, ledger, env>>

SetHalt ==
    /\ Intervene(1)
    /\ halted' = ~halted
    /\ UNCHANGED <<pos, purse, gw, act, mode, broker, ledger>>

SetMode(m) ==
    /\ Intervene(2)
    /\ mode # m
    /\ mode' = m
    /\ UNCHANGED <<pos, purse, gw, act, halted, broker, ledger>>

\* _load_positions; a CLOSED row is not loaded, and nothing acts on it.
Rehydrated == rows

\* The process dies and boots again from the ledger.
CrashAndBoot ==
    /\ Trouble(2) /\ crashes + faults < MaxMishaps
    /\ crashes' = crashes + 1
    /\ pos' = Rehydrated
    /\ purse' = purseRow
    /\ gw' = Rebooted(orderRows)
    /\ act' = [a \in Actors |-> AtRest]
    /\ UNCHANGED <<control, broker, ledger, refusals, faults, interventions>>

-----------------------------------------------------------------------------
Submit(a, p, r) ==
    \/ ExitBlocked(a, p, r)
    \/ ExitShadowed(a, p, r)
    \/ ExitWithoutBook(a, p, r)
    \/ ExitOnPaper(a, p, r)
    \/ ExitLive(a, p, r)

\* An actor goes on after an await.
Resume(a) ==
    \/ AnswerFilled(a)
    \/ AnswerRaises(a)
    \/ RecordUnfilled(a)
    \/ \E pnl \in PnLs : BookSlice(a, pnl)
    \/ SavePosition(a)
    \/ SaveWallet(a)
    \/ SaveTrade(a)
    \/ WriteFails(a)

Next ==
    \/ \E a \in Actors :
        \/ \E p \in Positions, r \in Reasons : Submit(a, p, r)
        \/ Resume(a)
    \/ \E n \in 1..Len(orders) : VenueFills(n) \/ VenueKills(n)
    \/ \E p \in Positions : OperatorSkips(p)
    \/ OperatorKills
    \/ SquareOff
    \/ SetHalt
    \/ \E m \in SwitchModes : SetMode(m)
    \/ CrashAndBoot

\* The actors finish what they began. That the clock comes to any exit is not assumed.
Fairness == \A a \in Actors : WF_vars(Resume(a))

Spec == Init /\ [][Next]_vars /\ Fairness

-----------------------------------------------------------------------------
(* Properties *)

\* Every variable has its shape (Position, Wallet, the gateway, the rows).
TypeOK ==
    /\ pos \in [Positions -> PositionState]
    /\ purse \in [Books -> Purse]
    /\ gw \in GatewayState(ExitIds)
    /\ act \in [Actors -> ActorState]
    /\ mode \in Modes
    /\ halted \in BOOLEAN
    /\ orders \in Seq(OrderState(ExitIds))
    /\ net \in [Positions -> Int]
    /\ rows \in [Positions -> PositionState]
    /\ purseRow \in [Books -> Purse]
    /\ orderRows \subseteq ExitIds
    /\ trades \in [Positions -> Nat]
    /\ refusals \in Nat /\ crashes \in Nat /\ faults \in Nat /\ interventions \in Nat

\* What a purse has deployed is the cost of the lots its positions still hold:
\* each lot's money comes back once, when the clock and an operator sell the
\* same position at the same time as much as when either is alone.
DeployedTracksRemaining ==
    crashes = 0 => \A b \in Books : purse[b].deployed = CostLeft(b)

\* The ledger may lag behind memory, never run ahead of it: a restart finds at
\* least the lots that were left, however the saves of two exits interleave.
LedgerNeverAhead ==
    \A p \in Positions :
        /\ rows[p].remaining >= pos[p].remaining
        /\ rows[p].status = "CLOSED" => pos[p].status = "CLOSED"

\* Within one life of the process an exit id goes to the broker once.
SentOnce ==
    \A m, n \in 1..Len(orders) :
        orders[m].id = orders[n].id /\ orders[m].life = orders[n].life => m = n

Working(p) == \E a \in Actors : act[a].stage # "idle" /\ act[a].p = p

\* With the engine live, no refusal, crash or operator: between two exits of a
\* position the broker holds exactly what the book says, partial exits
\* included.  This is what the reconciler calls clean.
BookEqualsBroker ==
    \A p \in Positions :
        /\ mode \in LiveModes
        /\ refusals = 0 /\ crashes = 0 /\ faults = 0 /\ interventions = 0
        /\ ~Working(p)
        => net[p] = pos[p].remaining

\* A position that is closed, with nobody at work on it any more, left a trade
\* in the ledger, whoever sold the last lot.
EveryCloseIsATrade ==
    crashes = 0 /\ faults = 0 =>
        \A p \in Positions :
            pos[p].status = "CLOSED" /\ ~Working(p) => trades[p] > 0

NoneWorking == \A n \in 1..Len(orders) : orders[n].state # "working"

\* No halt exit is refused, or given up at the broker: its own id would be used up.
HaltsAreTaken ==
    /\ act["clock"].stage = "recording" /\ act["clock"].id[3] = "HALT"
        => act["clock"].filled \/ act["clock"].id \in orderRows
    /\ \A n \in 1..Len(orders) :
        orders[n].id[3] = "HALT"
        => \/ orders[n].state = "filled"
           \/ act["clock"].stage = "placing" /\ act["clock"].order = n

Undisturbed == mode # "SHADOW" /\ crashes = 0 /\ faults = 0 /\ HaltsAreTaken

\* The evaluations of p go on coming to the halt, which is under every rule about the
\* market (exits.py:195). They do not while its contract has not printed, or while a
\* stop that is touched but not sustained, or an own stop under a stale price, ends them.
ComesToTheHalt(p) == SF_vars(Submit("clock", p, "HALT"))

\* Halted for good, the clock sells every position whose evaluations come to the halt,
\* though its stops and targets were refused before: what a refusal uses up is the id
\* of its own reason.
HaltFlattens ==
    []Undisturbed /\ []<>NoneWorking /\ <>[]Halted
        => \A p \in Positions : ComesToTheHalt(p) => <>(pos[p].status = "CLOSED")

Life == INSTANCE Holding WITH
            held   <- [p \in Positions |-> pos[p].remaining],
            stored <- [p \in Positions |-> rows[p].remaining],
            traded <- trades

\* However exits, saves, refusals, crashes and the operator interleave, the
\* engine's lots, the ledger's and its trades live the life Holding describes.
HoldingIsImplemented == Life!Spec

\* exec/gateway.py: "Exits are never blocked".  Whatever the clock may decide
\* about an open position nobody is selling, the gateway has not used up its id.
ExitNeverBlocked ==
    \A p \in Positions, r \in Reasons :
        pos[p].status = "OPEN" /\ ~Working(p) /\ MayDecide(p, r) => Fresh(p, r)

=============================================================================
