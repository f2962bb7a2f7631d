-------------------------- MODULE EntryPathProofs ---------------------------
(***************************************************************************)
(* Proofs about EntryPath, for any number of tasks, books and ids and any  *)
(* bounds.                                                                 *)
(***************************************************************************)
EXTENDS EntryPath, PurseGatewayProofs

LEMMA IdleType == \A t \in Tasks : Idle(t) \in TaskState
  BY EntryAssumptions, NewPurseType DEF Idle, TaskState, Stages, NoSnapshot

LEMMA TaskHeld == ASSUME TypeOK, NEW t \in Tasks PROVE task[t] \in TaskState
  BY DEF TypeOK

LEMMA TypeInit == Init => TypeOK
<1> SUFFICES ASSUME Init PROVE TypeOK
  OBVIOUS
<1>1. NewPurse(Initial) \in Purse
  BY EntryAssumptions, NewPurseType
<1>2. Rebooted({}) \in GatewayState(Ids)
  BY RebootedType
<1>3. NoPosition \in PositionState
  BY DEF NoPosition, PositionState
<1> QED
  BY <1>1, <1>2, <1>3, IdleType, EntryAssumptions DEF Init, TypeOK

-----------------------------------------------------------------------------
(* The purse and the task after a hold is taken *)

LEMMA HoldAndType ==
  ASSUME TypeOK, NEW t \in Tasks, NEW outlay \in Nat, NEW cost \in Nat,
         NEW stage \in Stages, HoldAnd(t, outlay, cost, stage)
  PROVE  purse' \in [Books -> Purse] /\ task' \in [Tasks -> TaskState]
<1>1. BookOf[t] \in Books
  BY EntryAssumptions
<1>2. Deploy(purse[BookOf[t]], outlay) \in Purse
  BY <1>1, DeployType DEF TypeOK
<1>3. [task[t] EXCEPT !.stage = stage, !.hold = outlay, !.cost = cost] \in TaskState
  BY TaskHeld DEF TaskState
<1> QED
  BY <1>1, <1>2, <1>3 DEF HoldAnd, TypeOK

LEMMA SubmitType ==
  ASSUME TypeOK, NEW t \in Tasks, Submit(t)
  PROVE  TypeOK'
<1> PICK outlay \in Outlays :
        \/ RefuseDuplicate(t, outlay)
        \/ RefuseHalted(t, outlay)
        \/ ShadowOnly(t, outlay)
        \/ RefuseNoBook(t, outlay)
        \/ \E s \in Slips : PaperFill(t, outlay, s)
        \/ RefuseCapped(t, outlay)
        \/ PlaceLive(t, outlay)
  BY DEF Submit
<1>1. outlay \in Nat /\ 0 \in Nat /\ IdOf[t] \in Ids
  BY EntryAssumptions
<1>2. "recording" \in Stages /\ "placing" \in Stages
  BY DEF Stages
<1>3. /\ See(gw, IdOf[t]) \in GatewayState(Ids)
      /\ Reject(See(gw, IdOf[t])) \in GatewayState(Ids)
      /\ Filled(See(gw, IdOf[t])) \in GatewayState(Ids)
      /\ ShadowOk(See(gw, IdOf[t])) \in GatewayState(Ids)
  BY <1>1, GatewayTypes DEF TypeOK
<1>4. CASE RefuseDuplicate(t, outlay)
  <2>1. purse' \in [Books -> Purse] /\ task' \in [Tasks -> TaskState]
    BY <1>1, <1>2, <1>4, HoldAndType DEF RefuseDuplicate
  <2> QED
    BY <1>4, <2>1 DEF RefuseDuplicate, TypeOK, control, ledger, env
<1>5. CASE RefuseHalted(t, outlay)
  <2>1. purse' \in [Books -> Purse] /\ task' \in [Tasks -> TaskState]
    BY <1>1, <1>2, <1>5, HoldAndType DEF RefuseHalted
  <2> QED
    BY <1>3, <1>5, <2>1 DEF RefuseHalted, TypeOK, control, ledger, env
<1>6. CASE ShadowOnly(t, outlay)
  <2>1. purse' \in [Books -> Purse] /\ task' \in [Tasks -> TaskState]
    BY <1>1, <1>2, <1>6, HoldAndType DEF ShadowOnly
  <2> QED
    BY <1>3, <1>6, <2>1 DEF ShadowOnly, TypeOK, control, ledger, env
<1>7. CASE RefuseNoBook(t, outlay)
  <2>1. purse' \in [Books -> Purse] /\ task' \in [Tasks -> TaskState]
    BY <1>1, <1>2, <1>7, HoldAndType DEF RefuseNoBook
  <2> QED
    BY <1>3, <1>7, <2>1 DEF RefuseNoBook, TypeOK, control, ledger, env
<1>8. ASSUME NEW s \in Slips, PaperFill(t, outlay, s) PROVE TypeOK'
  <2>0. outlay + s \in Nat
    BY <1>1, <1>8, EntryAssumptions DEF PaperFill
  <2>1. purse' \in [Books -> Purse] /\ task' \in [Tasks -> TaskState]
    BY <1>1, <1>2, <1>8, <2>0, HoldAndType DEF PaperFill
  <2> QED
    BY <1>3, <1>8, <2>1 DEF PaperFill, TypeOK, control, ledger, env
<1>9. CASE RefuseCapped(t, outlay)
  <2>1. purse' \in [Books -> Purse] /\ task' \in [Tasks -> TaskState]
    BY <1>1, <1>2, <1>9, HoldAndType DEF RefuseCapped
  <2> QED
    BY <1>3, <1>9, <2>1 DEF RefuseCapped, TypeOK, control, ledger, env
<1>10. CASE PlaceLive(t, outlay)
  <2>1. purse' \in [Books -> Purse] /\ task' \in [Tasks -> TaskState]
    BY <1>1, <1>2, <1>10, HoldAndType DEF PlaceLive
  <2>2. venue' \in [Tasks -> {"none", "working", "filled", "dead"}]
    BY <1>10 DEF PlaceLive, TypeOK
  <2> QED
    BY <1>3, <1>10, <2>1, <2>2 DEF PlaceLive, TypeOK, control, ledger, env
<1> QED
  BY <1>4, <1>5, <1>6, <1>7, <1>8, <1>9, <1>10

-----------------------------------------------------------------------------
(* After an await *)

LEMMA AnswerType ==
  ASSUME TypeOK, NEW t \in Tasks, Answer(t)
  PROVE  TypeOK'
<1>1. Filled(gw) \in GatewayState(Ids) /\ Reject(gw) \in GatewayState(Ids)
  <2>1. IdOf[t] \in Ids
    BY EntryAssumptions
  <2> QED
    BY <2>1, GatewayTypes DEF TypeOK
<1>2. CASE LiveRefused(t)
  <2>1. [task[t] EXCEPT !.stage = "recording"] \in TaskState
    BY TaskHeld DEF TaskState, Stages
  <2> QED
    BY <1>1, <1>2, <2>1 DEF LiveRefused, TypeOK, control, ledger, env
<1>3. ASSUME NEW s \in Slips, LiveFilled(t, s) PROVE TypeOK'
  <2>1. task[t].hold + s \in Nat
    BY <1>3, EntryAssumptions DEF LiveFilled, TypeOK, TaskState
  <2>2. [task[t] EXCEPT !.stage = "recording", !.cost = task[t].hold + s] \in TaskState
    BY <2>1, TaskHeld DEF TaskState, Stages
  <2> QED
    BY <1>1, <1>3, <2>2 DEF LiveFilled, TypeOK, control, ledger, env
<1> QED
  BY <1>2, <1>3 DEF Answer

LEMMA RecordType ==
  ASSUME TypeOK, NEW t \in Tasks, Record(t)
  PROVE  TypeOK'
<1>1. BookOf[t] \in Books /\ IdOf[t] \in Ids /\ Twins[BookOf[t]] \in SUBSET Books
  BY EntryAssumptions
<1>2. task[t].hold \in Nat /\ task[t].cost \in Nat /\ purse[BookOf[t]] \in Purse
  BY <1>1 DEF TypeOK, TaskState
<1>3. Release(purse[BookOf[t]], task[t].hold) \in Purse
  BY <1>2, ReleaseType
<1>4. [task[t] EXCEPT !.stage = "done", !.hold = 0] \in TaskState
  BY TaskHeld DEF TaskState, Stages
<1>5. CASE RecordRefusal(t)
  BY <1>1, <1>3, <1>4, <1>5 DEF RecordRefusal, TypeOK, control, env
<1>6. CASE RecordFails(t)
  BY <1>1, <1>3, <1>4, <1>6 DEF RecordFails, TypeOK, control
<1>7. CASE OpenPosition(t)
  <2>1. SwapHold(purse[BookOf[t]], task[t].hold, task[t].cost) \in Purse
    BY <1>2, <1>3, EntryAssumptions, DeployType, ApplyChargesType DEF SwapHold
  <2>2. [task[t] EXCEPT !.stage = "saving_position", !.hold = 0, !.at = BookOf[t],
                        !.row = "OPEN", !.left = Twins[BookOf[t]]] \in TaskState
    <3>1. [task[t] EXCEPT !.stage = "saving_position", !.hold = 0] \in TaskState
      BY TaskHeld DEF TaskState, Stages
    <3> QED
      BY <1>1, <3>1 DEF TaskState
  <2>3. [status |-> "OPEN", cost |-> task[t].cost] \in PositionState
    BY <1>2 DEF PositionState
  <2>4. pos' \in [Tasks -> [Books -> PositionState]]
    BY <1>1, <1>7, <2>3 DEF OpenPosition, TypeOK
  <2>5. slip' \in [Books -> Nat]
    <3>1. Larger(0, task[t].cost - task[t].hold) \in Nat
      BY <1>2, LargerNat
    <3>2. slip[BookOf[t]] + Larger(0, task[t].cost - task[t].hold) \in Nat
      BY <1>1, <3>1 DEF TypeOK
    <3> QED
      BY <1>7, <3>2 DEF OpenPosition, TypeOK
  <2> QED
    BY <1>1, <1>7, <2>1, <2>2, <2>4, <2>5 DEF OpenPosition, TypeOK, control, env
<1> QED
  BY <1>5, <1>6, <1>7 DEF Record

LEMMA SaveType ==
  ASSUME TypeOK, NEW t \in Tasks, Save(t)
  PROVE  TypeOK'
<1>1. NoSnapshot \in Purse
  BY NewPurseType DEF NoSnapshot
<1>2. /\ task[t].at \in Books /\ task[t].row \in {"OPEN", "CLOSED"}
      /\ task[t].cost \in Nat /\ task[t].snapshot \in Purse
  BY DEF TypeOK, TaskState
<1>3. purse[task[t].at] \in Purse
  BY <1>2 DEF TypeOK
<1>4. CASE SavePosition(t)
  <2>1. [task[t] EXCEPT !.stage = "saving_wallet", !.snapshot = purse[task[t].at]]
            \in TaskState
    <3>1. task[t] \in TaskState
      BY DEF TypeOK
    <3>2. [task[t] EXCEPT !.stage = "saving_wallet"] \in TaskState
      BY <3>1 DEF TaskState, Stages
    <3> QED
      BY <1>3, <3>2 DEF TaskState
  <2>2. [status |-> task[t].row, cost |-> task[t].cost] \in PositionState
    BY <1>2 DEF PositionState
  <2>3. positionRows' \in [Tasks -> [Books -> PositionState]]
    BY <1>2, <1>4, <2>2 DEF SavePosition, TypeOK
  <2> QED
    BY <1>4, <2>1, <2>3 DEF SavePosition, TypeOK, control, env
<1>5. CASE SaveWallet(t)
  <2>1. NextStage(task[t].left) \in Stages
    BY DEF NextStage, Stages
  <2>2. [task[t] EXCEPT !.stage = NextStage(task[t].left), !.snapshot = NoSnapshot]
            \in TaskState
    BY <1>1, <2>1, TaskHeld DEF TaskState
  <2> QED
    BY <1>2, <1>5, <2>2 DEF SaveWallet, TypeOK, control, env
<1>6. CASE SaveFails(t)
  <2>1. [task[t] EXCEPT !.stage = "done", !.snapshot = NoSnapshot] \in TaskState
    BY <1>1, TaskHeld DEF TaskState, Stages
  <2> QED
    BY <1>6, <2>1 DEF SaveFails, TypeOK, control, ledger
<1> QED
  BY <1>4, <1>5, <1>6 DEF Save

LEMMA MirrorType ==
  ASSUME TypeOK, NEW t \in Tasks, Mirror(t)
  PROVE  TypeOK'
<1> PICK k \in Books : SkipTwin(t, k) \/ OpenTwin(t, k)
  BY DEF Mirror
<1>1. CASE SkipTwin(t, k)
  <2>1. NextStage(task[t].left \ {k}) \in Stages
    BY DEF NextStage, Stages
  <2>2. [task[t] EXCEPT !.left = task[t].left \ {k},
                        !.stage = NextStage(task[t].left \ {k})] \in TaskState
    BY <2>1, TaskHeld DEF TaskState
  <2> QED
    BY <1>1, <2>2 DEF SkipTwin, TypeOK, control, ledger, env
<1>2. CASE OpenTwin(t, k)
  <2>1. task[t].cost \in Nat /\ 0 \in Nat /\ purse[k] \in Purse
    BY DEF TypeOK, TaskState
  <2>2. SwapHold(purse[k], 0, task[t].cost) \in Purse
    BY <2>1, EntryAssumptions, ReleaseType, DeployType, ApplyChargesType DEF SwapHold
  <2>3. MirroredStatus(t) \in {"OPEN", "CLOSED"}
    BY DEF MirroredStatus
  <2>4. [status |-> MirroredStatus(t), cost |-> task[t].cost] \in PositionState
    BY <2>1, <2>3 DEF PositionState
  <2>5. pos' \in [Tasks -> [Books -> PositionState]]
    BY <1>2, <2>4 DEF OpenTwin, TypeOK
  <2>6. [task[t] EXCEPT !.stage = "saving_position", !.left = task[t].left \ {k},
                        !.at = k, !.row = MirroredStatus(t)] \in TaskState
    BY <2>3, TaskHeld DEF TaskState, Stages
  <2> QED
    BY <1>2, <2>2, <2>5, <2>6 DEF OpenTwin, TypeOK, control, ledger, env
<1> QED
  BY <1>1, <1>2

-----------------------------------------------------------------------------
(* The rest of the engine *)

LEMMA CloseType ==
  ASSUME TypeOK, NEW t \in Tasks, NEW b \in Books, NEW pnl \in PnLs,
         ClosePosition(t, b, pnl)
  PROVE  TypeOK'
<1>1. pnl \in Int /\ Charge \in Nat /\ pos[t][b] \in PositionState /\ purse[b] \in Purse
  BY EntryAssumptions DEF TypeOK
<1>2. pos[t][b].cost \in Nat
  BY <1>1 DEF PositionState
<1>3. Settled(purse[b], pos[t][b].cost, pnl) \in Purse
  BY <1>1, <1>2, ReleaseType, ApplyChargesType, ApplyCloseType, CheckBreakersType
     DEF Settled
<1>4. [status |-> "CLOSED", cost |-> pos[t][b].cost] \in PositionState
  BY <1>2 DEF PositionState
<1>5. [pos[t][b] EXCEPT !.status = "gone"] \in PositionState
  BY <1>1 DEF PositionState
<1>6. pos' \in [Tasks -> [Books -> PositionState]]
  BY <1>5 DEF ClosePosition, TypeOK
<1>7. positionRows' \in [Tasks -> [Books -> PositionState]]
  BY <1>4 DEF ClosePosition, TypeOK
<1> QED
  BY <1>3, <1>6, <1>7 DEF ClosePosition, Intervene, TypeOK, control

LEMMA CrashType ==
  ASSUME TypeOK, CrashAndBoot
  PROVE  TypeOK'
<1>1. task' \in [Tasks -> TaskState]
  <2>1. \A t \in Tasks : [Idle(t) EXCEPT !.stage = "done"] \in TaskState
    BY IdleType DEF TaskState, Stages
  <2> QED
    BY <2>1 DEF CrashAndBoot, TypeOK
<1>2. pos' \in [Tasks -> [Books -> PositionState]]
  BY DEF CrashAndBoot, TypeOK, NoPosition, PositionState
<1>3. gw' \in GatewayState(Ids)
  BY RebootedType DEF CrashAndBoot, TypeOK
<1> QED
  BY <1>1, <1>2, <1>3 DEF CrashAndBoot, TypeOK, control, ledger

LEMMA TypeStep == TypeOK /\ [Next]_vars => TypeOK'
<1> SUFFICES ASSUME TypeOK, [Next]_vars PROVE TypeOK'
  OBVIOUS
<1>1. ASSUME NEW t \in Tasks, Decline(t) PROVE TypeOK'
  <2>1. [task[t] EXCEPT !.stage = "done"] \in TaskState
    BY TaskHeld DEF TaskState, Stages
  <2> QED
    BY <1>1, <2>1 DEF Decline, TypeOK, control, ledger, env
<1>2. ASSUME NEW t \in Tasks, Submit(t) PROVE TypeOK'
  BY <1>2, SubmitType
<1>3. ASSUME NEW t \in Tasks, NEW outcome \in {"filled", "dead"}, VenueSettles(t, outcome)
      PROVE  TypeOK'
  BY <1>3 DEF VenueSettles, TypeOK, memory, control, ledger, env
<1>4. ASSUME NEW t \in Tasks, Resume(t) PROVE TypeOK'
  BY <1>4, AnswerType, RecordType, SaveType, MirrorType DEF Resume
<1>5. ASSUME NEW t \in Tasks, NEW b \in Books, NEW pnl \in PnLs, ClosePosition(t, b, pnl)
      PROVE  TypeOK'
  BY <1>5, CloseType
<1>6. CASE SetHalt
  BY <1>6 DEF SetHalt, Intervene, TypeOK, memory, ledger
<1>7. ASSUME NEW m \in Modes, SetMode(m) PROVE TypeOK'
  BY <1>7 DEF SetMode, Intervene, TypeOK, memory, ledger
<1>8. CASE OperatorResetsBreaker
  <2>1. ResetBreaker(gw) \in GatewayState(Ids)
    BY DEF TypeOK, ResetBreaker, GatewayState
  <2> QED
    BY <1>8, <2>1 DEF OperatorResetsBreaker, Intervene, TypeOK, control, ledger
<1>9. ASSUME NEW b \in Books, PersistWallet(b) PROVE TypeOK'
  BY <1>9 DEF PersistWallet, Intervene, TypeOK, memory, control
<1>10. CASE CrashAndBoot
  BY <1>10, CrashType
<1>11. CASE UNCHANGED vars
  BY <1>11 DEF vars, TypeOK
<1> QED
  BY <1>1, <1>2, <1>3, <1>4, <1>5, <1>6, <1>7, <1>8, <1>9, <1>10, <1>11 DEF Next

\* Whatever the tasks, books and bounds, every variable keeps its shape.
THEOREM TypeCorrect == Spec => []TypeOK
<1>1. Init => TypeOK
  BY TypeInit
<1>2. TypeOK /\ [Next]_vars => TypeOK'
  BY TypeStep
<1> QED
  BY <1>1, <1>2, PTL DEF Spec

-----------------------------------------------------------------------------
(* Order ids.  The three properties about ids hold together: a task that   *)
(* goes past the duplicate check is the only one of its id to do so,       *)
(* because an id that was claimed is in the gateway's memory, and stays in *)
(* it across a restart once it has an order row.                           *)

Submitted == {"placing", "recording", "saving_position", "saving_wallet", "mirroring"}

Opened == {"saving_position", "saving_wallet", "mirroring"}

\* A handler past the duplicate check is in the gateway's memory, one past the
\* order's write in the ledger; the memory holds at least the ledger.
Remembered ==
    /\ orderRows \subseteq gw.seen
    /\ \A t \in Tasks : task[t].stage \in Submitted => IdOf[t] \in gw.seen
    /\ \A t \in Tasks : task[t].stage \in Opened => IdOf[t] \in orderRows

\* t's order may open, or has opened, a position.
Claims(t) ==
    \/ task[t].stage \in Opened \cup {"placing"}
    \/ task[t].stage = "recording" /\ task[t].cost > 0
    \/ EverOpened(t)

OneClaim ==
    \A t, u \in Tasks : Claims(t) /\ Claims(u) /\ IdOf[t] = IdOf[u] => t = u

SentIsSeen ==
    crashes = 0 => \A t \in Tasks : venue[t] # "none" => IdOf[t] \in gw.seen

IdInv == TypeOK /\ Remembered /\ OrderRowFirst /\ OneClaim /\ SentIsSeen /\ SentOnce

\* A claim is in the gateway's memory, and an order's row in it too.
LEMMA ClaimIsSeen == IdInv => \A t \in Tasks : Claims(t) => IdOf[t] \in gw.seen
<1> SUFFICES ASSUME IdInv, NEW t \in Tasks, Claims(t) PROVE IdOf[t] \in gw.seen
  OBVIOUS
<1>1. BookOf[t] \in Books
  BY EntryAssumptions
<1>2. CASE EverOpened(t)
  BY <1>1, <1>2 DEF EverOpened, IdInv, OrderRowFirst
<1>3. CASE ~EverOpened(t)
  BY <1>3 DEF Claims, Opened, Submitted, IdInv, Remembered
<1> QED
  BY <1>2, <1>3

LEMMA IdInit == Init => IdInv
<1> SUFFICES ASSUME Init PROVE IdInv
  OBVIOUS
<1>1. TypeOK
  BY TypeInit
<1>2. \A t \in Tasks : task[t].stage = "signal"
  BY DEF Init, Idle
<1>3. \A t \in Tasks, b \in Books :
         pos[t][b].status = "none" /\ positionRows[t][b].status = "none"
  BY DEF Init, NoPosition
<1>4. \A t \in Tasks : ~Claims(t)
  BY <1>2, <1>3, EntryAssumptions DEF Claims, Opened, EverOpened
<1>5. orderRows = {} /\ \A t \in Tasks : venue[t] = "none"
  BY DEF Init
<1> QED
  BY <1>1, <1>2, <1>3, <1>4, <1>5
     DEF IdInv, Remembered, Submitted, Opened, OrderRowFirst, OneClaim, SentIsSeen, SentOnce

\* A step that claims nothing new, sends nothing and forgets nothing.
LEMMA QuietStep ==
  ASSUME IdInv, TypeOK',
         crashes' = crashes,
         gw.seen \subseteq gw'.seen,
         orderRows' \subseteq gw'.seen,
         \A t \in Tasks : task'[t].stage \in Submitted => IdOf[t] \in gw'.seen,
         \A t \in Tasks : task'[t].stage \in Opened => IdOf[t] \in orderRows',
         \A t \in Tasks : Claims(t)' => Claims(t),
         \A t \in Tasks, b \in Books :
             pos'[t][b].status # "none" \/ positionRows'[t][b].status # "none"
                 => IdOf[t] \in orderRows',
         \A t \in Tasks : venue'[t] # "none" => venue[t] # "none"
  PROVE  IdInv'
<1>1. Remembered'
  BY DEF Remembered
<1>2. OrderRowFirst'
  BY DEF OrderRowFirst
<1>3. OneClaim'
  BY DEF IdInv, OneClaim
<1>4. SentIsSeen'
  BY DEF IdInv, SentIsSeen
<1>5. SentOnce'
  BY DEF IdInv, SentOnce
<1> QED
  BY <1>1, <1>2, <1>3, <1>4, <1>5 DEF IdInv

\* The same when nothing but the purses, the modes or the stage of a handler
\* that has nothing in the ledger yet has changed.
LEMMA IdFrame ==
  ASSUME IdInv, TypeOK',
         UNCHANGED <<pos, venue, orderRows, positionRows, crashes>>,
         gw.seen \subseteq gw'.seen,
         \A t \in Tasks : task'[t].stage \in Submitted => IdOf[t] \in gw'.seen,
         \A t \in Tasks : task'[t].stage \in Opened => IdOf[t] \in orderRows,
         \A t \in Tasks : Claims(t)' => Claims(t)
  PROVE  IdInv'
<1>1. orderRows' \subseteq gw'.seen
  BY DEF IdInv, Remembered
<1>2. \A t \in Tasks, b \in Books :
         pos'[t][b].status # "none" \/ positionRows'[t][b].status # "none"
             => IdOf[t] \in orderRows'
  BY DEF IdInv, OrderRowFirst
<1> QED
  BY <1>1, <1>2, QuietStep

-----------------------------------------------------------------------------
(* A task past the duplicate check *)

\* A refusal takes the hold, remembers the id and claims nothing.
LEMMA IdRefusal ==
  ASSUME IdInv, TypeOK', NEW t \in Tasks, NEW outlay,
         HoldAnd(t, outlay, 0, "recording"),
         UNCHANGED <<pos, venue, orderRows, positionRows, crashes>>,
         gw.seen \subseteq gw'.seen, IdOf[t] \in gw'.seen
  PROVE  IdInv'
<1>1. \A u \in Tasks : u # t => task'[u] = task[u]
  BY DEF HoldAnd, IdInv, TypeOK
<1>2. task'[t].stage = "recording" /\ task'[t].cost = 0
  BY DEF HoldAnd, IdInv, TypeOK, TaskState
<1>3. \A u \in Tasks : task'[u].stage \in Submitted => IdOf[u] \in gw'.seen
  BY <1>1, <1>2 DEF IdInv, Remembered
<1>4. \A u \in Tasks : task'[u].stage \in Opened => IdOf[u] \in orderRows
  BY <1>1, <1>2 DEF IdInv, Remembered, Opened
<1>5. \A u \in Tasks : EverOpened(u)' <=> EverOpened(u)
  BY DEF EverOpened
<1>6. \A u \in Tasks : Claims(u)' => Claims(u)
  BY <1>1, <1>2, <1>5 DEF Claims, Opened
<1> QED
  BY <1>3, <1>4, <1>6, IdFrame

\* A fill on paper, or an order sent, is the first claim of its id.
LEMMA IdClaim ==
  ASSUME IdInv, TypeOK', NEW t \in Tasks, NEW outlay, NEW cost \in Nat,
         NEW stage \in {"recording", "placing"},
         HoldAnd(t, outlay, cost, stage),
         IdOf[t] \notin gw.seen,
         gw'.seen = gw.seen \cup {IdOf[t]},
         UNCHANGED <<pos, orderRows, positionRows, crashes>>,
         \A u \in Tasks : u # t => venue'[u] = venue[u]
  PROVE  IdInv'
<1>1. \A u \in Tasks : u # t => task'[u] = task[u]
  BY DEF HoldAnd, IdInv, TypeOK
<1>2. task'[t].stage = stage
  BY DEF HoldAnd, IdInv, TypeOK, TaskState
<1>3. \A u \in Tasks : EverOpened(u)' <=> EverOpened(u)
  BY DEF EverOpened
<1>4. \A u \in Tasks : u # t /\ Claims(u)' => Claims(u) /\ IdOf[u] # IdOf[t]
  BY <1>1, <1>3, ClaimIsSeen DEF Claims
<1>5. Remembered'
  BY <1>1, <1>2 DEF IdInv, Remembered, Opened, Submitted
<1>6. OrderRowFirst'
  BY DEF IdInv, OrderRowFirst
<1>7. OneClaim'
  BY <1>4 DEF IdInv, OneClaim
<1>8. SentIsSeen'
  BY DEF IdInv, SentIsSeen
<1>9. SentOnce'
  BY DEF IdInv, SentOnce, SentIsSeen
<1> QED
  BY <1>5, <1>6, <1>7, <1>8, <1>9 DEF IdInv

LEMMA IdSubmit ==
  ASSUME IdInv, TypeOK', NEW t \in Tasks, Submit(t)
  PROVE  IdInv'
<1> PICK outlay \in Outlays :
        \/ RefuseDuplicate(t, outlay)
        \/ RefuseHalted(t, outlay)
        \/ ShadowOnly(t, outlay)
        \/ RefuseNoBook(t, outlay)
        \/ \E s \in Slips : PaperFill(t, outlay, s)
        \/ RefuseCapped(t, outlay)
        \/ PlaceLive(t, outlay)
  BY DEF Submit
<1>1. gw \in GatewayState(Ids) /\ IdOf[t] \in Ids
  BY EntryAssumptions DEF IdInv, TypeOK
<1>2. /\ See(gw, IdOf[t]) \in GatewayState(Ids)
      /\ See(gw, IdOf[t]).seen = gw.seen \cup {IdOf[t]}
  BY <1>1, GatewayTypes, GatewayRemembers
<1>3. /\ Reject(See(gw, IdOf[t])).seen = gw.seen \cup {IdOf[t]}
      /\ Filled(See(gw, IdOf[t])).seen = gw.seen \cup {IdOf[t]}
      /\ ShadowOk(See(gw, IdOf[t])).seen = gw.seen \cup {IdOf[t]}
  BY <1>2, GatewayRemembers
<1>4. CASE RefuseDuplicate(t, outlay)
  BY <1>4, IdRefusal DEF RefuseDuplicate, Duplicate, ledger, env
<1>5. CASE RefuseHalted(t, outlay)
  BY <1>3, <1>5, IdRefusal DEF RefuseHalted, ledger, env
<1>6. CASE ShadowOnly(t, outlay)
  BY <1>3, <1>6, IdRefusal DEF ShadowOnly, ledger, env
<1>7. CASE RefuseNoBook(t, outlay)
  BY <1>3, <1>7, IdRefusal DEF RefuseNoBook, ledger, env
<1>8. CASE RefuseCapped(t, outlay)
  BY <1>3, <1>8, IdRefusal DEF RefuseCapped, ledger, env
<1>9. ASSUME NEW s \in Slips, PaperFill(t, outlay, s) PROVE IdInv'
  <2>1. outlay + s \in Nat
    BY <1>9, EntryAssumptions DEF PaperFill
  <2> QED
    BY <1>3, <1>9, <2>1, IdClaim DEF PaperFill, Prechecked, Duplicate, ledger, env
<1>10. CASE PlaceLive(t, outlay)
  <2>1. \A u \in Tasks : u # t => venue'[u] = venue[u]
    BY <1>10 DEF PlaceLive, IdInv, TypeOK
  <2> QED
    BY <1>2, <1>10, <2>1, IdClaim DEF PlaceLive, Prechecked, Duplicate, ledger, env
<1> QED
  BY <1>4, <1>5, <1>6, <1>7, <1>8, <1>9, <1>10

-----------------------------------------------------------------------------
(* A task that goes on *)

LEMMA IdAnswer ==
  ASSUME IdInv, TypeOK', NEW t \in Tasks, Answer(t)
  PROVE  IdInv'
<1>1. task[t].stage = "placing" /\ gw'.seen = gw.seen
  <2>1. gw \in GatewayState(Ids) /\ IdOf[t] \in Ids
    BY EntryAssumptions DEF IdInv, TypeOK
  <2> QED
    BY <2>1, GatewayRemembers DEF Answer, LiveFilled, LiveRefused
<1>2. /\ UNCHANGED <<pos, venue, orderRows, positionRows, crashes>>
      /\ task'[t].stage = "recording"
      /\ \A u \in Tasks : u # t => task'[u] = task[u]
  BY DEF Answer, LiveFilled, LiveRefused, IdInv, TypeOK, TaskState, ledger, env
<1>3. \A u \in Tasks : EverOpened(u)' <=> EverOpened(u)
  BY <1>2 DEF EverOpened
<1>4. \A u \in Tasks : Claims(u)' => Claims(u)
  BY <1>1, <1>2, <1>3 DEF Claims, Opened
<1>5. \A u \in Tasks : task'[u].stage \in Submitted => IdOf[u] \in gw'.seen
  BY <1>1, <1>2 DEF IdInv, Remembered, Submitted
<1>6. \A u \in Tasks : task'[u].stage \in Opened => IdOf[u] \in orderRows
  BY <1>2 DEF IdInv, Remembered, Opened
<1> QED
  BY <1>1, <1>2, <1>4, <1>5, <1>6, IdFrame

LEMMA IdRecord ==
  ASSUME IdInv, TypeOK', NEW t \in Tasks, Record(t)
  PROVE  IdInv'
<1>1. /\ task[t].stage = "recording" /\ IdOf[t] \in gw.seen
      /\ UNCHANGED <<gw, venue, positionRows, crashes>>
      /\ orderRows' \in {orderRows, orderRows \cup {IdOf[t]}}
  BY DEF Record, RecordRefusal, RecordFails, OpenPosition, IdInv, Remembered, Submitted, env
<1>2. \A u \in Tasks : u # t => task'[u] = task[u] /\ pos'[u] = pos[u]
  BY DEF Record, RecordRefusal, RecordFails, OpenPosition, IdInv, TypeOK
<1>3. orderRows' \subseteq gw'.seen
  BY <1>1 DEF IdInv, Remembered
<1>4. task'[t].stage \in {"done", "saving_position"}
  BY DEF Record, RecordRefusal, RecordFails, OpenPosition, IdInv, TypeOK, TaskState
<1>5. \A u \in Tasks : task'[u].stage \in Submitted => IdOf[u] \in gw'.seen
  BY <1>1, <1>2 DEF IdInv, Remembered
<1>6. ASSUME OpenPosition(t) PROVE IdInv'
  <2>1. orderRows' = orderRows \cup {IdOf[t]} /\ task[t].cost > 0
    BY <1>6 DEF OpenPosition
  <2>2. \A u \in Tasks : task'[u].stage \in Opened => IdOf[u] \in orderRows'
    BY <1>2, <2>1 DEF IdInv, Remembered
  <2>3. \A u \in Tasks : Claims(u)' => Claims(u)
    BY <1>1, <1>2, <2>1 DEF Claims, EverOpened
  <2>4. \A u \in Tasks, b \in Books :
           pos'[u][b].status # "none" \/ positionRows'[u][b].status # "none"
               => IdOf[u] \in orderRows'
    BY <1>1, <1>2, <2>1 DEF IdInv, OrderRowFirst
  <2> QED
    BY <1>1, <1>3, <1>5, <2>2, <2>3, <2>4, QuietStep
<1>7. ASSUME RecordRefusal(t) \/ RecordFails(t) PROVE IdInv'
  <2>1. pos' = pos /\ task'[t].stage = "done"
    BY <1>7 DEF RecordRefusal, RecordFails, IdInv, TypeOK, TaskState
  <2>2. \A u \in Tasks : task'[u].stage \in Opened => IdOf[u] \in orderRows'
    BY <1>1, <1>2, <2>1 DEF IdInv, Remembered, Opened
  <2>3. \A u \in Tasks : Claims(u)' => Claims(u)
    BY <1>1, <1>2, <2>1 DEF Claims, EverOpened, Opened
  <2>4. \A u \in Tasks, b \in Books :
           pos'[u][b].status # "none" \/ positionRows'[u][b].status # "none"
               => IdOf[u] \in orderRows'
    BY <1>1, <2>1 DEF IdInv, OrderRowFirst
  <2> QED
    BY <1>1, <1>3, <1>5, <2>2, <2>3, <2>4, QuietStep
<1> QED
  BY <1>6, <1>7 DEF Record

LEMMA IdSave ==
  ASSUME IdInv, TypeOK', NEW t \in Tasks, Save(t)
  PROVE  IdInv'
<1>1. /\ task[t].stage \in Opened
      /\ UNCHANGED <<gw, pos, venue, orderRows, crashes>>
  BY DEF Save, SavePosition, SaveWallet, SaveFails, Opened, ledger, env
<1>2. \A u \in Tasks : u # t => task'[u] = task[u] /\ positionRows'[u] = positionRows[u]
  BY DEF Save, SavePosition, SaveWallet, SaveFails, IdInv, TypeOK, ledger
<1>3. task'[t].stage \in {"saving_wallet", "mirroring", "done"}
  BY DEF Save, SavePosition, SaveWallet, SaveFails, NextStage, IdInv, TypeOK, TaskState
<1>4. IdOf[t] \in orderRows /\ orderRows \subseteq gw.seen /\ Claims(t)
  BY <1>1 DEF IdInv, Remembered, Claims
<1>5. \A u \in Tasks : task'[u].stage \in Submitted => IdOf[u] \in gw'.seen
  BY <1>1, <1>2, <1>4 DEF IdInv, Remembered
<1>6. \A u \in Tasks : task'[u].stage \in Opened => IdOf[u] \in orderRows'
  BY <1>1, <1>2, <1>4 DEF IdInv, Remembered
<1>7. \A u \in Tasks : Claims(u)' => Claims(u)
  BY <1>1, <1>2, <1>4 DEF Claims, EverOpened
<1>8. \A u \in Tasks, b \in Books :
         pos'[u][b].status # "none" \/ positionRows'[u][b].status # "none"
             => IdOf[u] \in orderRows'
  BY <1>1, <1>2, <1>4 DEF IdInv, OrderRowFirst
<1> QED
  BY <1>1, <1>4, <1>5, <1>6, <1>7, <1>8, QuietStep

LEMMA IdMirror ==
  ASSUME IdInv, TypeOK', NEW t \in Tasks, Mirror(t)
  PROVE  IdInv'
<1>1. /\ task[t].stage = "mirroring"
      /\ UNCHANGED <<gw, venue, orderRows, positionRows, crashes>>
  BY DEF Mirror, SkipTwin, OpenTwin, ledger, env
<1>2. \A u \in Tasks : u # t => task'[u] = task[u] /\ pos'[u] = pos[u]
  BY DEF Mirror, SkipTwin, OpenTwin, IdInv, TypeOK
<1>3. IdOf[t] \in orderRows /\ orderRows \subseteq gw.seen /\ Claims(t)
  BY <1>1 DEF IdInv, Remembered, Claims, Opened
<1>4. \A u \in Tasks : task'[u].stage \in Submitted => IdOf[u] \in gw'.seen
  BY <1>1, <1>2, <1>3 DEF IdInv, Remembered
<1>5. \A u \in Tasks : task'[u].stage \in Opened => IdOf[u] \in orderRows'
  BY <1>1, <1>2, <1>3 DEF IdInv, Remembered
<1>6. \A u \in Tasks : Claims(u)' => Claims(u)
  BY <1>1, <1>2, <1>3 DEF Claims, EverOpened
<1>7. \A u \in Tasks, b \in Books :
         pos'[u][b].status # "none" \/ positionRows'[u][b].status # "none"
             => IdOf[u] \in orderRows'
  BY <1>1, <1>2, <1>3 DEF IdInv, OrderRowFirst
<1> QED
  BY <1>1, <1>3, <1>4, <1>5, <1>6, <1>7, QuietStep

LEMMA IdClose ==
  ASSUME IdInv, TypeOK', NEW t \in Tasks, NEW b \in Books, NEW pnl \in PnLs,
         ClosePosition(t, b, pnl)
  PROVE  IdInv'
<1>1. /\ UNCHANGED <<gw, task, venue, orderRows, crashes>>
      /\ pos[t][b].status # "none"
  BY DEF ClosePosition, Intervene
<1>2. \A u \in Tasks, c \in Books :
         u # t \/ c # b => pos'[u][c] = pos[u][c]
                            /\ positionRows'[u][c] = positionRows[u][c]
  BY DEF ClosePosition, IdInv, TypeOK
<1>3. \A u \in Tasks, c \in Books :
         pos'[u][c].status # "none" \/ positionRows'[u][c].status # "none"
             => pos[u][c].status # "none" \/ positionRows[u][c].status # "none"
  BY <1>1, <1>2
<1>4. \A u \in Tasks : Claims(u)' => Claims(u)
  <2>1. \A u \in Tasks : EverOpened(u)' => EverOpened(u)
    BY <1>3, EntryAssumptions DEF EverOpened
  <2> QED
    BY <1>1, <2>1 DEF Claims
<1>5. \A u \in Tasks, c \in Books :
         pos'[u][c].status # "none" \/ positionRows'[u][c].status # "none"
             => IdOf[u] \in orderRows'
  BY <1>1, <1>3 DEF IdInv, OrderRowFirst
<1>6. \A u \in Tasks : /\ task'[u].stage \in Submitted => IdOf[u] \in gw'.seen
                       /\ task'[u].stage \in Opened => IdOf[u] \in orderRows'
  BY <1>1 DEF IdInv, Remembered
<1>7. orderRows' \subseteq gw'.seen
  BY <1>1 DEF IdInv, Remembered
<1> QED
  BY <1>1, <1>4, <1>5, <1>6, <1>7, QuietStep

\* After a restart the memory is the ledger, and every claim left is a row.
LEMMA IdCrash ==
  ASSUME IdInv, TypeOK', CrashAndBoot
  PROVE  IdInv'
<1>1. gw'.seen = orderRows /\ UNCHANGED <<orderRows, positionRows, venue>>
  BY DEF CrashAndBoot, Rebooted, ledger
<1>2. \A t \in Tasks : task'[t].stage \in {"signal", "done"}
  BY DEF CrashAndBoot, Idle, IdInv, TypeOK, TaskState
<1>3. \A t \in Tasks, b \in Books :
         pos'[t][b].status # "none" => positionRows[t][b].status # "none"
  BY DEF CrashAndBoot, NoPosition
<1>4. \A t \in Tasks : Claims(t)' => Claims(t)
  <2>1. \A t \in Tasks : EverOpened(t)' => EverOpened(t)
    BY <1>1, <1>3, EntryAssumptions DEF EverOpened
  <2> QED
    BY <1>2, <2>1 DEF Claims, Opened
<1>5. crashes' # 0
  BY DEF CrashAndBoot, IdInv, TypeOK
<1>6. Remembered'
  BY <1>1, <1>2 DEF Remembered, Submitted, Opened
<1>7. OrderRowFirst'
  BY <1>1, <1>3 DEF IdInv, OrderRowFirst
<1>8. OneClaim'
  BY <1>4 DEF IdInv, OneClaim
<1> QED
  BY <1>5, <1>6, <1>7, <1>8 DEF IdInv, SentIsSeen, SentOnce

\* Steps that leave tasks, positions, orders and their rows alone.
LEMMA IdStill ==
  ASSUME IdInv, TypeOK', gw'.seen = gw.seen,
         UNCHANGED <<task, pos, orderRows, positionRows, crashes>>,
         \A t \in Tasks : venue'[t] # "none" => venue[t] # "none"
  PROVE  IdInv'
<1>1. \A t \in Tasks : Claims(t)' => Claims(t)
  BY DEF Claims, EverOpened
<1> QED
  BY <1>1, QuietStep DEF IdInv, Remembered, OrderRowFirst

LEMMA IdStep == IdInv /\ [Next]_vars => IdInv'
<1> SUFFICES ASSUME IdInv, [Next]_vars PROVE IdInv'
  OBVIOUS
<1>0. TypeOK'
  BY TypeStep DEF IdInv
<1>1. ASSUME NEW t \in Tasks, Decline(t) PROVE IdInv'
  <2>1. \A u \in Tasks : u # t => task'[u] = task[u]
    BY <1>1 DEF Decline, IdInv, TypeOK
  <2>2. task'[t].stage = "done"
    BY <1>1 DEF Decline, IdInv, TypeOK, TaskState
  <2>3. UNCHANGED <<gw, pos, venue, orderRows, positionRows, crashes>>
    BY <1>1 DEF Decline, ledger, env
  <2>4. \A u \in Tasks : Claims(u)' => Claims(u)
    BY <2>1, <2>2, <2>3 DEF Claims, EverOpened, Opened
  <2>5. \A u \in Tasks : /\ task'[u].stage \in Submitted => IdOf[u] \in gw'.seen
                         /\ task'[u].stage \in Opened => IdOf[u] \in orderRows
    BY <2>1, <2>2, <2>3 DEF IdInv, Remembered, Submitted, Opened
  <2> QED
    BY <1>0, <2>3, <2>4, <2>5, IdFrame
<1>2. ASSUME NEW t \in Tasks, Submit(t) PROVE IdInv'
  BY <1>0, <1>2, IdSubmit
<1>3. ASSUME NEW t \in Tasks, NEW outcome \in {"filled", "dead"}, VenueSettles(t, outcome)
      PROVE  IdInv'
  <2>1. \A u \in Tasks : venue'[u] # "none" => venue[u] # "none"
    BY <1>3 DEF VenueSettles, IdInv, TypeOK
  <2> QED
    BY <1>0, <1>3, <2>1, IdStill DEF VenueSettles, memory, ledger, env
<1>4. ASSUME NEW t \in Tasks, Resume(t) PROVE IdInv'
  BY <1>0, <1>4, IdAnswer, IdRecord, IdSave, IdMirror DEF Resume
<1>5. ASSUME NEW t \in Tasks, NEW b \in Books, NEW pnl \in PnLs, ClosePosition(t, b, pnl)
      PROVE  IdInv'
  BY <1>0, <1>5, IdClose
<1>6. CASE SetHalt
  BY <1>0, <1>6, IdStill DEF SetHalt, Intervene, memory, ledger
<1>7. ASSUME NEW m \in Modes, SetMode(m) PROVE IdInv'
  BY <1>0, <1>7, IdStill DEF SetMode, Intervene, memory, ledger
<1>8. CASE OperatorResetsBreaker
  <2>1. ResetBreaker(gw).seen = gw.seen
    BY DEF ResetBreaker, IdInv, TypeOK, GatewayState
  <2> QED
    BY <1>0, <1>8, <2>1, IdStill DEF OperatorResetsBreaker, Intervene, ledger
<1>9. ASSUME NEW b \in Books, PersistWallet(b) PROVE IdInv'
  BY <1>0, <1>9, IdStill DEF PersistWallet, Intervene, memory
<1>10. CASE CrashAndBoot
  BY <1>0, <1>10, IdCrash
<1>11. CASE UNCHANGED vars
  BY <1>0, <1>11, IdStill DEF vars
<1> QED
  BY <1>1, <1>2, <1>3, <1>4, <1>5, <1>6, <1>7, <1>8, <1>9, <1>10, <1>11 DEF Next

LEMMA IdInvariant == Spec => []IdInv
<1> QED
  BY IdInit, IdStep, PTL DEF Spec

\* A position in memory or in the ledger has its order row in the ledger and
\* its id in the gateway, so no restart and no retry can enter it again.
THEOREM OrderRowsComeFirst == Spec => []OrderRowFirst
<1>1. IdInv => OrderRowFirst
  BY DEF IdInv
<1> QED
  BY <1>1, IdInvariant, PTL

\* One client order id opens at most one position, over any number of handlers
\* and restarts.
THEOREM OnePositionPerOrderHolds == Spec => []OnePositionPerOrder
<1>1. IdInv => OnePositionPerOrder
  BY DEF IdInv, OneClaim, OnePositionPerOrder, Claims
<1> QED
  BY <1>1, IdInvariant, PTL

\* Within one life of the process an id reaches the broker once.
THEOREM SentOnceHolds == Spec => []SentOnce
<1>1. IdInv => SentOnce
  BY DEF IdInv
<1> QED
  BY <1>1, IdInvariant, PTL

-----------------------------------------------------------------------------
(* The breaker.                                                            *)

BreakerHolds(g) == g.consecutive_rejects >= BreakerCap => g.breaker_tripped

\* What the bookkeeping of an order may do to the breaker.
Steady(g, h) == BreakerHolds(h) /\ (g.breaker_tripped => h.breaker_tripped)

LEMMA OperationsAreSteady ==
  ASSUME NEW g \in GatewayState(Ids), BreakerHolds(g), NEW id \in Ids
  PROVE  /\ Steady(g, g) /\ Steady(g, See(g, id)) /\ Steady(g, Reject(g))
         /\ Steady(g, Filled(g)) /\ Steady(g, ShadowOk(g))
<1>1. BreakerCap \in Nat \ {0} /\ g.consecutive_rejects \in Nat /\ g.breaker_tripped \in BOOLEAN
  BY CapsArePositive DEF GatewayState
<1>2. Steady(g, g) /\ Steady(g, See(g, id))
  BY DEF Steady, BreakerHolds, See, GatewayState
<1>3. Steady(g, Reject(g))
  <2>1. /\ Reject(g).consecutive_rejects = g.consecutive_rejects + 1
        /\ Reject(g).breaker_tripped
             = (g.breaker_tripped \/ g.consecutive_rejects + 1 >= BreakerCap)
    BY DEF Reject, GatewayState
  <2> QED
    BY <1>1, <2>1 DEF Steady, BreakerHolds
<1>4. Steady(g, Filled(g)) /\ Steady(g, ShadowOk(g))
  <2>1. /\ Filled(g).consecutive_rejects = 0 /\ ShadowOk(g).consecutive_rejects = 0
        /\ Filled(g).breaker_tripped = g.breaker_tripped
        /\ ShadowOk(g).breaker_tripped = g.breaker_tripped
    BY DEF Filled, ShadowOk, GatewayState
  <2> QED
    BY <1>1, <2>1 DEF Steady, BreakerHolds
<1> QED
  BY <1>2, <1>3, <1>4

BreakerInv == TypeOK /\ BreakerHolds(gw)

LEMMA SubmitIsSteady ==
  ASSUME BreakerInv, NEW t \in Tasks, Submit(t)
  PROVE  Steady(gw, gw')
<1> DEFINE g == See(gw, IdOf[t])
<1>1. IdOf[t] \in Ids /\ gw \in GatewayState(Ids) /\ g \in GatewayState(Ids)
  BY EntryAssumptions, GatewayTypes DEF BreakerInv, TypeOK
<1>2. gw' \in {gw, g, Reject(g), Filled(g), ShadowOk(g)}
  BY DEF Submit, RefuseDuplicate, RefuseHalted, ShadowOnly, RefuseNoBook, PaperFill,
         RefuseCapped, PlaceLive
<1>3. Steady(gw, gw) /\ Steady(gw, g)
  BY <1>1, OperationsAreSteady DEF BreakerInv
<1>4. Steady(g, Reject(g)) /\ Steady(g, Filled(g)) /\ Steady(g, ShadowOk(g))
  BY <1>1, <1>3, OperationsAreSteady DEF Steady
<1> QED
  BY <1>2, <1>3, <1>4 DEF Steady

LEMMA BreakerStep ==
  ASSUME BreakerInv, [Next]_vars
  PROVE  /\ BreakerHolds(gw')
         /\ gw.breaker_tripped /\ ~gw'.breaker_tripped =>
                OperatorResetsBreaker \/ crashes' > crashes
<1>0. gw \in GatewayState(Ids) /\ BreakerHolds(gw) /\ crashes \in Nat
  BY DEF BreakerInv, TypeOK
<1> SUFFICES \/ Steady(gw, gw')
             \/ BreakerHolds(gw') /\ (OperatorResetsBreaker \/ crashes' > crashes)
  BY DEF Steady
<1>1. ASSUME gw' = gw PROVE Steady(gw, gw')
  BY <1>0, <1>1 DEF Steady
<1>2. ASSUME NEW t \in Tasks, Submit(t) PROVE Steady(gw, gw')
  BY <1>2, SubmitIsSteady
<1>3. ASSUME NEW t \in Tasks, Resume(t) PROVE Steady(gw, gw')
  <2>1. gw' \in {gw, Filled(gw), Reject(gw)}
    BY <1>3 DEF Resume, Answer, LiveRefused, LiveFilled, Record, RecordRefusal,
                OpenPosition, RecordFails, Save, SavePosition, SaveWallet, SaveFails,
                Mirror, SkipTwin, OpenTwin
  <2>2. IdOf[t] \in Ids
    BY EntryAssumptions
  <2> QED
    BY <1>0, <2>1, <2>2, OperationsAreSteady
<1>4. ASSUME NEW t \in Tasks,
             \/ Decline(t)
             \/ \E outcome \in {"filled", "dead"} : VenueSettles(t, outcome)
             \/ \E b \in Books, pnl \in PnLs : ClosePosition(t, b, pnl)
      PROVE  Steady(gw, gw')
  BY <1>1, <1>4 DEF Decline, VenueSettles, ClosePosition, memory
<1>5. ASSUME \/ SetHalt \/ \E m \in Modes : SetMode(m)
             \/ \E b \in Books : PersistWallet(b)
      PROVE  Steady(gw, gw')
  BY <1>1, <1>5 DEF SetHalt, SetMode, PersistWallet, memory
<1>6. ASSUME OperatorResetsBreaker PROVE BreakerHolds(gw')
  <2>1. gw' = ResetBreaker(gw) /\ ResetBreaker(gw).consecutive_rejects = 0
    BY <1>0, <1>6 DEF OperatorResetsBreaker, ResetBreaker, GatewayState
  <2> QED
    BY <2>1, CapsArePositive DEF BreakerHolds
<1>7. ASSUME CrashAndBoot PROVE BreakerHolds(gw') /\ crashes' > crashes
  <2>1. gw'.consecutive_rejects = 0 /\ crashes' = crashes + 1
    BY <1>7 DEF CrashAndBoot, Rebooted
  <2> QED
    BY <1>0, <2>1, CapsArePositive DEF BreakerHolds
<1>8. ASSUME UNCHANGED vars PROVE Steady(gw, gw')
  BY <1>1, <1>8 DEF vars
<1> QED
  BY <1>2, <1>3, <1>4, <1>5, <1>6, <1>7, <1>8 DEF Next

\* Enough rejects in a row trip the breaker, and no fill, exit, refusal or
\* mode change clears it: only an operator or a restart does.
THEOREM BreakerLatchesHolds == Spec => BreakerLatches
<1>1. Init => BreakerInv
  BY TypeInit, CapsArePositive DEF Init, BreakerInv, BreakerHolds, Rebooted
<1>2. BreakerInv /\ [Next]_vars => BreakerInv'
  BY TypeStep, BreakerStep DEF BreakerInv, BreakerHolds
<1>3. BreakerInv /\ [Next]_vars =>
        [ /\ gw'.consecutive_rejects >= BreakerCap => gw'.breaker_tripped
          /\ gw.breaker_tripped /\ ~gw'.breaker_tripped =>
                 \/ OperatorResetsBreaker
                 \/ crashes' > crashes ]_vars
  BY BreakerStep DEF BreakerHolds
<1> QED
  BY <1>1, <1>2, <1>3, PTL DEF Spec, BreakerLatches

-----------------------------------------------------------------------------
(* The money.  Within one life of the process a purse's deployed rupees    *)
(* are the holds and the costs they stand for, so that every release is of *)
(* money that is there; this needs to know that a handler opens a position *)
(* where none is, and that it holds money only while its order is out.     *)

InBook(b) == {t \in Tasks : BookOf[t] = b}

BeforeFill == {"signal", "placing", "recording"}

Unopened(t) ==
    /\ task[t].stage \in BeforeFill => \A b \in Books : pos[t][b].status = "none"
    /\ task[t].stage \notin {"placing", "recording"} => task[t].hold = 0
    /\ \A k \in task[t].left : pos[t][k].status = "none"

Accounted == \A b \in Books : purse[b].deployed = HeldFor(b) + CostOf(b)

Within(w, s) == w.deployed <= Had(w) + s

Funded == \A b \in Books : Within(purse[b], slip[b])

PurseInv == (\A t \in Tasks : Unopened(t)) /\ Accounted /\ Funded

MoneyInv == TypeOK /\ (crashes = 0 => PurseInv)

LEMMA MoneyTypes ==
  ASSUME TypeOK
  PROVE  /\ IsFiniteSet(Tasks) /\ \A b : IsFiniteSet(InBook(b)) /\ InBook(b) \subseteq Tasks
         /\ \A t \in Tasks : BookOf[t] \in Books /\ task[t] \in TaskState /\ task[t].hold \in Nat
         /\ \A t \in Tasks, b \in Books : CostIn(t, b) \in Nat
         /\ \A b \in Books : purse[b] \in Purse /\ purse[b].deployed \in Nat /\ slip[b] \in Nat
<1>1. IsFiniteSet(Tasks)
  BY EntryAssumptions
<1>2. \A b : IsFiniteSet(InBook(b)) /\ InBook(b) \subseteq Tasks
  BY <1>1, FS_Subset DEF InBook
<1>3. \A t \in Tasks : BookOf[t] \in Books /\ task[t] \in TaskState /\ task[t].hold \in Nat
  BY EntryAssumptions DEF TypeOK, TaskState
<1>4. \A t \in Tasks, b \in Books : CostIn(t, b) \in Nat
  BY DEF TypeOK, PositionState, CostIn
<1>5. \A b \in Books : purse[b] \in Purse /\ purse[b].deployed \in Nat /\ slip[b] \in Nat
  BY DEF TypeOK, Purse
<1> QED
  BY <1>1, <1>2, <1>3, <1>4, <1>5

\* A hold, and what a position cost, is no more than its purse has deployed.
LEMMA ReleasesAreCovered ==
  ASSUME TypeOK, Accounted, NEW t \in Tasks, NEW b \in Books
  PROVE  /\ task[t].hold <= purse[BookOf[t]].deployed
         /\ CostIn(t, b) <= purse[b].deployed
<1> DEFINE holds == [u \in Tasks |-> task[u].hold]
           costs(c) == [u \in Tasks |-> CostIn(u, c)]
           H(c) == SumFunctionOnSet(holds, InBook(c))
           C(c) == SumFunctionOnSet(costs(c), Tasks)
<1>1. \A c \in Books : purse[c].deployed = H(c) + C(c)
  BY DEF Accounted, HeldFor, CostOf, InBook
<1>2. \A c \in Books : H(c) \in Nat /\ \A u \in InBook(c) : task[u].hold <= H(c)
  <2> SUFFICES ASSUME NEW c \in Books
               PROVE  H(c) \in Nat /\ \A u \in InBook(c) : task[u].hold <= H(c)
    OBVIOUS
  <2>1. \A u \in InBook(c) : holds[u] \in Nat /\ holds[u] = task[u].hold
    BY MoneyTypes
  <2>2. IsFiniteSet(InBook(c))
    BY MoneyTypes
  <2> HIDE DEF holds
  <2> QED
    BY <2>1, <2>2, SumNat
<1>3. \A c \in Books : C(c) \in Nat /\ \A u \in Tasks : CostIn(u, c) <= C(c)
  <2> SUFFICES ASSUME NEW c \in Books
               PROVE  C(c) \in Nat /\ \A u \in Tasks : CostIn(u, c) <= C(c)
    OBVIOUS
  <2> DEFINE g == costs(c)
  <2>1. \A u \in Tasks : g[u] \in Nat /\ g[u] = CostIn(u, c)
    BY MoneyTypes
  <2>2. IsFiniteSet(Tasks) /\ C(c) = SumFunctionOnSet(g, Tasks)
    BY MoneyTypes
  <2> HIDE DEF g, C
  <2> QED
    BY <2>1, <2>2, SumNat
<1> HIDE DEF H, C
<1>4. BookOf[t] \in Books /\ t \in InBook(BookOf[t])
  BY MoneyTypes DEF InBook
<1>5. task[t].hold \in Nat /\ CostIn(t, b) \in Nat
  BY MoneyTypes
<1> QED
  BY <1>1, <1>2, <1>3, <1>4, <1>5

\* One handler's money moves in one book.
LEMMA MoneyMoves ==
  ASSUME TypeOK, TypeOK', PurseInv, NEW t \in Tasks, NEW b \in Books,
         \A u \in Tasks : u # t \/ b # BookOf[t] => task'[u].hold = task[u].hold,
         \A u \in Tasks, c \in Books : u # t \/ c # b => CostIn(u, c)' = CostIn(u, c),
         \A c \in Books : c # b => purse'[c] = purse[c] /\ slip'[c] = slip[c],
         purse'[b].deployed = purse[b].deployed
                              + (task'[t].hold - task[t].hold) + (CostIn(t, b)' - CostIn(t, b)),
         Within(purse'[b], slip'[b]),
         \A u \in Tasks : Unopened(u)'
  PROVE  PurseInv'
<1> DEFINE holds == [u \in Tasks |-> task[u].hold]
           holds2 == [u \in Tasks |-> task'[u].hold]
           costs(c) == [u \in Tasks |-> CostIn(u, c)]
           costs2(c) == [u \in Tasks |-> CostIn(u, c)']
<1>1. Funded'
  BY DEF Funded, PurseInv
<1>2. ASSUME NEW c \in Books
      PROVE  /\ SumFunctionOnSet(holds2, InBook(c))
                  = SumFunctionOnSet(holds, InBook(c))
                    + (IF c = b THEN task'[t].hold - task[t].hold ELSE 0)
             /\ SumFunctionOnSet(holds, InBook(c)) \in Int
  <2>0. \A u \in Tasks : holds[u] \in Nat /\ holds2[u] \in Nat
    <3>1. \A u \in Tasks : task'[u].hold \in Nat
      BY DEF TypeOK, TaskState
    <3> QED
      BY <3>1, MoneyTypes
  <2>1. holds[t] = task[t].hold /\ holds2[t] = task'[t].hold
    OBVIOUS
  <2>2. \A u \in Tasks : u # t \/ b # BookOf[t] => holds2[u] = holds[u]
    OBVIOUS
  <2>3. IsFiniteSet(InBook(c)) /\ InBook(c) \subseteq Tasks
    BY MoneyTypes
  <2> HIDE DEF holds, holds2
  <2>4. SumFunctionOnSet(holds, InBook(c)) \in Int
    BY <2>0, <2>3, SumType
  <2>5. CASE c # BookOf[t] \/ b # BookOf[t]
    <3>1. \A u \in InBook(c) : holds[u] = holds2[u]
      BY <2>2, <2>3, <2>5 DEF InBook
    <3>2. SumFunctionOnSet(holds2, InBook(c)) = SumFunctionOnSet(holds, InBook(c))
      BY <2>3, <3>1, SumOfSame
    <3>3. c = b => task'[t].hold - task[t].hold = 0
      BY <2>0, <2>1, <2>2, <2>5
    <3> QED
      BY <2>4, <3>2, <3>3
  <2>6. CASE c = BookOf[t] /\ b = BookOf[t]
    <3>1. t \in InBook(c)
      BY <2>6 DEF InBook
    <3>2. SumFunctionOnSet(holds2, InBook(c))
              = SumFunctionOnSet(holds, InBook(c)) - holds[t] + holds2[t]
      BY <2>0, <2>2, <2>3, <3>1, SumChanged
    <3> QED
      BY <2>0, <2>1, <2>4, <2>6, <3>2
  <2> QED
    BY <2>4, <2>5, <2>6
<1>3. ASSUME NEW c \in Books
      PROVE  /\ SumFunctionOnSet(costs2(c), Tasks)
                  = SumFunctionOnSet(costs(c), Tasks)
                    + (IF c = b THEN CostIn(t, b)' - CostIn(t, b) ELSE 0)
             /\ SumFunctionOnSet(costs(c), Tasks) \in Int
  <2> DEFINE f == costs(c)
             g == costs2(c)
  <2>0. \A u \in Tasks : f[u] \in Nat /\ g[u] \in Nat
    <3>1. \A u \in Tasks : CostIn(u, c)' \in Nat
      BY DEF TypeOK, PositionState, CostIn
    <3> QED
      BY <3>1, MoneyTypes
  <2>1. f[t] = CostIn(t, c) /\ g[t] = CostIn(t, c)'
    OBVIOUS
  <2>2. \A u \in Tasks : u # t \/ c # b => f[u] = g[u]
    OBVIOUS
  <2>3. IsFiniteSet(Tasks)
    BY MoneyTypes
  <2> HIDE DEF f, g
  <2>4. SumFunctionOnSet(f, Tasks) \in Int
    BY <2>0, <2>3, SumType
  <2>5. CASE c # b
    <3>1. SumFunctionOnSet(g, Tasks) = SumFunctionOnSet(f, Tasks)
      BY <2>2, <2>3, <2>5, SumOfSame
    <3> QED
      BY <2>4, <2>5, <3>1 DEF f, g
  <2>6. CASE c = b
    <3>1. SumFunctionOnSet(g, Tasks) = SumFunctionOnSet(f, Tasks) - f[t] + g[t]
      BY <2>0, <2>2, <2>3, SumChanged
    <3>2. SumFunctionOnSet(g, Tasks)
            = SumFunctionOnSet(f, Tasks) + (CostIn(t, c)' - CostIn(t, c))
      BY <2>0, <2>1, <2>4, <3>1
    <3> QED
      BY <2>4, <2>6, <3>2 DEF f, g
  <2> QED
    BY <2>5, <2>6
<1>4. Accounted'
  <2> SUFFICES ASSUME NEW c \in Books
               PROVE  purse'[c].deployed = HeldFor(c)' + CostOf(c)'
    BY DEF Accounted
  <2>1. /\ HeldFor(c) = SumFunctionOnSet(holds, InBook(c))
        /\ HeldFor(c)' = SumFunctionOnSet(holds2, InBook(c))
        /\ CostOf(c) = SumFunctionOnSet(costs(c), Tasks)
        /\ CostOf(c)' = SumFunctionOnSet(costs2(c), Tasks)
    BY DEF HeldFor, CostOf, InBook
  <2>2. purse[c].deployed = HeldFor(c) + CostOf(c)
    BY DEF PurseInv, Accounted
  <2>3. /\ HeldFor(c)' = HeldFor(c) + (IF c = b THEN task'[t].hold - task[t].hold ELSE 0)
        /\ CostOf(c)' = CostOf(c) + (IF c = b THEN CostIn(t, b)' - CostIn(t, b) ELSE 0)
        /\ HeldFor(c) \in Int /\ CostOf(c) \in Int
    BY <1>2, <1>3, <2>1
  <2>4. /\ task[t].hold \in Int /\ task'[t].hold \in Int
        /\ CostIn(t, b) \in Int /\ CostIn(t, b)' \in Int
    BY DEF TypeOK, TaskState, PositionState, CostIn
  <2>5. CASE c = b
    BY <2>2, <2>3, <2>4, <2>5
  <2>6. CASE c # b
    BY <2>2, <2>3, <2>6
  <2> QED
    BY <2>5, <2>6
<1> QED
  BY <1>1, <1>4 DEF PurseInv

\* Nothing of the money changes.
LEMMA MoneyStill ==
  ASSUME TypeOK, TypeOK', PurseInv,
         \A t \in Tasks, b \in Books : CostIn(t, b)' = CostIn(t, b),
         \A t \in Tasks : task'[t].hold = task[t].hold,
         UNCHANGED <<purse, slip>>,
         \A t \in Tasks : Unopened(t)'
  PROVE  PurseInv'
<1>1. \A b \in Books : CostOf(b)' = CostOf(b)
  <2>1. \A b \in Books :
           [t \in Tasks |-> CostIn(t, b)'] = [t \in Tasks |-> CostIn(t, b)]
    OBVIOUS
  <2> QED
    BY <2>1 DEF CostOf
<1>2. \A b \in Books : HeldFor(b)' = HeldFor(b)
  <2>1. [t \in Tasks |-> task'[t].hold] = [t \in Tasks |-> task[t].hold]
    OBVIOUS
  <2> QED
    BY <2>1 DEF HeldFor
<1> QED
  BY <1>1, <1>2 DEF PurseInv, Accounted, Funded

-----------------------------------------------------------------------------
(* From the signal to the order's row *)

\* A hold is of money the purse has.
LEMMA MoneyHold ==
  ASSUME TypeOK, TypeOK', PurseInv, NEW t \in Tasks, NEW outlay \in Outlays, NEW cost,
         NEW stage \in {"placing", "recording"},
         Admitted(t, outlay), HoldAnd(t, outlay, cost, stage), UNCHANGED <<pos, slip>>
  PROVE  PurseInv'
<1> DEFINE b == BookOf[t]
           w == purse[b]
<1>1. outlay \in Nat \ {0} /\ b \in Books /\ w \in Purse
  BY EntryAssumptions, MoneyTypes
<1>2. /\ \A u \in Tasks : u # t => task'[u] = task[u]
      /\ task'[t].hold = outlay /\ task'[t].stage = stage /\ task'[t].left = task[t].left
  BY DEF HoldAnd, TypeOK, TaskState
<1>3. task[t].stage = "signal" /\ task[t].hold = 0 /\ outlay <= Available(w)
  BY DEF Admitted, CanReserve, PurseInv, Unopened
<1>4. /\ purse' = [purse EXCEPT ![b] = Deploy(w, outlay)]
      /\ \A c \in Books : c # b => purse'[c] = purse[c]
      /\ purse'[b] = Deploy(w, outlay)
  BY <1>1 DEF HoldAnd, TypeOK
<1>5. purse'[b].deployed = w.deployed + outlay /\ Had(purse'[b]) = Had(w)
  BY <1>1, <1>4, DeployedAfter, HadAfter
<1>6. Within(purse'[b], slip'[b])
  <2>1. /\ w.balance \in Int /\ w.deployed \in Nat /\ w.charges_paid \in Nat
        /\ slip[b] \in Nat /\ slip' = slip
    BY <1>1, MoneyTypes DEF Purse
  <2>2. w.deployed + outlay <= w.balance
    BY <1>1, <1>3, <2>1 DEF Available, Larger
  <2>3. w.deployed + outlay <= Had(w) + slip[b]
    BY <1>1, <2>1, <2>2 DEF Had
  <2> QED
    BY <1>5, <2>1, <2>3 DEF Within
<1>7. \A u \in Tasks, c \in Books : CostIn(u, c)' = CostIn(u, c)
  BY DEF CostIn
<1>8. \A u \in Tasks : Unopened(u)'
  BY <1>2, <1>3 DEF PurseInv, Unopened, BeforeFill
<1>9. /\ \A u \in Tasks : u # t \/ b # BookOf[t] => task'[u].hold = task[u].hold
      /\ \A c \in Books : c # b => purse'[c] = purse[c] /\ slip'[c] = slip[c]
      /\ purse'[b].deployed = purse[b].deployed + (task'[t].hold - task[t].hold)
                              + (CostIn(t, b)' - CostIn(t, b))
  <2>1. CostIn(t, b) \in Nat /\ w.deployed \in Nat
    BY <1>1, MoneyTypes
  <2>2. CostIn(t, b)' = CostIn(t, b)
    BY <1>1, <1>7
  <2> QED
    BY <1>1, <1>2, <1>3, <1>4, <1>5, <2>1, <2>2
<1> HIDE DEF b
<1> QED
  BY <1>1, <1>6, <1>7, <1>8, <1>9, MoneyMoves

LEMMA MoneySubmit ==
  ASSUME TypeOK, TypeOK', PurseInv, NEW t \in Tasks, Submit(t)
  PROVE  PurseInv' /\ crashes' = crashes
<1> PICK outlay \in Outlays :
        \/ RefuseDuplicate(t, outlay)
        \/ RefuseHalted(t, outlay)
        \/ ShadowOnly(t, outlay)
        \/ RefuseNoBook(t, outlay)
        \/ \E s \in Slips : PaperFill(t, outlay, s)
        \/ RefuseCapped(t, outlay)
        \/ PlaceLive(t, outlay)
  BY DEF Submit
<1>1. /\ Admitted(t, outlay) /\ UNCHANGED <<pos, slip, crashes>>
      /\ \E cost : \E stage \in {"placing", "recording"} : HoldAnd(t, outlay, cost, stage)
  BY DEF RefuseDuplicate, RefuseHalted, ShadowOnly, RefuseNoBook, PaperFill, RefuseCapped,
         PlaceLive, env
<1> QED
  BY <1>1, MoneyHold

LEMMA MoneyAnswer ==
  ASSUME TypeOK, TypeOK', PurseInv, NEW t \in Tasks, Answer(t)
  PROVE  PurseInv' /\ crashes' = crashes
<1>1. UNCHANGED <<pos, purse, slip, crashes>> /\ task[t].stage = "placing"
  BY DEF Answer, LiveRefused, LiveFilled, env
<1>2. /\ \A u \in Tasks : u # t => task'[u] = task[u]
      /\ task'[t].stage = "recording" /\ task'[t].hold = task[t].hold
      /\ task'[t].left = task[t].left
  BY DEF Answer, LiveRefused, LiveFilled, TypeOK, TaskState
<1>3. \A u \in Tasks, c \in Books : CostIn(u, c)' = CostIn(u, c)
  BY <1>1 DEF CostIn
<1>4. \A u \in Tasks : Unopened(u)'
  BY <1>1, <1>2 DEF PurseInv, Unopened, BeforeFill
<1>5. \A u \in Tasks : task'[u].hold = task[u].hold
  BY <1>2
<1> QED
  BY <1>1, <1>3, <1>4, <1>5, MoneyStill

-----------------------------------------------------------------------------
(* The hold is given back, or becomes a position *)

LEMMA MoneyRefund ==
  ASSUME TypeOK, TypeOK', PurseInv, NEW t \in Tasks, RecordRefusal(t) \/ RecordFails(t)
  PROVE  PurseInv' /\ crashes' = crashes
<1> DEFINE b == BookOf[t]
           w == purse[b]
           h == task[t].hold
<1>1. b \in Books /\ w \in Purse /\ h \in Nat
  BY MoneyTypes
<1>2. /\ \A u \in Tasks : u # t => task'[u] = task[u]
      /\ task'[t].hold = 0 /\ task'[t].stage = "done" /\ task'[t].left = task[t].left
  BY DEF RecordRefusal, RecordFails, TypeOK, TaskState
<1>3. UNCHANGED <<pos, slip, crashes>>
  BY DEF RecordRefusal, RecordFails, env
<1>4. (\A c \in Books : c # b => purse'[c] = purse[c]) /\ purse'[b] = Release(w, h)
  BY <1>1 DEF RecordRefusal, RecordFails, TypeOK
<1>5. h <= w.deployed
  BY <1>1, ReleasesAreCovered DEF PurseInv
<1>6. purse'[b].deployed = w.deployed - h /\ Had(purse'[b]) = Had(w) /\ Had(w) \in Int
  BY <1>1, <1>4, <1>5, DeployedAfter, HadAfter
<1>7. Within(purse'[b], slip'[b])
  <2>1. slip[b] \in Nat /\ slip' = slip /\ w.deployed \in Nat
    BY <1>1, <1>3, MoneyTypes
  <2>2. w.deployed <= Had(w) + slip[b]
    BY <1>1 DEF PurseInv, Funded, Within
  <2> QED
    BY <1>1, <1>6, <2>1, <2>2 DEF Within
<1>8. \A u \in Tasks, c \in Books : CostIn(u, c)' = CostIn(u, c)
  BY <1>3 DEF CostIn
<1>9. \A u \in Tasks : Unopened(u)'
  BY <1>2, <1>3 DEF PurseInv, Unopened, BeforeFill
<1>10. /\ \A u \in Tasks : u # t \/ b # BookOf[t] => task'[u].hold = task[u].hold
       /\ \A c \in Books : c # b => purse'[c] = purse[c] /\ slip'[c] = slip[c]
       /\ purse'[b].deployed = purse[b].deployed + (task'[t].hold - task[t].hold)
                               + (CostIn(t, b)' - CostIn(t, b))
  <2>1. CostIn(t, b) \in Nat /\ w.deployed \in Nat
    BY <1>1, MoneyTypes
  <2>2. CostIn(t, b)' = CostIn(t, b)
    BY <1>1, <1>8
  <2> QED
    BY <1>1, <1>2, <1>3, <1>4, <1>6, <2>1, <2>2
<1> HIDE DEF b
<1> QED
  BY <1>1, <1>3, <1>7, <1>8, <1>9, <1>10, MoneyMoves

\* The hold is swapped for the cost; what the cost is above it is slippage.
LEMMA SwapHoldAfter ==
  ASSUME NEW w \in Purse, NEW hold \in Nat, NEW cost \in Nat, hold <= w.deployed
  PROVE  /\ SwapHold(w, hold, cost).deployed = w.deployed - hold + cost
         /\ Had(SwapHold(w, hold, cost)) = Had(w)
<1> DEFINE r == Release(w, hold)
           d == Deploy(r, cost)
<1>1. Charge \in Nat /\ 0 \in Int
  BY EntryAssumptions
<1>2. r \in Purse /\ r.deployed = w.deployed - hold /\ Had(r) = Had(w)
  BY <1>1, ReleaseType, DeployedAfter, HadAfter
<1> HIDE DEF r
<1>3. d \in Purse /\ d.deployed = r.deployed + cost /\ Had(d) = Had(r)
  BY <1>1, <1>2, DeployType, DeployedAfter, HadAfter
<1> HIDE DEF d
<1>4. ApplyCharges(d, Charge).deployed = d.deployed /\ Had(ApplyCharges(d, Charge)) = Had(d)
  BY <1>1, <1>3, DeployedAfter, HadAfter
<1> QED
  BY <1>2, <1>3, <1>4 DEF SwapHold, r, d

LEMMA MoneyOpen ==
  ASSUME TypeOK, TypeOK', PurseInv, NEW t \in Tasks, OpenPosition(t)
  PROVE  PurseInv' /\ crashes' = crashes
<1> DEFINE b == BookOf[t]
           w == purse[b]
           h == task[t].hold
           c == task[t].cost
<1>1. b \in Books /\ w \in Purse /\ h \in Nat /\ c \in Nat /\ Twins[b] \subseteq Books /\ b \notin Twins[b]
  BY EntryAssumptions, MoneyTypes DEF TaskState
<1>2. /\ \A u \in Tasks : u # t => task'[u] = task[u] /\ pos'[u] = pos[u]
      /\ task'[t].hold = 0 /\ task'[t].stage = "saving_position" /\ task'[t].left = Twins[b]
  <2>1. DOMAIN task = Tasks /\ DOMAIN pos = Tasks /\ task[t] \in TaskState
    BY DEF TypeOK
  <2> QED
    BY <2>1 DEF OpenPosition, TaskState
<1>3. /\ crashes' = crashes /\ task[t].stage = "recording"
      /\ pos'[t][b] = [status |-> "OPEN", cost |-> c]
      /\ \A k \in Books : k # b => pos'[t][k] = pos[t][k]
      /\ \A k \in Books : pos[t][k].status = "none"
  BY <1>1 DEF OpenPosition, TypeOK, PurseInv, Unopened, BeforeFill, env
<1>4. (\A k \in Books : k # b => purse'[k] = purse[k]) /\ purse'[b] = SwapHold(w, h, c)
  BY <1>1 DEF OpenPosition, TypeOK
<1>5. h <= w.deployed
  BY <1>1, ReleasesAreCovered DEF PurseInv
<1>6. purse'[b].deployed = w.deployed - h + c /\ Had(purse'[b]) = Had(w) /\ Had(w) \in Int
  BY <1>1, <1>4, <1>5, SwapHoldAfter, HadAfter
<1>7. (\A k \in Books : k # b => slip'[k] = slip[k]) /\ slip'[b] = slip[b] + Larger(0, c - h)
  BY <1>1 DEF OpenPosition, TypeOK
<1>8. Within(purse'[b], slip'[b])
  <2>1. slip[b] \in Nat /\ w.deployed \in Nat
    BY <1>1, MoneyTypes
  <2>2. w.deployed <= Had(w) + slip[b]
    BY <1>1 DEF PurseInv, Funded, Within
  <2>3. Larger(0, c - h) \in Nat /\ c - h <= Larger(0, c - h)
    BY <1>1 DEF Larger
  <2>4. w.deployed - h + c <= Had(w) + (slip[b] + Larger(0, c - h))
    BY <1>1, <1>6, <2>1, <2>2, <2>3
  <2> QED
    BY <1>6, <1>7, <2>4 DEF Within
<1>9. \A u \in Tasks, k \in Books : u # t \/ k # b => CostIn(u, k)' = CostIn(u, k)
  BY <1>2, <1>3 DEF CostIn
<1>10. CostIn(t, b) = 0 /\ CostIn(t, b)' = c
  BY <1>1, <1>3 DEF CostIn
<1>11. \A u \in Tasks : Unopened(u)'
  <2>1. \A k \in Twins[b] : pos'[t][k].status = "none"
    BY <1>1, <1>3
  <2>2. \A u \in Tasks : u # t => Unopened(u)'
    BY <1>2 DEF PurseInv, Unopened
  <2> QED
    BY <1>2, <2>1, <2>2 DEF Unopened, BeforeFill
<1>12. /\ \A u \in Tasks : u # t \/ b # BookOf[t] => task'[u].hold = task[u].hold
       /\ \A k \in Books : k # b => purse'[k] = purse[k] /\ slip'[k] = slip[k]
       /\ purse'[b].deployed = purse[b].deployed + (task'[t].hold - task[t].hold)
                               + (CostIn(t, b)' - CostIn(t, b))
  <2>1. w.deployed \in Nat
    BY <1>1, MoneyTypes
  <2> QED
    BY <1>1, <1>2, <1>4, <1>6, <1>7, <1>10, <2>1
<1> HIDE DEF b
<1> QED
  BY <1>1, <1>3, <1>8, <1>9, <1>11, <1>12, MoneyMoves

-----------------------------------------------------------------------------
(* Saves, mirrors and exits *)

LEMMA MoneySave ==
  ASSUME TypeOK, TypeOK', PurseInv, NEW t \in Tasks, Save(t)
  PROVE  PurseInv' /\ crashes' = crashes
<1>1. /\ UNCHANGED <<pos, purse, slip, crashes>>
      /\ task[t].stage \in {"saving_position", "saving_wallet"}
  BY DEF Save, SavePosition, SaveWallet, SaveFails, ledger, env
<1>2. /\ \A u \in Tasks : u # t => task'[u] = task[u]
      /\ task'[t].stage \in {"saving_wallet", "mirroring", "done"}
      /\ task'[t].hold = task[t].hold /\ task'[t].left = task[t].left
  BY DEF Save, SavePosition, SaveWallet, SaveFails, NextStage, TypeOK, TaskState
<1>3. \A u \in Tasks, c \in Books : CostIn(u, c)' = CostIn(u, c)
  BY <1>1 DEF CostIn
<1>4. \A u \in Tasks : Unopened(u)'
  BY <1>1, <1>2 DEF PurseInv, Unopened, BeforeFill
<1>5. \A u \in Tasks : task'[u].hold = task[u].hold
  BY <1>2
<1> QED
  BY <1>1, <1>3, <1>4, <1>5, MoneyStill

LEMMA MoneySkip ==
  ASSUME TypeOK, TypeOK', PurseInv, NEW t \in Tasks, NEW k \in Books, SkipTwin(t, k)
  PROVE  PurseInv' /\ crashes' = crashes
<1>1. UNCHANGED <<pos, purse, slip, crashes>> /\ task[t].stage = "mirroring"
  BY DEF SkipTwin, env
<1>2. /\ \A u \in Tasks : u # t => task'[u] = task[u]
      /\ task'[t].stage \in {"mirroring", "done"}
      /\ task'[t].hold = task[t].hold /\ task'[t].left \subseteq task[t].left
  <2> DEFINE left == task[t].left \ {k}
  <2>1. NextStage(left) \in {"mirroring", "done"} /\ task \in [Tasks -> TaskState]
    BY DEF NextStage, TypeOK
  <2>2. task' = [task EXCEPT ![t] = [task[t] EXCEPT !.left = left, !.stage = NextStage(left)]]
    BY <2>1 DEF SkipTwin
  <2>3. /\ \A u \in Tasks : u # t => task'[u] = task[u]
        /\ task'[t] = [task[t] EXCEPT !.left = left, !.stage = NextStage(left)]
    BY <2>1, <2>2
  <2>4. task'[t].left = left /\ task'[t].stage = NextStage(left) /\ task'[t].hold = task[t].hold
    BY <2>1, <2>3 DEF TaskState
  <2> QED
    BY <2>1, <2>3, <2>4
<1>3. \A u \in Tasks, c \in Books : CostIn(u, c)' = CostIn(u, c)
  BY <1>1 DEF CostIn
<1>4. \A u \in Tasks : Unopened(u)'
  BY <1>1, <1>2 DEF PurseInv, Unopened, BeforeFill
<1>5. \A u \in Tasks : task'[u].hold = task[u].hold
  BY <1>2
<1> QED
  BY <1>1, <1>3, <1>4, <1>5, MoneyStill

\* A mirror spends money its purse has left, and opens where nothing is yet.
LEMMA MoneyTwin ==
  ASSUME TypeOK, TypeOK', PurseInv, NEW t \in Tasks, NEW k \in Books, OpenTwin(t, k)
  PROVE  PurseInv' /\ crashes' = crashes
<1> DEFINE w == purse[k]
           c == task[t].cost
<1>1. w \in Purse /\ c \in Nat /\ w.deployed \in Nat /\ slip[k] \in Nat
  BY MoneyTypes DEF TaskState
<1>2. /\ \A u \in Tasks : u # t => task'[u] = task[u] /\ pos'[u] = pos[u]
      /\ task'[t].stage = "saving_position" /\ task'[t].hold = task[t].hold
      /\ task'[t].left = task[t].left \ {k}
  BY DEF OpenTwin, TypeOK, TaskState
<1>3. /\ UNCHANGED <<slip, crashes>> /\ task[t].stage = "mirroring" /\ k \in task[t].left
      /\ pos'[t][k] = [status |-> MirroredStatus(t), cost |-> c]
      /\ \A b \in Books : b # k => pos'[t][b] = pos[t][b]
      /\ c <= Available(w)
  BY DEF OpenTwin, TypeOK, env
<1>4. (\A b \in Books : b # k => purse'[b] = purse[b]) /\ purse'[k] = SwapHold(w, 0, c)
  BY DEF OpenTwin, TypeOK
<1>5. purse'[k].deployed = w.deployed + c /\ Had(purse'[k]) = Had(w) /\ Had(w) \in Int
  <2>1. SwapHold(w, 0, c).deployed = w.deployed - 0 + c /\ Had(SwapHold(w, 0, c)) = Had(w)
    BY <1>1, SwapHoldAfter
  <2> QED
    BY <1>1, <1>4, <2>1, HadAfter
<1>6. Within(purse'[k], slip'[k])
  <2>1. w.balance \in Int /\ w.charges_paid \in Nat
    BY <1>1 DEF Purse
  <2>2. w.deployed <= Had(w) + slip[k]
    BY DEF PurseInv, Funded, Within
  <2>3. c # 0 => w.deployed + c <= w.balance
    BY <1>1, <1>3, <2>1 DEF Available, Larger
  <2>4. w.deployed + c <= Had(w) + slip[k]
    BY <1>1, <2>1, <2>2, <2>3 DEF Had
  <2> QED
    BY <1>3, <1>5, <2>4 DEF Within
<1>7. \A u \in Tasks, b \in Books : u # t \/ b # k => CostIn(u, b)' = CostIn(u, b)
  BY <1>2, <1>3 DEF CostIn
<1>8. CostIn(t, k) = 0 /\ CostIn(t, k)' = c
  BY <1>3 DEF CostIn, PurseInv, Unopened, MirroredStatus
<1>9. \A u \in Tasks : Unopened(u)'
  <2>1. \A b \in task[t].left \ {k} : pos'[t][b].status = "none"
    <3>1. task[t].left \subseteq Books
      BY DEF TypeOK, TaskState
    <3> QED
      BY <1>3, <3>1 DEF PurseInv, Unopened
  <2>2. \A u \in Tasks : u # t => Unopened(u)'
    BY <1>2 DEF PurseInv, Unopened
  <2>3. task[t].hold = 0
    BY <1>3 DEF PurseInv, Unopened
  <2> QED
    BY <1>2, <2>1, <2>2, <2>3 DEF Unopened, BeforeFill
<1>10. /\ \A u \in Tasks : u # t \/ k # BookOf[t] => task'[u].hold = task[u].hold
       /\ \A b \in Books : b # k => purse'[b] = purse[b] /\ slip'[b] = slip[b]
       /\ purse'[k].deployed = purse[k].deployed + (task'[t].hold - task[t].hold)
                               + (CostIn(t, k)' - CostIn(t, k))
  <2>1. task[t].hold \in Nat
    BY MoneyTypes
  <2> QED
    BY <1>1, <1>2, <1>3, <1>4, <1>5, <1>8, <2>1
<1> QED
  BY <1>3, <1>6, <1>7, <1>9, <1>10, MoneyMoves

\* An exit gives back what the position cost, and loses no more than that.
LEMMA MoneyClose ==
  ASSUME TypeOK, TypeOK', PurseInv, NEW t \in Tasks, NEW b \in Books, NEW pnl \in PnLs,
         ClosePosition(t, b, pnl)
  PROVE  PurseInv' /\ crashes' = crashes
<1> DEFINE w == purse[b]
           c == pos[t][b].cost
<1>1. w \in Purse /\ c \in Nat /\ w.deployed \in Nat /\ slip[b] \in Nat /\ pnl \in Int
  BY EntryAssumptions, MoneyTypes DEF TypeOK, PositionState
<1>2. /\ UNCHANGED <<task, slip, crashes>> /\ pos[t][b].status = "OPEN" /\ pnl >= -c
      /\ \A u \in Tasks : u # t => pos'[u] = pos[u]
      /\ pos'[t][b].status = "gone"
      /\ \A k \in Books : k # b => pos'[t][k] = pos[t][k]
  BY DEF ClosePosition, Intervene, TypeOK, PositionState
<1>3. (\A k \in Books : k # b => purse'[k] = purse[k]) /\ purse'[b] = Settled(w, c, pnl)
  BY DEF ClosePosition, TypeOK
<1>4. CostIn(t, b) = c /\ CostIn(t, b)' = 0
  BY <1>2 DEF CostIn
<1>5. c <= w.deployed
  BY <1>4, ReleasesAreCovered DEF PurseInv
<1>6. Settled(w, c, pnl).deployed = w.deployed - c /\ Had(Settled(w, c, pnl)) = Had(w) + pnl
  <2> DEFINE r == Release(w, c)
             d == ApplyCharges(r, Charge)
             e == ApplyClose(d, pnl)
  <2>0. Charge \in Nat
    BY EntryAssumptions
  <2>1. r \in Purse /\ r.deployed = w.deployed - c /\ Had(r) = Had(w)
    BY <1>1, <1>5, ReleaseType, DeployedAfter, HadAfter
  <2> HIDE DEF r
  <2>2. d \in Purse /\ d.deployed = r.deployed /\ Had(d) = Had(r)
    BY <1>1, <2>0, <2>1, ApplyChargesType, DeployedAfter, HadAfter
  <2> HIDE DEF d
  <2>3. e \in Purse /\ e.deployed = d.deployed /\ Had(e) = Had(d) + pnl
    BY <1>1, <2>0, <2>2, ApplyCloseType, DeployedAfter, HadAfter
  <2> HIDE DEF e
  <2>4. CheckBreakers(e).deployed = e.deployed /\ Had(CheckBreakers(e)) = Had(e)
    BY <1>1, <2>0, <2>3, DeployedAfter, HadAfter
  <2> QED
    BY <2>1, <2>2, <2>3, <2>4 DEF Settled, r, d, e
<1>7. Within(purse'[b], slip'[b])
  <2>1. w.deployed <= Had(w) + slip[b] /\ Had(w) \in Int
    BY <1>1, HadAfter DEF PurseInv, Funded, Within
  <2>2. w.deployed - c <= (Had(w) + pnl) + slip[b]
    BY <1>1, <1>2, <2>1
  <2> QED
    BY <1>2, <1>3, <1>6, <2>2 DEF Within
<1>8. \A u \in Tasks, k \in Books : u # t \/ k # b => CostIn(u, k)' = CostIn(u, k)
  BY <1>2 DEF CostIn
<1>9. \A u \in Tasks : Unopened(u)'
  <2>1. \A u \in Tasks, k \in Books : pos[u][k].status = "none" => pos'[u][k].status = "none"
    BY <1>2
  <2>2. \A u \in Tasks : task[u].left \subseteq Books
    BY DEF TypeOK, TaskState
  <2> QED
    BY <1>2, <2>1, <2>2 DEF PurseInv, Unopened
<1>10. /\ \A u \in Tasks : u # t \/ b # BookOf[t] => task'[u].hold = task[u].hold
       /\ \A k \in Books : k # b => purse'[k] = purse[k] /\ slip'[k] = slip[k]
       /\ purse'[b].deployed = purse[b].deployed + (task'[t].hold - task[t].hold)
                               + (CostIn(t, b)' - CostIn(t, b))
  <2>1. task[t].hold \in Nat
    BY MoneyTypes
  <2> QED
    BY <1>1, <1>2, <1>3, <1>4, <1>6, <2>1
<1> QED
  BY <1>2, <1>7, <1>8, <1>9, <1>10, MoneyMoves

-----------------------------------------------------------------------------
(* The money, step by step *)

LEMMA MoneyInit == Init => MoneyInv
<1> SUFFICES ASSUME Init PROVE TypeOK /\ PurseInv
  BY DEF MoneyInv
<1>1. TypeOK
  BY TypeInit
<1>2. \A t \in Tasks : /\ task[t].stage = "signal" /\ task[t].hold = 0 /\ task[t].left = {}
                       /\ \A b \in Books : pos[t][b].status = "none"
  BY DEF Init, Idle, NoPosition
<1>3. \A t \in Tasks : Unopened(t)
  BY <1>2 DEF Unopened
<1>4. \A b \in Books : purse[b] = NewPurse(Initial) /\ slip[b] = 0 /\ Initial \in Nat
  BY EntryAssumptions DEF Init
<1>5. Funded
  BY <1>4 DEF Funded, Within, Had, NewPurse
<1>6. Accounted
  <2> SUFFICES ASSUME NEW b \in Books PROVE purse[b].deployed = HeldFor(b) + CostOf(b)
    BY DEF Accounted
  <2>1. HeldFor(b) = 0
    <3> DEFINE f == [t \in Tasks |-> task[t].hold]
    <3>1. \A t \in InBook(b) : f[t] = 0
      BY <1>2 DEF InBook
    <3>2. IsFiniteSet(InBook(b)) /\ HeldFor(b) = SumFunctionOnSet(f, InBook(b))
      BY <1>1, MoneyTypes DEF HeldFor, InBook
    <3> HIDE DEF f
    <3> QED
      BY <3>1, <3>2, SumOfZeros
  <2>2. CostOf(b) = 0
    <3> DEFINE f == [t \in Tasks |-> CostIn(t, b)]
    <3>1. \A t \in Tasks : f[t] = 0
      BY <1>2 DEF CostIn
    <3>2. IsFiniteSet(Tasks) /\ CostOf(b) = SumFunctionOnSet(f, Tasks)
      BY <1>1, MoneyTypes DEF CostOf
    <3> HIDE DEF f
    <3> QED
      BY <3>1, <3>2, SumOfZeros
  <2> QED
    BY <1>4, <2>1, <2>2 DEF NewPurse
<1> QED
  BY <1>1, <1>3, <1>5, <1>6 DEF PurseInv

LEMMA MoneyStep == MoneyInv /\ [Next]_vars => MoneyInv'
<1> SUFFICES ASSUME TypeOK, crashes = 0 => PurseInv, [Next]_vars, crashes' = 0
             PROVE  PurseInv'
  BY TypeStep DEF MoneyInv
<1>0. TypeOK' /\ crashes \in Nat
  BY TypeStep DEF TypeOK
<1>1. ~CrashAndBoot
  BY <1>0 DEF CrashAndBoot
<1>2. crashes = 0
  <2>1. ASSUME NEW t \in Tasks, Submit(t) PROVE crashes' = crashes
    BY <2>1 DEF Submit, RefuseDuplicate, RefuseHalted, ShadowOnly, RefuseNoBook, PaperFill,
                RefuseCapped, PlaceLive, env
  <2>2. ASSUME NEW t \in Tasks, Resume(t) PROVE crashes' = crashes
    BY <2>2 DEF Resume, Answer, LiveRefused, LiveFilled, Record, RecordRefusal, OpenPosition,
                RecordFails, Save, SavePosition, SaveWallet, SaveFails, Mirror, SkipTwin,
                OpenTwin, env
  <2>3. ASSUME NEW t \in Tasks,
               \/ Decline(t)
               \/ \E outcome \in {"filled", "dead"} : VenueSettles(t, outcome)
               \/ \E b \in Books, pnl \in PnLs : ClosePosition(t, b, pnl)
        PROVE  crashes' = crashes
    BY <2>3 DEF Decline, VenueSettles, ClosePosition, Intervene, env
  <2>4. ASSUME \/ SetHalt \/ \E m \in Modes : SetMode(m)
               \/ OperatorResetsBreaker \/ \E b \in Books : PersistWallet(b)
               \/ UNCHANGED vars
        PROVE  crashes' = crashes
    BY <2>4 DEF SetHalt, SetMode, OperatorResetsBreaker, PersistWallet, Intervene, vars
  <2> QED
    BY <1>1, <2>1, <2>2, <2>3, <2>4 DEF Next
<1>3. PurseInv
  BY <1>2
<1>4. ASSUME UNCHANGED <<pos, purse, slip>>, \A t \in Tasks : task'[t] = task[t]
      PROVE  PurseInv'
  <2>1. \A t \in Tasks : Unopened(t)'
    BY <1>3, <1>4 DEF PurseInv, Unopened
  <2>2. \A t \in Tasks, b \in Books : CostIn(t, b)' = CostIn(t, b)
    BY <1>4 DEF CostIn
  <2> QED
    BY <1>0, <1>3, <1>4, <2>1, <2>2, MoneyStill
<1>5. ASSUME NEW t \in Tasks, Decline(t) PROVE PurseInv'
  <2>1. UNCHANGED <<pos, purse, slip>> /\ task[t].stage = "signal"
    BY <1>5 DEF Decline
  <2>2. /\ \A u \in Tasks : u # t => task'[u] = task[u]
        /\ task'[t].stage = "done" /\ task'[t].hold = task[t].hold
        /\ task'[t].left = task[t].left
    BY <1>5 DEF Decline, TypeOK, TaskState
  <2>3. \A u \in Tasks : Unopened(u)'
    BY <1>3, <2>1, <2>2 DEF PurseInv, Unopened, BeforeFill
  <2>4. \A u \in Tasks, b \in Books : CostIn(u, b)' = CostIn(u, b)
    BY <2>1 DEF CostIn
  <2>5. \A u \in Tasks : task'[u].hold = task[u].hold
    BY <2>2
  <2> QED
    BY <1>0, <1>3, <2>1, <2>3, <2>4, <2>5, MoneyStill
<1>6. ASSUME NEW t \in Tasks, Submit(t) PROVE PurseInv'
  BY <1>0, <1>3, <1>6, MoneySubmit
<1>7. ASSUME NEW t \in Tasks, Resume(t) PROVE PurseInv'
  <2>1. CASE Answer(t)
    BY <1>0, <1>3, <2>1, MoneyAnswer
  <2>2. CASE Record(t)
    BY <1>0, <1>3, <2>2, MoneyRefund, MoneyOpen DEF Record
  <2>3. CASE Save(t)
    BY <1>0, <1>3, <2>3, MoneySave
  <2>4. CASE Mirror(t)
    BY <1>0, <1>3, <2>4, MoneySkip, MoneyTwin DEF Mirror
  <2> QED
    BY <1>7, <2>1, <2>2, <2>3, <2>4 DEF Resume
<1>8. ASSUME NEW t \in Tasks, NEW b \in Books, NEW pnl \in PnLs, ClosePosition(t, b, pnl)
      PROVE  PurseInv'
  BY <1>0, <1>3, <1>8, MoneyClose
<1>9. ASSUME \/ \E t \in Tasks, outcome \in {"filled", "dead"} : VenueSettles(t, outcome)
             \/ SetHalt \/ \E m \in Modes : SetMode(m)
             \/ OperatorResetsBreaker \/ \E b \in Books : PersistWallet(b)
             \/ UNCHANGED vars
      PROVE  PurseInv'
  <2>1. UNCHANGED <<pos, purse, slip, task>>
    BY <1>9 DEF VenueSettles, SetHalt, SetMode, OperatorResetsBreaker, PersistWallet, memory, vars
  <2> QED
    BY <1>4, <2>1
<1> QED
  BY <1>1, <1>5, <1>6, <1>7, <1>8, <1>9 DEF Next

LEMMA MoneyInvariant == Spec => []MoneyInv
<1> QED
  BY MoneyInit, MoneyStep, PTL DEF Spec

\* For any handlers, books, signals, outlays and slippage: within one life of
\* the process what a purse has deployed is exactly the holds of the entries
\* under way and the cost of its positions.
THEOREM DeployedIsAccountedForHolds == Spec => []DeployedIsAccountedFor
<1>1. MoneyInv => DeployedIsAccountedFor
  BY DEF MoneyInv, PurseInv, Accounted, DeployedIsAccountedFor
<1> QED
  BY <1>1, MoneyInvariant, PTL

\* For any number of entries under way together, over any books: no purse is
\* deployed beyond the rupees it has had but for the slippage of its fills.
THEOREM NoDoubleSpendHolds == Spec => []NoDoubleSpend
<1>1. MoneyInv => NoDoubleSpend
  BY DEF MoneyInv, PurseInv, Funded, Within, Had, NoDoubleSpend
<1> QED
  BY <1>1, MoneyInvariant, PTL

=============================================================================
