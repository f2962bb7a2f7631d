--------------------------- MODULE ExitPathProofs ---------------------------
(***************************************************************************)
(* Proofs about ExitPath, for any positions, books and target ladders and  *)
(* any bounds; and about Legs, for any ladders, books, shares and hands:   *)
(* what the rungs of a position sell is what its card planned.             *)
(***************************************************************************)
EXTENDS ExitPath, Legs, PurseGatewayProofs

LEMMA AnyPositionType == AnyPosition \in Positions
  BY ExitAssumptions DEF AnyPosition

LEMMA OpenedType == \A p \in Positions : Opened(p) \in PositionState
  BY ExitAssumptions DEF Opened, PositionState

LEMMA AtRestType == AtRest \in ActorState
<1>1. <<AnyPosition, 0, "HALT">> \in ExitIds
  BY AnyPositionType DEF ExitIds, Reasons
<1>2. Opened(AnyPosition) \in PositionState /\ NewPurse(0) \in Purse
  BY AnyPositionType, OpenedType, NewPurseType
<1> QED
  BY <1>1, <1>2, AnyPositionType DEF AtRest, ActorState, Stages

LEMMA TypeInit == Init => TypeOK
<1> SUFFICES ASSUME Init PROVE TypeOK
  OBVIOUS
<1>1. pos \in [Positions -> PositionState] /\ rows \in [Positions -> PositionState]
  BY OpenedType DEF Init
<1>2. purse \in [Books -> Purse] /\ purseRow \in [Books -> Purse]
  <2>1. Initial \in Int /\ \A b \in Books : Invested[b] \in Nat
    BY ExitAssumptions
  <2>2. \A b \in Books : Deploy(NewPurse(Initial), Invested[b]) \in Purse
    BY <2>1, NewPurseType, DeployType
  <2> QED
    BY <2>2 DEF Init
<1>3. gw \in GatewayState(ExitIds)
  BY RebootedType DEF Init
<1>4. act \in [Actors -> ActorState]
  BY AtRestType DEF Init
<1>5. mode \in Modes
  BY ExitAssumptions DEF Init
<1>6. net \in [Positions -> Int]
  BY ExitAssumptions DEF Init
<1>7. orders \in Seq(OrderState(ExitIds)) /\ orderRows \subseteq ExitIds
  BY DEF Init
<1> QED
  BY <1>1, <1>2, <1>3, <1>4, <1>5, <1>6, <1>7 DEF Init, TypeOK

-----------------------------------------------------------------------------
(* An exit is decided and submitted *)

LEMMA DecisionType ==
  ASSUME TypeOK, NEW p \in Positions, NEW r \in Reasons
  PROVE  ExitId(p, r) \in ExitIds /\ DecidedQty(p, r) \in Nat
<1>1. pos[p].hits \in Nat /\ pos[p].remaining \in Nat /\ RungLots[p] \in Nat
  BY ExitAssumptions DEF TypeOK, PositionState
<1> QED
  BY <1>1 DEF ExitId, ExitIds, DecidedQty, RungQty, Smaller

LEMMA SubmittedGatewayType ==
  ASSUME TypeOK, NEW p \in Positions, NEW r \in Reasons
  PROVE  /\ See(gw, ExitId(p, r)) \in GatewayState(ExitIds)
         /\ ShadowOk(See(gw, ExitId(p, r))) \in GatewayState(ExitIds)
         /\ Reject(See(gw, ExitId(p, r))) \in GatewayState(ExitIds)
         /\ Filled(See(gw, ExitId(p, r))) \in GatewayState(ExitIds)
  BY DecisionType, GatewayTypes DEF TypeOK

LEMMA SuspendType ==
  ASSUME TypeOK, NEW a \in Actors, NEW p \in Positions, NEW r \in Reasons,
         NEW filled \in BOOLEAN, Suspend(a, p, r, "recording", filled)
  PROVE  act' \in [Actors -> ActorState]
<1>1. act[a] \in ActorState
  BY DEF TypeOK
<1>2. [act[a] EXCEPT !.stage = "recording", !.p = p, !.id = ExitId(p, r),
                     !.qty = DecidedQty(p, r), !.filled = filled] \in ActorState
  BY <1>1, DecisionType DEF ActorState, Stages
<1> QED
  BY <1>2 DEF Suspend, TypeOK

LEMMA SubmitType ==
  ASSUME TypeOK, NEW a \in Actors, NEW p \in Positions, NEW r \in Reasons,
         Submit(a, p, r)
  PROVE  TypeOK'
<1>1. CASE ExitBlocked(a, p, r)
  <2>1. act' \in [Actors -> ActorState]
    BY <1>1, SuspendType DEF ExitBlocked
  <2> QED
    BY <1>1, <2>1 DEF ExitBlocked, TypeOK, control, broker, ledger, env
<1>2. CASE ExitShadowed(a, p, r)
  <2>1. act' \in [Actors -> ActorState]
    BY <1>2, SuspendType DEF ExitShadowed
  <2> QED
    BY <1>2, <2>1, SubmittedGatewayType
       DEF ExitShadowed, TypeOK, control, broker, ledger, env
<1>3. CASE ExitWithoutBook(a, p, r)
  <2>1. act' \in [Actors -> ActorState]
    BY <1>3, SuspendType DEF ExitWithoutBook
  <2>2. refusals' \in Nat /\ UNCHANGED <<crashes, faults, interventions>>
    BY <1>3 DEF ExitWithoutBook, Refused, TypeOK, mishaps
  <2> QED
    BY <1>3, <2>1, <2>2, SubmittedGatewayType
       DEF ExitWithoutBook, TypeOK, control, broker, ledger
<1>4. CASE ExitOnPaper(a, p, r)
  <2>1. act' \in [Actors -> ActorState]
    BY <1>4, SuspendType DEF ExitOnPaper
  <2> QED
    BY <1>4, <2>1, SubmittedGatewayType
       DEF ExitOnPaper, TypeOK, control, broker, ledger, env
<1>5. CASE ExitLive(a, p, r)
  <2>1. [id |-> ExitId(p, r), life |-> crashes, qty |-> DecidedQty(p, r),
         state |-> "working"] \in OrderState(ExitIds)
    BY DecisionType DEF OrderState, TypeOK
  <2>2. orders' \in Seq(OrderState(ExitIds)) /\ Len(orders) + 1 \in Nat
    BY <1>5, <2>1 DEF ExitLive, TypeOK
  <2>3. act[a] \in ActorState
    BY DEF TypeOK
  <2>4. [act[a] EXCEPT !.stage = "placing", !.p = p, !.id = ExitId(p, r),
                       !.qty = DecidedQty(p, r), !.order = Len(orders) + 1]
            \in ActorState
    BY <2>2, <2>3, DecisionType DEF ActorState, Stages
  <2>5. act' \in [Actors -> ActorState]
    BY <1>5, <2>4 DEF ExitLive, TypeOK
  <2> QED
    BY <1>5, <2>2, <2>5, SubmittedGatewayType DEF ExitLive, TypeOK, control, ledger, env
<1> QED
  BY <1>1, <1>2, <1>3, <1>4, <1>5 DEF Submit

-----------------------------------------------------------------------------
(* After an await *)

LEMMA AnswerType ==
  ASSUME TypeOK, NEW a \in Actors, AnswerFilled(a) \/ AnswerRaises(a)
  PROVE  TypeOK'
<1>1. CASE AnswerFilled(a)
  <2>1. Filled(gw) \in GatewayState(ExitIds)
    <3>1. act[a].id \in ExitIds
      BY DEF TypeOK, ActorState
    <3> QED
      BY <3>1, GatewayTypes DEF TypeOK
  <2>2. act[a] \in ActorState
    BY DEF TypeOK
  <2>3. [act[a] EXCEPT !.stage = "recording", !.filled = TRUE, !.order = 0] \in ActorState
    BY <2>2 DEF ActorState, Stages
  <2> QED
    BY <1>1, <2>1, <2>3 DEF AnswerFilled, TypeOK, control, broker, ledger, env
<1>2. CASE AnswerRaises(a)
  <2>1. refusals' \in Nat /\ UNCHANGED <<crashes, faults, interventions>>
    BY <1>2 DEF AnswerRaises, Refused, TypeOK, mishaps, env
  <2> QED
    BY <1>2, <2>1, AtRestType DEF AnswerRaises, TypeOK, control, broker, ledger
<1> QED
  BY <1>1, <1>2

\* What a slice takes is never more than what is left.
LEMMA SliceFits ==
  ASSUME TypeOK, NEW a \in Actors
  PROVE  /\ SliceOf(a) \in Nat
         /\ SliceOf(a) <= pos[act[a].p].remaining
         /\ AfterSlice(a) \in PositionState
         /\ AfterSlice(a).remaining = pos[act[a].p].remaining - SliceOf(a)
         /\ pos[act[a].p].status = "CLOSED" => AfterSlice(a).status = "CLOSED"
<1>1. act[a].p \in Positions /\ act[a].qty \in Nat
  BY DEF TypeOK, ActorState
<1>2. pos[act[a].p] \in PositionState
  BY <1>1 DEF TypeOK
<1>3. SliceOf(a) \in Nat /\ SliceOf(a) <= pos[act[a].p].remaining
  BY <1>1, <1>2 DEF SliceOf, Smaller, PositionState
<1>4. pos[act[a].p].remaining - SliceOf(a) \in Nat
  BY <1>2, <1>3 DEF PositionState
<1> QED
  BY <1>2, <1>3, <1>4 DEF AfterSlice, PositionState

LEMMA BookType ==
  ASSUME TypeOK, NEW a \in Actors, NEW pnl \in PnLs, BookSlice(a, pnl)
  PROVE  TypeOK'
<1> DEFINE p == act[a].p
           gross == IF SliceOf(a) = 0 THEN 0 ELSE pnl
<1>1. p \in Positions /\ BookOf[p] \in Books /\ act[a].id \in ExitIds
  BY ExitAssumptions DEF TypeOK, ActorState
<1>2. purse[BookOf[p]] \in Purse /\ gross \in Int /\ Charge \in Nat /\ EntryCost[p] \in Nat
  BY <1>1, ExitAssumptions DEF TypeOK
<1>3. Freed(a) \in Nat
  BY <1>2, SliceFits DEF Freed
<1>4. SettleSlice(purse[BookOf[p]], Freed(a), gross) \in Purse
  BY <1>2, <1>3, ReleaseType, ApplyChargesType, ApplyCloseType, CheckBreakersType
     DEF SettleSlice
<1>5. [AtRest EXCEPT !.stage = "saving_position", !.p = p, !.row = AfterSlice(a)]
          \in ActorState
  BY <1>1, SliceFits, AtRestType DEF ActorState, Stages
<1>6. pos' \in [Positions -> PositionState]
  BY <1>1, SliceFits DEF BookSlice, TypeOK
<1>7. purse' \in [Books -> Purse]
  BY <1>1, <1>4 DEF BookSlice, TypeOK
<1>8. act' \in [Actors -> ActorState]
  BY <1>5 DEF BookSlice, TypeOK
<1>9. orderRows' \subseteq ExitIds
  BY <1>1 DEF BookSlice, TypeOK
<1> QED
  BY <1>6, <1>7, <1>8, <1>9 DEF BookSlice, TypeOK, control, broker, env

LEMMA SaveType ==
  ASSUME TypeOK, NEW a \in Actors,
         \/ RecordUnfilled(a) \/ SavePosition(a) \/ SaveWallet(a)
         \/ SaveTrade(a) \/ WriteFails(a)
  PROVE  TypeOK'
<1>1. /\ act[a].p \in Positions /\ act[a].id \in ExitIds
      /\ act[a].row \in PositionState /\ act[a].snapshot \in Purse
  BY DEF TypeOK, ActorState
<1>2. BookOf[act[a].p] \in Books
  BY <1>1, ExitAssumptions
<1>3. CASE RecordUnfilled(a)
  BY <1>1, <1>3, AtRestType DEF RecordUnfilled, TypeOK, control, broker, env
<1>4. CASE SavePosition(a)
  <2>1. [AtRest EXCEPT !.stage = "saving_wallet", !.p = act[a].p,
                       !.snapshot = purse[BookOf[act[a].p]]] \in ActorState
    BY <1>1, <1>2, AtRestType DEF ActorState, Stages, TypeOK
  <2> QED
    BY <1>1, <1>4, <2>1 DEF SavePosition, TypeOK, control, broker, env
<1>5. CASE SaveWallet(a)
  <2>1. AfterWallet(a) \in ActorState
    BY <1>1, AtRestType DEF AfterWallet, ActorState, Stages
  <2> QED
    BY <1>1, <1>2, <1>5, <2>1 DEF SaveWallet, TypeOK, control, broker, env
<1>6. CASE SaveTrade(a)
  <2>1. trades' \in [Positions -> Nat]
    BY <1>1, <1>6 DEF SaveTrade, TypeOK
  <2> QED
    BY <1>6, <2>1, AtRestType DEF SaveTrade, TypeOK, control, broker, env
<1>7. CASE WriteFails(a)
  BY <1>7, AtRestType DEF WriteFails, TypeOK, control, broker, ledger
<1> QED
  BY <1>3, <1>4, <1>5, <1>6, <1>7

LEMMA ResumeType ==
  ASSUME TypeOK, NEW a \in Actors, Resume(a)
  PROVE  TypeOK'
<1>1. ASSUME NEW pnl \in PnLs, BookSlice(a, pnl) PROVE TypeOK'
  BY <1>1, BookType
<1> QED
  BY <1>1, AnswerType, SaveType DEF Resume

-----------------------------------------------------------------------------
(* The broker, the operator and the process *)

LEMMA VenueType ==
  ASSUME TypeOK, NEW n \in 1..Len(orders), VenueFills(n) \/ VenueKills(n)
  PROVE  TypeOK'
<1>1. orders[n] \in OrderState(ExitIds)
  BY DEF TypeOK
<1>2. CASE VenueFills(n)
  <2>1. [orders[n] EXCEPT !.state = "filled"] \in OrderState(ExitIds)
    BY <1>1 DEF OrderState
  <2>2. orders' \in Seq(OrderState(ExitIds))
    BY <1>2, <2>1 DEF VenueFills, TypeOK
  <2>3. orders[n].id[1] \in Positions /\ orders[n].qty \in Nat
    BY <1>1 DEF OrderState, ExitIds
  <2>4. net' \in [Positions -> Int]
    BY <1>2, <2>3 DEF VenueFills, TypeOK
  <2> QED
    BY <1>2, <2>2, <2>4 DEF VenueFills, TypeOK, control, ledger, env
<1>3. CASE VenueKills(n)
  <2>1. [orders[n] EXCEPT !.state = "dead"] \in OrderState(ExitIds)
    BY <1>1 DEF OrderState
  <2>2. orders' \in Seq(OrderState(ExitIds))
    BY <1>3, <2>1 DEF VenueKills, TypeOK
  <2>3. refusals' \in Nat /\ UNCHANGED <<crashes, faults, interventions>>
    BY <1>3 DEF VenueKills, Refused, TypeOK, mishaps
  <2> QED
    BY <1>3, <2>2, <2>3 DEF VenueKills, TypeOK, control, ledger
<1> QED
  BY <1>2, <1>3

LEMMA OperatorType ==
  ASSUME TypeOK,
         \/ \E p \in Positions : OperatorSkips(p)
         \/ OperatorKills \/ SquareOff \/ SetHalt
         \/ \E m \in SwitchModes : SetMode(m)
  PROVE  TypeOK'
<1>1. "operator" \in Actors /\ act["operator"] \in ActorState
  BY DEF TypeOK, Actors
<1>2. ASSUME NEW p \in Positions, OperatorSkips(p) PROVE TypeOK'
  <2>1. [act["operator"] EXCEPT !.stage = "asked", !.p = p] \in ActorState
    BY <1>1 DEF ActorState, Stages
  <2>2. act' \in [Actors -> ActorState]
    BY <1>2, <2>1 DEF OperatorSkips, TypeOK
  <2>3. interventions' \in Nat /\ UNCHANGED <<refusals, crashes, faults>>
    BY <1>2 DEF OperatorSkips, Intervene, TypeOK, mishaps
  <2> QED
    BY <1>2, <2>2, <2>3 DEF OperatorSkips, TypeOK, control, broker, ledger
<1>3. CASE OperatorKills
  <2>1. [act["operator"] EXCEPT !.stage = "killing"] \in ActorState
    BY <1>1 DEF ActorState, Stages
  <2> QED
    BY <1>1, <1>3, <2>1 DEF OperatorKills, Intervene, TypeOK, broker, ledger, mishaps
<1>4. CASE SquareOff
  BY <1>1, <1>4, AtRestType DEF SquareOff, TypeOK, control, ledger, env
<1>5. CASE SetHalt
  BY <1>5 DEF SetHalt, Intervene, TypeOK, broker, ledger, mishaps
<1>6. ASSUME NEW m \in SwitchModes, SetMode(m) PROVE TypeOK'
  BY <1>6, ExitAssumptions DEF SetMode, Intervene, TypeOK, broker, ledger, mishaps
<1> QED
  BY <1>2, <1>3, <1>4, <1>5, <1>6

LEMMA CrashType ==
  ASSUME TypeOK, CrashAndBoot
  PROVE  TypeOK'
<1>1. gw' \in GatewayState(ExitIds)
  BY RebootedType DEF CrashAndBoot, TypeOK
<1>2. act' \in [Actors -> ActorState]
  BY AtRestType DEF CrashAndBoot
<1> QED
  BY <1>1, <1>2 DEF CrashAndBoot, Rehydrated, TypeOK, control, broker, ledger

LEMMA TypeStep == TypeOK /\ [Next]_vars => TypeOK'
<1> SUFFICES ASSUME TypeOK, [Next]_vars PROVE TypeOK'
  OBVIOUS
<1>1. ASSUME NEW a \in Actors, NEW p \in Positions, NEW r \in Reasons, Submit(a, p, r)
      PROVE  TypeOK'
  BY <1>1, SubmitType
<1>2. ASSUME NEW a \in Actors, Resume(a) PROVE TypeOK'
  BY <1>2, ResumeType
<1>3. ASSUME NEW n \in 1..Len(orders), VenueFills(n) \/ VenueKills(n) PROVE TypeOK'
  BY <1>3, VenueType
<1>4. CASE \/ \E p \in Positions : OperatorSkips(p)
           \/ OperatorKills \/ SquareOff \/ SetHalt
           \/ \E m \in SwitchModes : SetMode(m)
  BY <1>4, OperatorType
<1>5. CASE CrashAndBoot
  BY <1>5, CrashType
<1>6. CASE UNCHANGED vars
  BY <1>6 DEF vars, TypeOK
<1> QED
  BY <1>1, <1>2, <1>3, <1>4, <1>5, <1>6 DEF Next

\* Whatever the positions, ladders and bounds, every variable keeps its shape;
\* in particular no position is ever left with fewer than zero lots.
THEOREM TypeCorrect == Spec => []TypeOK
<1>1. Init => TypeOK
  BY TypeInit
<1>2. TypeOK /\ [Next]_vars => TypeOK'
  BY TypeStep
<1> QED
  BY <1>1, <1>2, PTL DEF Spec

-----------------------------------------------------------------------------
(* The ledger behind memory.  What an exit has serialised but not yet      *)
(* written is behind memory too, whoever has sold more of it since.        *)

Behind(row, position) ==
    /\ row.remaining >= position.remaining
    /\ row.status = "CLOSED" => position.status = "CLOSED"

PendingIsBehind ==
    \A a \in Actors :
        act[a].stage = "saving_position" => Behind(act[a].row, pos[act[a].p])

LedgerInv == TypeOK /\ LedgerNeverAhead /\ PendingIsBehind

\* Steps that touch neither positions nor their rows, and put no row under way.
LEMMA LedgerStill ==
  ASSUME LedgerInv, UNCHANGED <<pos, rows>>,
         \A a \in Actors : act'[a].stage = "saving_position" => act'[a] = act[a]
  PROVE  LedgerNeverAhead' /\ PendingIsBehind'
<1>1. LedgerNeverAhead'
  BY DEF LedgerInv, LedgerNeverAhead
<1>2. PendingIsBehind'
  BY DEF LedgerInv, PendingIsBehind, Behind
<1> QED
  BY <1>1, <1>2

\* No exit starts with a row to write.
LEMMA LedgerSubmit ==
  ASSUME LedgerInv, NEW a \in Actors, NEW p \in Positions, NEW r \in Reasons,
         Submit(a, p, r)
  PROVE  LedgerNeverAhead' /\ PendingIsBehind'
<1>1. UNCHANGED <<pos, rows>>
  BY DEF Submit, ExitBlocked, ExitShadowed, ExitWithoutBook, ExitOnPaper, ExitLive, ledger
<1>2. /\ act'[a].stage \in {"recording", "placing"}
      /\ \A b \in Actors : b # a => act'[b] = act[b]
  BY DEF Submit, ExitBlocked, ExitShadowed, ExitWithoutBook, ExitOnPaper, ExitLive,
         Suspend, LedgerInv, TypeOK, ActorState
<1> QED
  BY <1>1, <1>2, LedgerStill

LEMMA LedgerBook ==
  ASSUME LedgerInv, NEW a \in Actors, NEW pnl \in PnLs, BookSlice(a, pnl)
  PROVE  LedgerNeverAhead' /\ PendingIsBehind'
<1> DEFINE p == act[a].p
<1>1. p \in Positions /\ pos[p] \in PositionState
  BY DEF LedgerInv, TypeOK, ActorState
<1>2. pos'[p] = AfterSlice(a) /\ \A q \in Positions : q # p => pos'[q] = pos[q]
  BY <1>1 DEF BookSlice, LedgerInv, TypeOK
<1>3. \A q \in Positions : Behind(pos[q], pos'[q])
  <2>1. Behind(pos[p], pos'[p])
    BY <1>1, <1>2, SliceFits DEF Behind, LedgerInv, PositionState
  <2>2. ASSUME NEW q \in Positions, q # p PROVE Behind(pos[q], pos'[q])
    <3>1. pos[q] \in PositionState
      BY DEF LedgerInv, TypeOK
    <3> QED
      BY <1>2, <2>2, <3>1 DEF Behind, PositionState
  <2> QED
    BY <2>1, <2>2
<1>4. \A q \in Positions : pos[q] \in PositionState /\ pos'[q] \in PositionState
  BY <1>2, SliceFits DEF LedgerInv, TypeOK
<1>5. LedgerNeverAhead'
  <2> SUFFICES ASSUME NEW q \in Positions PROVE Behind(rows'[q], pos'[q])
    BY DEF LedgerNeverAhead, Behind
  <2>1. Behind(rows[q], pos[q]) /\ rows[q] \in PositionState /\ rows' = rows
    BY DEF LedgerInv, LedgerNeverAhead, Behind, TypeOK, BookSlice
  <2> QED
    BY <1>3, <1>4, <2>1 DEF Behind, PositionState
<1>6. PendingIsBehind'
  <2> SUFFICES ASSUME NEW b \in Actors, act'[b].stage = "saving_position"
               PROVE  Behind(act'[b].row, pos'[act'[b].p])
    BY DEF PendingIsBehind
  <2>1. CASE b = a
    <3>1. act'[b].row = AfterSlice(a) /\ act'[b].p = p
      BY <2>1 DEF BookSlice, LedgerInv, TypeOK, AtRest
    <3> QED
      BY <1>1, <1>2, <1>4, <3>1 DEF Behind, PositionState
  <2>2. CASE b # a
    <3>1. act'[b] = act[b]
      BY <2>2 DEF BookSlice, LedgerInv, TypeOK
    <3>2. act[b].p \in Positions /\ act[b].row \in PositionState
      BY DEF LedgerInv, TypeOK, ActorState
    <3>3. Behind(act[b].row, pos[act[b].p])
      BY <3>1 DEF LedgerInv, PendingIsBehind
    <3>4. pos[act[b].p] \in PositionState /\ pos'[act[b].p] \in PositionState
      BY <1>4, <3>2
    <3> QED
      BY <1>3, <3>1, <3>2, <3>3, <3>4 DEF Behind, PositionState
  <2> QED
    BY <2>1, <2>2
<1> QED
  BY <1>5, <1>6

LEMMA LedgerSave ==
  ASSUME LedgerInv, NEW a \in Actors, SavePosition(a)
  PROVE  LedgerNeverAhead' /\ PendingIsBehind'
<1> DEFINE p == act[a].p
<1>1. p \in Positions /\ Behind(act[a].row, pos[p])
  BY DEF LedgerInv, TypeOK, ActorState, PendingIsBehind, SavePosition
<1>2. rows' = [rows EXCEPT ![p] = act[a].row] /\ pos' = pos
  BY DEF SavePosition
<1>3. LedgerNeverAhead'
  <2> SUFFICES ASSUME NEW q \in Positions PROVE Behind(rows'[q], pos'[q])
    BY DEF LedgerNeverAhead, Behind
  <2>1. Behind(rows[q], pos[q])
    BY DEF LedgerInv, LedgerNeverAhead, Behind
  <2>2. rows'[q] = IF q = p THEN act[a].row ELSE rows[q]
    BY <1>1, <1>2 DEF LedgerInv, TypeOK
  <2> QED
    BY <1>1, <1>2, <2>1, <2>2
<1>4. PendingIsBehind'
  <2> SUFFICES ASSUME NEW b \in Actors, act'[b].stage = "saving_position"
               PROVE  Behind(act'[b].row, pos'[act'[b].p])
    BY DEF PendingIsBehind
  <2>1. act'[a].stage = "saving_wallet"
    BY DEF SavePosition, LedgerInv, TypeOK, AtRest
  <2>2. act'[b] = act[b]
    BY <2>1 DEF SavePosition, LedgerInv, TypeOK
  <2> QED
    BY <1>2, <2>2 DEF LedgerInv, PendingIsBehind
<1> QED
  BY <1>3, <1>4

LEMMA LedgerCrash ==
  ASSUME LedgerInv, CrashAndBoot
  PROVE  LedgerNeverAhead' /\ PendingIsBehind'
<1>1. pos' = rows /\ rows' = rows
  BY DEF CrashAndBoot, Rehydrated, ledger
<1>2. \A p \in Positions : rows[p].remaining \in Nat
  BY DEF LedgerInv, TypeOK, PositionState
<1>3. LedgerNeverAhead'
  BY <1>1, <1>2 DEF LedgerNeverAhead
<1>4. PendingIsBehind'
  BY DEF CrashAndBoot, PendingIsBehind, AtRest
<1> QED
  BY <1>3, <1>4

LEMMA LedgerStep == LedgerInv /\ [Next]_vars => LedgerInv'
<1> SUFFICES ASSUME LedgerInv, [Next]_vars PROVE LedgerNeverAhead' /\ PendingIsBehind'
  BY TypeStep DEF LedgerInv
<1>0. act \in [Actors -> ActorState]
  BY DEF LedgerInv, TypeOK
<1>1. ASSUME NEW a \in Actors, NEW p \in Positions, NEW r \in Reasons, Submit(a, p, r)
      PROVE  LedgerNeverAhead' /\ PendingIsBehind'
  BY <1>1, LedgerSubmit
<1>2. ASSUME NEW a \in Actors, NEW pnl \in PnLs, BookSlice(a, pnl)
      PROVE  LedgerNeverAhead' /\ PendingIsBehind'
  BY <1>2, LedgerBook
<1>3. ASSUME NEW a \in Actors, SavePosition(a)
      PROVE  LedgerNeverAhead' /\ PendingIsBehind'
  BY <1>3, LedgerSave
<1>4. ASSUME NEW a \in Actors,
             \/ AnswerFilled(a) \/ AnswerRaises(a) \/ RecordUnfilled(a)
             \/ SaveWallet(a) \/ SaveTrade(a) \/ WriteFails(a)
      PROVE  LedgerNeverAhead' /\ PendingIsBehind'
  <2>1. UNCHANGED <<pos, rows>>
    BY <1>4 DEF AnswerFilled, AnswerRaises, RecordUnfilled, SaveWallet, SaveTrade,
                WriteFails, ledger
  <2>2. \A b \in Actors : b # a => act'[b] = act[b]
    BY <1>0, <1>4 DEF AnswerFilled, AnswerRaises, RecordUnfilled, SaveWallet, SaveTrade,
                      WriteFails
  <2>3. act'[a].stage # "saving_position"
    <3>1. CASE AnswerFilled(a)
      <4>1. act[a] \in ActorState
        BY <1>0
      <4> QED
        BY <1>0, <3>1, <4>1 DEF AnswerFilled, ActorState
    <3>2. CASE SaveWallet(a)
      <4>1. AfterWallet(a).stage # "saving_position"
        BY DEF AfterWallet, AtRest
      <4> QED
        BY <1>0, <3>2, <4>1 DEF SaveWallet
    <3>3. CASE AnswerRaises(a) \/ RecordUnfilled(a) \/ SaveTrade(a) \/ WriteFails(a)
      <4>1. act'[a] = AtRest
        BY <1>0, <3>3 DEF AnswerRaises, RecordUnfilled, SaveTrade, WriteFails
      <4> QED
        BY <4>1 DEF AtRest
    <3> QED
      BY <1>4, <3>1, <3>2, <3>3
  <2> QED
    BY <2>1, <2>2, <2>3, LedgerStill
<1>5. ASSUME NEW n \in 1..Len(orders), VenueFills(n) \/ VenueKills(n)
      PROVE  LedgerNeverAhead' /\ PendingIsBehind'
  BY <1>5, LedgerStill DEF VenueFills, VenueKills, ledger
<1>6. CASE \/ \E p \in Positions : OperatorSkips(p)
           \/ OperatorKills \/ SquareOff \/ SetHalt
           \/ \E m \in SwitchModes : SetMode(m)
  <2>1. UNCHANGED <<pos, rows>>
    BY <1>6 DEF OperatorSkips, OperatorKills, SquareOff, SetHalt, SetMode, ledger
  <2>2. \A b \in Actors : b # "operator" => act'[b] = act[b]
    BY <1>0, <1>6 DEF OperatorSkips, OperatorKills, SquareOff, SetHalt, SetMode
  <2>3. act'["operator"].stage # "saving_position" \/ act' = act
    BY <1>0, <1>6 DEF OperatorSkips, OperatorKills, SquareOff, SetHalt, SetMode,
                      AtRest, Actors, ActorState
  <2> QED
    BY <2>1, <2>2, <2>3, LedgerStill
<1>7. CASE CrashAndBoot
  BY <1>7, LedgerCrash
<1>8. CASE UNCHANGED vars
  BY <1>8, LedgerStill DEF vars
<1> QED
  BY <1>1, <1>2, <1>3, <1>4, <1>5, <1>6, <1>7, <1>8 DEF Next, Resume

\* However many exits are under way and wherever the process dies, a restart
\* finds at least the lots memory had left, and no closed position open in it.
THEOREM LedgerNeverAheadHolds == Spec => []LedgerNeverAhead
<1>1. Init => LedgerInv
  <2> SUFFICES ASSUME Init PROVE LedgerInv
    OBVIOUS
  <2>1. TypeOK
    BY TypeInit
  <2>2. LedgerNeverAhead
    BY <2>1 DEF Init, LedgerNeverAhead, TypeOK, PositionState
  <2>3. PendingIsBehind
    BY DEF Init, PendingIsBehind, AtRest
  <2> QED
    BY <2>1, <2>2, <2>3 DEF LedgerInv
<1>2. LedgerInv /\ [Next]_vars => LedgerInv'
  BY LedgerStep
<1>3. LedgerInv => LedgerNeverAhead
  BY DEF LedgerInv
<1> QED
  BY <1>1, <1>2, <1>3, PTL DEF Spec

-----------------------------------------------------------------------------
(* An exit id in one life of the process.                                  *)

\* What went to the broker in this life is in the gateway's memory.
OrdersSeen ==
    \A n \in 1..Len(orders) :
        /\ orders[n].life <= crashes
        /\ orders[n].life = crashes => orders[n].id \in gw.seen

SentInv == TypeOK /\ OrdersSeen /\ SentOnce

\* Steps that send nothing and forget nothing.
LEMMA SentStill ==
  ASSUME SentInv, gw.seen \subseteq gw'.seen, crashes' = crashes,
         Len(orders') = Len(orders),
         \A n \in 1..Len(orders) :
            orders'[n].id = orders[n].id /\ orders'[n].life = orders[n].life
  PROVE  OrdersSeen' /\ SentOnce'
<1>1. OrdersSeen'
  BY DEF SentInv, OrdersSeen
<1>2. SentOnce'
  BY DEF SentInv, SentOnce
<1> QED
  BY <1>1, <1>2

LEMMA SentLive ==
  ASSUME SentInv, NEW a \in Actors, NEW p \in Positions, NEW r \in Reasons,
         ExitLive(a, p, r)
  PROVE  OrdersSeen' /\ SentOnce'
<1> DEFINE new == [id |-> ExitId(p, r), life |-> crashes,
                   qty |-> DecidedQty(p, r), state |-> "working"]
<1>1. orders \in Seq(OrderState(ExitIds)) /\ new \in OrderState(ExitIds)
  BY DecisionType DEF SentInv, TypeOK, OrderState
<1>2. orders' = Append(orders, new) /\ crashes' = crashes
  BY DEF ExitLive, env
<1>3. /\ Len(orders) \in Nat /\ Len(orders') = Len(orders) + 1
      /\ orders'[Len(orders) + 1] = new
      /\ \A n \in 1..Len(orders) : orders'[n] = orders[n]
  BY <1>1, <1>2
<1>4. ExitId(p, r) \notin gw.seen /\ gw'.seen = gw.seen \cup {ExitId(p, r)}
  BY GatewayRemembers DEF ExitLive, Fresh, Duplicate, SentInv, TypeOK
<1>5. \A n \in 1..Len(orders') : n \in 1..Len(orders) \/ n = Len(orders) + 1
  BY <1>3
<1>6. OrdersSeen'
  <2> SUFFICES ASSUME NEW n \in 1..Len(orders')
               PROVE  /\ orders'[n].life <= crashes
                      /\ orders'[n].life = crashes => orders'[n].id \in gw'.seen
    BY <1>2 DEF OrdersSeen
  <2>1. CASE n \in 1..Len(orders)
    BY <1>3, <1>4, <2>1 DEF SentInv, OrdersSeen
  <2>2. CASE n = Len(orders) + 1
    BY <1>3, <1>4, <2>2 DEF SentInv, TypeOK
  <2> QED
    BY <1>5, <2>1, <2>2
<1>7. \A n \in 1..Len(orders) :
         ~(orders[n].id = ExitId(p, r) /\ orders[n].life = crashes)
  BY <1>4 DEF SentInv, OrdersSeen
<1>8. SentOnce'
  <2> SUFFICES ASSUME NEW m \in 1..Len(orders'), NEW n \in 1..Len(orders'),
                      orders'[m].id = orders'[n].id, orders'[m].life = orders'[n].life
               PROVE  m = n
    BY DEF SentOnce
  <2>1. CASE m \in 1..Len(orders) /\ n \in 1..Len(orders)
    BY <1>3, <2>1 DEF SentInv, SentOnce
  <2>2. CASE m = Len(orders) + 1 /\ n \in 1..Len(orders)
    BY <1>3, <1>7, <2>2
  <2>3. CASE m \in 1..Len(orders) /\ n = Len(orders) + 1
    BY <1>3, <1>7, <2>3
  <2> QED
    BY <1>5, <2>1, <2>2, <2>3
<1> QED
  BY <1>6, <1>8

LEMMA SentSubmit ==
  ASSUME SentInv, NEW a \in Actors, NEW p \in Positions, NEW r \in Reasons,
         Submit(a, p, r)
  PROVE  OrdersSeen' /\ SentOnce'
<1>1. /\ gw \in GatewayState(ExitIds) /\ ExitId(p, r) \in ExitIds
      /\ See(gw, ExitId(p, r)) \in GatewayState(ExitIds)
  BY DecisionType, SubmittedGatewayType DEF SentInv, TypeOK
<1>2. /\ gw.seen \subseteq See(gw, ExitId(p, r)).seen
      /\ ShadowOk(See(gw, ExitId(p, r))).seen = See(gw, ExitId(p, r)).seen
      /\ Reject(See(gw, ExitId(p, r))).seen = See(gw, ExitId(p, r)).seen
      /\ Filled(See(gw, ExitId(p, r))).seen = See(gw, ExitId(p, r)).seen
  BY <1>1, GatewayRemembers
<1>3. CASE ExitBlocked(a, p, r)
  BY <1>3, SentStill DEF ExitBlocked, broker, env
<1>4. CASE ExitShadowed(a, p, r)
  BY <1>2, <1>4, SentStill DEF ExitShadowed, broker, env
<1>5. CASE ExitWithoutBook(a, p, r)
  BY <1>2, <1>5, SentStill DEF ExitWithoutBook, Refused, mishaps, broker
<1>6. CASE ExitOnPaper(a, p, r)
  BY <1>2, <1>6, SentStill DEF ExitOnPaper, broker, env
<1>7. CASE ExitLive(a, p, r)
  BY <1>7, SentLive
<1> QED
  BY <1>3, <1>4, <1>5, <1>6, <1>7 DEF Submit

LEMMA SentResume ==
  ASSUME SentInv, NEW a \in Actors, Resume(a)
  PROVE  OrdersSeen' /\ SentOnce'
<1>1. UNCHANGED <<orders, crashes>>
  BY DEF Resume, AnswerFilled, AnswerRaises, RecordUnfilled, BookSlice, SavePosition,
         SaveWallet, SaveTrade, WriteFails, Refused, mishaps, broker, env
<1>2. gw.seen \subseteq gw'.seen
  <2>1. gw' = gw \/ gw' = Filled(gw)
    BY DEF Resume, AnswerFilled, AnswerRaises, RecordUnfilled, BookSlice, SavePosition,
           SaveWallet, SaveTrade, WriteFails
  <2>2. act[a].id \in ExitIds
    BY DEF SentInv, TypeOK, ActorState
  <2> QED
    BY <2>1, <2>2, GatewayRemembers DEF SentInv, TypeOK
<1> QED
  BY <1>1, <1>2, SentStill

LEMMA SentStep == SentInv /\ [Next]_vars => SentInv'
<1> SUFFICES ASSUME SentInv, [Next]_vars PROVE OrdersSeen' /\ SentOnce'
  BY TypeStep DEF SentInv
<1>1. ASSUME NEW a \in Actors, NEW p \in Positions, NEW r \in Reasons, Submit(a, p, r)
      PROVE  OrdersSeen' /\ SentOnce'
  BY <1>1, SentSubmit
<1>2. ASSUME NEW a \in Actors, Resume(a) PROVE OrdersSeen' /\ SentOnce'
  BY <1>2, SentResume
<1>3. ASSUME NEW n \in 1..Len(orders), VenueFills(n) \/ VenueKills(n)
      PROVE  OrdersSeen' /\ SentOnce'
  <2>1. orders \in Seq(OrderState(ExitIds))
    BY DEF SentInv, TypeOK
  <2>2. PICK state \in {"filled", "dead"} : orders' = [orders EXCEPT ![n].state = state]
    BY <1>3 DEF VenueFills, VenueKills
  <2>3. Len(orders') = Len(orders)
    BY <2>1, <2>2
  <2>4. \A m \in 1..Len(orders) :
           orders'[m].id = orders[m].id /\ orders'[m].life = orders[m].life
    <3> SUFFICES ASSUME NEW m \in 1..Len(orders)
                 PROVE  orders'[m].id = orders[m].id /\ orders'[m].life = orders[m].life
      OBVIOUS
    <3>1. orders[m] \in OrderState(ExitIds) /\ orders[n] \in OrderState(ExitIds)
      BY <2>1
    <3>2. orders'[m] = IF m = n THEN [orders[n] EXCEPT !.state = state] ELSE orders[m]
      BY <2>1, <2>2
    <3> QED
      BY <3>1, <3>2 DEF OrderState
  <2>5. gw' = gw /\ crashes' = crashes
    BY <1>3 DEF VenueFills, VenueKills, Refused, mishaps, env
  <2> QED
    BY <2>3, <2>4, <2>5, SentStill
<1>4. CASE \/ \E p \in Positions : OperatorSkips(p)
           \/ OperatorKills \/ SquareOff \/ SetHalt
           \/ \E m \in SwitchModes : SetMode(m)
  BY <1>4, SentStill DEF OperatorSkips, OperatorKills, SquareOff, SetHalt, SetMode,
                         Intervene, mishaps, broker, env
<1>5. CASE CrashAndBoot
  <2>1. orders' = orders /\ crashes' = crashes + 1
    BY <1>5 DEF CrashAndBoot, broker
  <2>2. \A n \in 1..Len(orders) :
           orders[n].life \in Nat /\ orders[n].life <= crashes /\ crashes \in Nat
    <3>1. \A n \in 1..Len(orders) : orders[n] \in OrderState(ExitIds)
      BY DEF SentInv, TypeOK
    <3>2. \A n \in 1..Len(orders) : orders[n].life \in Nat
      BY <3>1 DEF OrderState
    <3> QED
      BY <3>2 DEF SentInv, TypeOK, OrdersSeen
  <2>3. \A n \in 1..Len(orders) :
           orders[n].life <= crashes + 1 /\ orders[n].life # crashes + 1
    BY <2>2
  <2> QED
    BY <2>1, <2>3 DEF SentInv, OrdersSeen, SentOnce
<1>6. CASE UNCHANGED vars
  BY <1>6, SentStill DEF vars
<1> QED
  BY <1>1, <1>2, <1>3, <1>4, <1>5, <1>6 DEF Next

\* Whoever exits a position, and whatever the broker makes of it, one exit id
\* goes to the broker once in one life of the process.
THEOREM SentOnceHolds == Spec => []SentOnce
<1>1. Init => SentInv
  BY TypeInit DEF Init, SentInv, OrdersSeen, SentOnce
<1>2. SentInv /\ [Next]_vars => SentInv'
  BY SentStep
<1>3. SentInv => SentOnce
  BY DEF SentInv
<1> QED
  BY <1>1, <1>2, <1>3, PTL DEF Spec

-----------------------------------------------------------------------------
(* The book and the broker, while the engine is live and nothing goes      *)
(* wrong: they differ by the one exit under way, from the moment the       *)
(* broker fills it to the moment the slice is booked.                      *)

Quiet ==
    /\ mode \in LiveModes
    /\ refusals = 0 /\ crashes = 0 /\ faults = 0 /\ interventions = 0

Clock == act["clock"]

\* The broker has filled the clock's exit and the book does not show it yet.
FillUnbooked ==
    \/ Clock.stage = "placing" /\ orders[Clock.order].state = "filled"
    \/ Clock.stage = "recording" /\ Clock.filled

OnlyTheClock ==
    /\ act["operator"].stage = "idle"
    /\ \A n \in 1..Len(orders) :
          orders[n].state = "working" => Clock.stage = "placing" /\ Clock.order = n

ItsOrder ==
    Clock.stage = "placing" =>
        /\ Clock.order \in 1..Len(orders)
        /\ orders[Clock.order].id[1] = Clock.p
        /\ orders[Clock.order].qty = Clock.qty
        /\ orders[Clock.order].state \in {"working", "filled"}
        /\ Clock.qty <= pos[Clock.p].remaining

ItsFill ==
    Clock.stage = "recording" /\ Clock.filled => Clock.qty <= pos[Clock.p].remaining

Balanced ==
    \A p \in Positions :
        net[p] = pos[p].remaining
                   - (IF FillUnbooked /\ Clock.p = p THEN Clock.qty ELSE 0)

QuietInv == OnlyTheClock /\ ItsOrder /\ ItsFill /\ Balanced

BookInv == TypeOK /\ (Quiet => QuietInv)

LEMMA ClockType ==
  ASSUME TypeOK
  PROVE  /\ Clock \in ActorState
         /\ Clock.p \in Positions /\ Clock.qty \in Nat /\ Clock.order \in Nat
         /\ pos[Clock.p] \in PositionState /\ pos[Clock.p].remaining \in Nat
<1>1. Clock \in ActorState
  BY DEF TypeOK, Clock, Actors
<1>2. Clock.p \in Positions /\ Clock.qty \in Nat /\ Clock.order \in Nat
  BY <1>1 DEF ActorState
<1> QED
  BY <1>1, <1>2 DEF TypeOK, PositionState

\* A decision never takes more than is left.
LEMMA DecisionFits ==
  ASSUME TypeOK, NEW p \in Positions, NEW r \in Reasons
  PROVE  DecidedQty(p, r) <= pos[p].remaining
<1>1. pos[p].remaining \in Nat /\ RungLots[p] \in Nat
  BY ExitAssumptions DEF TypeOK, PositionState
<1> QED
  BY <1>1 DEF DecidedQty, RungQty, Smaller

\* The trouble counters only grow, and the mode changes only with them.
LEMMA QuietBefore ==
  ASSUME TypeOK, [Next]_vars, Quiet'
  PROVE  Quiet /\ UNCHANGED <<mode, env>>
<1>1. refusals \in Nat /\ crashes \in Nat /\ faults \in Nat /\ interventions \in Nat
  BY DEF TypeOK
<1> SUFFICES UNCHANGED <<mode, env>>
  BY DEF Quiet, env
<1>2. ~Refused /\ ~Intervene(1) /\ ~Intervene(2) /\ \A n \in Nat : faults' # n + 1 /\ crashes' # n + 1
  BY <1>1 DEF Refused, Intervene, Quiet
<1>3. ASSUME NEW a \in Actors, NEW p \in Positions, NEW r \in Reasons, Submit(a, p, r)
      PROVE  UNCHANGED <<mode, env>>
  <2>1. ~ExitWithoutBook(a, p, r)
    BY <1>2 DEF ExitWithoutBook
  <2> QED
    BY <1>3, <2>1 DEF Submit, ExitBlocked, ExitShadowed, ExitOnPaper, ExitLive, control
<1>4. ASSUME NEW a \in Actors, Resume(a) PROVE UNCHANGED <<mode, env>>
  <2>1. ~WriteFails(a)
    BY <1>1, <1>2 DEF WriteFails
  <2> QED
    BY <1>2, <1>4, <2>1 DEF Resume, AnswerFilled, AnswerRaises, RecordUnfilled, BookSlice,
                            SavePosition, SaveWallet, SaveTrade, control
<1>5. ASSUME NEW n \in 1..Len(orders), VenueFills(n) \/ VenueKills(n)
      PROVE  UNCHANGED <<mode, env>>
  BY <1>2, <1>5 DEF VenueFills, VenueKills, control
<1>6. CASE \/ \E p \in Positions : OperatorSkips(p)
           \/ OperatorKills \/ SquareOff \/ SetHalt
           \/ \E m \in SwitchModes : SetMode(m)
  <2>1. SquareOff
    BY <1>2, <1>6 DEF OperatorSkips, OperatorKills, SetHalt, SetMode
  <2> QED
    BY <2>1 DEF SquareOff, control
<1>7. ~CrashAndBoot
  BY <1>1, <1>2 DEF CrashAndBoot
<1>8. CASE UNCHANGED vars
  BY <1>8 DEF vars, env, mishaps
<1> QED
  BY <1>3, <1>4, <1>5, <1>6, <1>7, <1>8 DEF Next

LEMMA QuietSubmit ==
  ASSUME TypeOK, Quiet, QuietInv, UNCHANGED env,
         NEW a \in Actors, NEW p \in Positions, NEW r \in Reasons, Submit(a, p, r)
  PROVE  QuietInv'
<1>1. a = "clock" /\ Clock.stage = "idle"
  BY DEF Submit, ExitBlocked, ExitShadowed, ExitWithoutBook, ExitOnPaper, ExitLive,
         Decides, ClockDecides, OperatorDecides, QuietInv, OnlyTheClock, Clock, Actors
<1>2. \A n \in 1..Len(orders) : orders[n].state # "working"
  BY <1>1 DEF QuietInv, OnlyTheClock
<1>3. \A q \in Positions : net[q] = pos[q].remaining
  <2>1. ~FillUnbooked /\ \A q \in Positions : pos[q].remaining \in Nat
    BY <1>1 DEF FillUnbooked, TypeOK, PositionState
  <2> QED
    BY <2>1 DEF QuietInv, Balanced
<1>4. Clock \in ActorState /\ act \in [Actors -> ActorState] /\ "operator" \in Actors
  BY ClockType DEF TypeOK, Actors
<1>5. CASE ExitBlocked(a, p, r)
  <2>1. Clock'.stage = "recording" /\ Clock'.filled = FALSE /\ act'["operator"] = act["operator"]
    BY <1>1, <1>4, <1>5 DEF ExitBlocked, Suspend, Clock, ActorState
  <2>2. UNCHANGED <<pos, orders, net>>
    BY <1>5 DEF ExitBlocked, broker
  <2>3. ~FillUnbooked'
    BY <2>1 DEF FillUnbooked
  <2>4. Balanced'
    BY <1>3, <2>2, <2>3 DEF Balanced, TypeOK, PositionState
  <2> QED
    BY <1>2, <2>1, <2>2, <2>4 DEF QuietInv, OnlyTheClock, ItsOrder, ItsFill
<1>6. CASE ExitLive(a, p, r)
  <2> DEFINE new == [id |-> ExitId(p, r), life |-> crashes,
                     qty |-> DecidedQty(p, r), state |-> "working"]
  <2>1. orders \in Seq(OrderState(ExitIds)) /\ new \in OrderState(ExitIds)
    BY DecisionType DEF TypeOK, OrderState
  <2>2. orders' = Append(orders, new) /\ pos' = pos /\ net' = net
    BY <1>6 DEF ExitLive
  <2>3. /\ Len(orders) \in Nat /\ Len(orders') = Len(orders) + 1
        /\ orders'[Len(orders) + 1] = new
        /\ \A n \in 1..Len(orders) : orders'[n] = orders[n]
    BY <2>1, <2>2
  <2>4. /\ Clock'.stage = "placing" /\ Clock'.p = p /\ Clock'.qty = DecidedQty(p, r)
        /\ Clock'.order = Len(orders) + 1 /\ act'["operator"] = act["operator"]
    BY <1>1, <1>4, <1>6 DEF ExitLive, Clock, ActorState
  <2>5. new.id[1] = p /\ new.qty = DecidedQty(p, r) /\ new.state = "working"
    BY DEF ExitId
  <2>6. ItsOrder'
    <3>1. Len(orders) + 1 \in 1..Len(orders')
      BY <2>3
    <3> QED
      BY <2>2, <2>3, <2>4, <2>5, <3>1, DecisionFits DEF ItsOrder
  <2>7. OnlyTheClock'
    <3>1. \A n \in 1..Len(orders') : n \in 1..Len(orders) \/ n = Len(orders) + 1
      BY <2>3
    <3> QED
      BY <1>2, <2>3, <2>4, <3>1 DEF QuietInv, OnlyTheClock
  <2>8. ~FillUnbooked'
    BY <2>3, <2>4, <2>5 DEF FillUnbooked
  <2>9. Balanced'
    BY <1>3, <2>2, <2>8 DEF Balanced, TypeOK, PositionState
  <2> QED
    BY <2>4, <2>6, <2>7, <2>9 DEF QuietInv, ItsFill
<1>7. ~ExitShadowed(a, p, r) /\ ~ExitWithoutBook(a, p, r) /\ ~ExitOnPaper(a, p, r)
  BY DEF ExitShadowed, ExitWithoutBook, ExitOnPaper, Quiet, LiveModes
<1> QED
  BY <1>5, <1>6, <1>7 DEF Submit

LEMMA QuietFill ==
  ASSUME TypeOK, Quiet, QuietInv, NEW n \in 1..Len(orders), VenueFills(n)
  PROVE  QuietInv'
<1>1. Clock.stage = "placing" /\ Clock.order = n
  BY DEF VenueFills, QuietInv, OnlyTheClock
<1>2. orders[n].id[1] = Clock.p /\ orders[n].qty = Clock.qty
  BY <1>1 DEF QuietInv, ItsOrder
<1>3. orders \in Seq(OrderState(ExitIds)) /\ orders[n] \in OrderState(ExitIds)
  BY DEF TypeOK
<1>4. /\ Len(orders') = Len(orders)
      /\ orders'[n] = [orders[n] EXCEPT !.state = "filled"]
      /\ \A m \in 1..Len(orders) : m # n => orders'[m] = orders[m]
  BY <1>3 DEF VenueFills
<1>5. /\ orders'[n].state = "filled" /\ orders'[n].id = orders[n].id
      /\ orders'[n].qty = orders[n].qty
  BY <1>3, <1>4 DEF OrderState
<1>6. pos' = pos /\ act' = act
  BY DEF VenueFills
<1>7. ItsOrder' /\ ItsFill'
  BY <1>1, <1>4, <1>5, <1>6 DEF QuietInv, ItsOrder, ItsFill, Clock
<1>8. OnlyTheClock'
  BY <1>4, <1>5, <1>6 DEF QuietInv, OnlyTheClock, Clock
<1>9. Balanced'
  <2>1. FillUnbooked'
    BY <1>1, <1>5, <1>6 DEF FillUnbooked, Clock
  <2>2. ~FillUnbooked
    BY <1>1 DEF FillUnbooked, VenueFills
  <2>3. Clock.p \in Positions /\ Clock.qty \in Nat
    BY ClockType
  <2>4. \A q \in Positions :
           net'[q] = IF q = Clock.p THEN net[q] - Clock.qty ELSE net[q]
    BY <1>2, <2>3 DEF VenueFills, TypeOK
  <2> SUFFICES ASSUME NEW q \in Positions
               PROVE  net'[q] = pos[q].remaining
                                  - (IF Clock.p = q THEN Clock.qty ELSE 0)
    BY <1>6, <2>1 DEF Balanced, Clock
  <2>5. pos[q].remaining \in Nat
    BY DEF TypeOK, PositionState
  <2>6. net[q] = pos[q].remaining
    BY <2>2, <2>5 DEF QuietInv, Balanced
  <2> QED
    BY <2>3, <2>4, <2>5, <2>6
<1> QED
  BY <1>7, <1>8, <1>9 DEF QuietInv

LEMMA QuietBook ==
  ASSUME TypeOK, Quiet, QuietInv, NEW pnl \in PnLs, BookSlice("clock", pnl)
  PROVE  QuietInv'
<1>0. /\ Clock.p \in Positions /\ Clock.qty \in Nat /\ pos[Clock.p].remaining \in Nat
      /\ "clock" \in Actors /\ "operator" \in Actors
  BY ClockType DEF Actors
<1>1. Clock.stage = "recording" /\ Clock.filled /\ UNCHANGED <<orders, net>>
  BY DEF BookSlice, Clock, broker
<1>2. Clock.qty <= pos[Clock.p].remaining
  BY <1>1 DEF QuietInv, ItsFill
<1>3. SliceOf("clock") = Clock.qty
  BY <1>0, <1>2 DEF SliceOf, Smaller, Clock
<1>4. pos'[Clock.p].remaining = pos[Clock.p].remaining - Clock.qty
  BY <1>0, <1>3, SliceFits DEF BookSlice, TypeOK, Clock
<1>5. \A q \in Positions : q # Clock.p => pos'[q] = pos[q]
  BY <1>0 DEF BookSlice, TypeOK, Clock
<1>6. Clock'.stage = "saving_position" /\ act'["operator"] = act["operator"]
  BY <1>0 DEF BookSlice, TypeOK, Clock, AtRest
<1>7. Balanced'
  <2>1. FillUnbooked /\ ~FillUnbooked'
    BY <1>1, <1>6 DEF FillUnbooked
  <2> SUFFICES ASSUME NEW q \in Positions PROVE net[q] = pos'[q].remaining - 0
    BY <1>1, <2>1 DEF Balanced
  <2>2. pos[q].remaining \in Nat
    BY DEF TypeOK, PositionState
  <2>3. net[q] = pos[q].remaining - (IF Clock.p = q THEN Clock.qty ELSE 0)
    BY <2>1 DEF QuietInv, Balanced
  <2>4. CASE q = Clock.p
    BY <1>0, <1>4, <2>2, <2>3, <2>4
  <2>5. CASE q # Clock.p
    BY <1>5, <2>2, <2>3, <2>5
  <2> QED
    BY <2>4, <2>5
<1>8. OnlyTheClock' /\ ItsOrder' /\ ItsFill'
  BY <1>1, <1>6 DEF QuietInv, OnlyTheClock, ItsOrder, ItsFill
<1> QED
  BY <1>7, <1>8 DEF QuietInv

\* The broker's answer, and the saves once the slice is booked.
LEMMA QuietRest ==
  ASSUME TypeOK, Quiet, QuietInv, UNCHANGED env,
         \/ AnswerFilled("clock") \/ AnswerRaises("clock") \/ RecordUnfilled("clock")
         \/ SavePosition("clock") \/ SaveWallet("clock") \/ SaveTrade("clock")
         \/ WriteFails("clock")
  PROVE  QuietInv'
<1>0. /\ Clock \in ActorState /\ "clock" \in Actors /\ "operator" \in Actors
      /\ act \in [Actors -> ActorState]
  BY ClockType DEF TypeOK, Actors
<1>1. CASE AnswerFilled("clock")
  <2>1. /\ Clock'.stage = "recording" /\ Clock'.filled /\ Clock'.p = Clock.p
        /\ Clock'.qty = Clock.qty /\ act'["operator"] = act["operator"]
    BY <1>0, <1>1 DEF AnswerFilled, Clock, ActorState
  <2>2. UNCHANGED <<pos, orders, net>>
    BY <1>1 DEF AnswerFilled, broker
  <2>3. Clock.stage = "placing" /\ orders[Clock.order].state = "filled"
    BY <1>1 DEF AnswerFilled, Clock
  <2>4. OnlyTheClock' /\ ItsOrder' /\ ItsFill'
    BY <2>1, <2>2, <2>3 DEF QuietInv, OnlyTheClock, ItsOrder, ItsFill
  <2>5. FillUnbooked /\ FillUnbooked'
    BY <2>1, <2>3 DEF FillUnbooked
  <2>6. Balanced'
    BY <2>1, <2>2, <2>5 DEF QuietInv, Balanced
  <2> QED
    BY <2>4, <2>6 DEF QuietInv
<1>2. ~AnswerRaises("clock")
  <2> SUFFICES ASSUME AnswerRaises("clock") PROVE FALSE
    OBVIOUS
  <2>1. orders[Clock.order].state # "dead"
    BY DEF AnswerRaises, Clock, QuietInv, ItsOrder
  <2> QED
    BY <2>1 DEF AnswerRaises, Refused, Clock, TypeOK, env
<1>3. ~WriteFails("clock")
  BY DEF WriteFails, TypeOK, env
<1>4. CASE \/ RecordUnfilled("clock") \/ SavePosition("clock")
           \/ SaveWallet("clock") \/ SaveTrade("clock")
  <2>1. UNCHANGED <<pos, orders, net>>
    BY <1>4 DEF RecordUnfilled, SavePosition, SaveWallet, SaveTrade, broker
  <2>2. Clock.stage # "placing" /\ ~(Clock.stage = "recording" /\ Clock.filled)
    BY <1>4 DEF RecordUnfilled, SavePosition, SaveWallet, SaveTrade, Clock
  <2>3. Clock'.stage \notin {"placing", "recording"}
    <3>1. CASE RecordUnfilled("clock") \/ SaveTrade("clock")
      BY <1>0, <3>1 DEF RecordUnfilled, SaveTrade, Clock, AtRest
    <3>2. CASE SavePosition("clock")
      BY <1>0, <3>2 DEF SavePosition, Clock, AtRest
    <3>3. CASE SaveWallet("clock")
      <4>1. AfterWallet("clock").stage \in {"saving_trade", "idle"}
        BY DEF AfterWallet, AtRest
      <4> QED
        BY <1>0, <3>3, <4>1 DEF SaveWallet, Clock
    <3> QED
      BY <1>4, <3>1, <3>2, <3>3
  <2>4. act'["operator"] = act["operator"]
    BY <1>0, <1>4 DEF RecordUnfilled, SavePosition, SaveWallet, SaveTrade
  <2>5. ~FillUnbooked /\ ~FillUnbooked'
    BY <2>2, <2>3 DEF FillUnbooked
  <2>6. OnlyTheClock' /\ ItsOrder' /\ ItsFill'
    BY <2>1, <2>2, <2>3, <2>4 DEF QuietInv, OnlyTheClock, ItsOrder, ItsFill
  <2>7. Balanced'
    BY <2>1, <2>5 DEF QuietInv, Balanced
  <2> QED
    BY <2>6, <2>7 DEF QuietInv
<1> QED
  BY <1>1, <1>2, <1>3, <1>4

LEMMA BookStep == BookInv /\ [Next]_vars => BookInv'
<1> SUFFICES ASSUME TypeOK, Quiet => QuietInv, [Next]_vars, Quiet' PROVE QuietInv'
  BY TypeStep DEF BookInv
<1>0. Quiet /\ QuietInv /\ UNCHANGED env
  BY QuietBefore
<1>1. act["operator"].stage = "idle"
  BY <1>0 DEF QuietInv, OnlyTheClock
<1>2. ASSUME NEW a \in Actors, NEW p \in Positions, NEW r \in Reasons, Submit(a, p, r)
      PROVE  QuietInv'
  BY <1>0, <1>2, QuietSubmit
<1>3. ASSUME NEW a \in Actors, Resume(a) PROVE QuietInv'
  <2>1. a = "clock"
    BY <1>1, <1>3 DEF Resume, AnswerFilled, AnswerRaises, RecordUnfilled, BookSlice,
                      SavePosition, SaveWallet, SaveTrade, WriteFails, Actors
  <2>2. ASSUME NEW pnl \in PnLs, BookSlice("clock", pnl) PROVE QuietInv'
    BY <1>0, <2>2, QuietBook
  <2> QED
    BY <1>0, <1>3, <2>1, <2>2, QuietRest DEF Resume
<1>4. ASSUME NEW n \in 1..Len(orders), VenueFills(n) \/ VenueKills(n) PROVE QuietInv'
  <2>1. ~VenueKills(n)
    BY <1>0 DEF VenueKills, Refused, TypeOK, env
  <2> QED
    BY <1>0, <1>4, <2>1, QuietFill
<1>5. ~ \/ \E p \in Positions : OperatorSkips(p)
        \/ OperatorKills \/ SquareOff \/ SetHalt
        \/ \E m \in SwitchModes : SetMode(m)
  BY <1>0, <1>1 DEF OperatorSkips, OperatorKills, SquareOff, SetHalt, SetMode, Intervene,
                    TypeOK, env
<1>6. ~CrashAndBoot
  BY <1>0 DEF CrashAndBoot, TypeOK, env
<1>7. CASE UNCHANGED vars
  BY <1>0, <1>7 DEF vars, QuietInv, OnlyTheClock, ItsOrder, ItsFill, Balanced,
                    FillUnbooked, Clock
<1> QED
  BY <1>2, <1>3, <1>4, <1>5, <1>6, <1>7 DEF Next

\* For any positions and ladders: while the engine is live and undisturbed,
\* between two exits of a position the broker holds what the book says.
THEOREM BookEqualsBrokerHolds == Spec => []BookEqualsBroker
<1>1. Init => BookInv
  <2> SUFFICES ASSUME Init, Quiet PROVE QuietInv
    BY TypeInit DEF BookInv
  <2>1. TypeOK /\ act["operator"] = AtRest /\ Clock = AtRest
    BY TypeInit DEF Init, Actors, Clock
  <2>2. Clock.stage = "idle" /\ act["operator"].stage = "idle" /\ Len(orders) = 0
    BY <2>1 DEF AtRest, Init
  <2>3. OnlyTheClock /\ ItsOrder /\ ItsFill
    BY <2>2 DEF OnlyTheClock, ItsOrder, ItsFill
  <2>4. \A p \in Positions : net[p] = Qty[p] /\ pos[p].remaining = Qty[p] /\ Qty[p] \in Nat
    BY ExitAssumptions DEF Init, Quiet, Opened
  <2>5. Balanced
    BY <2>2, <2>4 DEF Balanced, FillUnbooked
  <2> QED
    BY <2>3, <2>5 DEF QuietInv
<1>2. BookInv /\ [Next]_vars => BookInv'
  BY BookStep
<1>3. BookInv => BookEqualsBroker
  <2> SUFFICES ASSUME BookInv, NEW p \in Positions, Quiet, ~Working(p)
               PROVE  net[p] = pos[p].remaining
    BY DEF BookEqualsBroker, Quiet
  <2>1. Clock.stage = "idle" \/ Clock.p # p
    BY DEF Working, Clock, Actors
  <2>2. ~(FillUnbooked /\ Clock.p = p)
    BY <2>1 DEF FillUnbooked
  <2>3. pos[p].remaining \in Nat
    BY DEF BookInv, TypeOK, PositionState
  <2> QED
    BY <2>2, <2>3 DEF BookInv, QuietInv, Balanced
<1> QED
  BY <1>1, <1>2, <1>3, PTL DEF Spec

-----------------------------------------------------------------------------
(* The money in the positions: a slice takes out of its purse what its     *)
(* lots cost, and out of the positions' cost the same.                     *)

CostNow(p) == pos[p].remaining * EntryCost[p]

InBook(b) == {p \in Positions : BookOf[p] = b}

LEMMA CostsAreNumbers ==
  ASSUME TypeOK
  PROVE  /\ \A b : IsFiniteSet(InBook(b))
         /\ \A p \in Positions : /\ EntryCost[p] \in Nat /\ pos[p].remaining \in Nat
                                 /\ CostNow(p) \in Nat
<1>1. \A b : IsFiniteSet(InBook(b))
  <2>1. IsFiniteSet(Positions)
    BY ExitAssumptions
  <2> QED
    BY <2>1, FS_Subset DEF InBook
<1>2. ASSUME NEW p \in Positions
      PROVE  EntryCost[p] \in Nat /\ pos[p].remaining \in Nat /\ CostNow(p) \in Nat
  <2>1. EntryCost[p] \in Nat /\ pos[p].remaining \in Nat
    BY ExitAssumptions DEF TypeOK, PositionState
  <2>2. \A m \in Nat, n \in Nat : m * n \in Nat
    OBVIOUS
  <2> QED
    BY <2>1, <2>2 DEF CostNow
<1> QED
  BY <1>1, <1>2

MoneyInv == TypeOK /\ DeployedTracksRemaining

LEMMA MoneyInit == Init => MoneyInv
<1> SUFFICES ASSUME Init PROVE MoneyInv
  OBVIOUS
<1>1. TypeOK
  BY TypeInit
<1>2. ASSUME NEW b \in Books PROVE purse[b].deployed = CostLeft(b)
  <2>1. Invested[b] \in Nat /\ Initial \in Int
    BY ExitAssumptions
  <2>2. purse[b].deployed = Invested[b]
    <3>1. NewPurse(Initial) \in Purse /\ NewPurse(Initial).deployed = 0
      BY <2>1, NewPurseType DEF NewPurse
    <3>2. Deploy(NewPurse(Initial), Invested[b]).deployed = 0 + Invested[b]
      BY <2>1, <3>1, DeployedAfter
    <3> QED
      BY <2>1, <3>2 DEF Init
  <2>3. [p \in Positions |-> Qty[p] * EntryCost[p]]
            = [p \in Positions |-> pos[p].remaining * EntryCost[p]]
    BY DEF Init, Opened
  <2>4. Invested[b] = SumFunctionOnSet([p \in Positions |-> Qty[p] * EntryCost[p]],
                                       {p \in Positions : BookOf[p] = b})
    BY LedgerAddsUp
  <2> QED
    BY <2>2, <2>3, <2>4 DEF CostLeft
<1> QED
  BY <1>1, <1>2 DEF MoneyInv, DeployedTracksRemaining

LEMMA MoneyBook ==
  ASSUME TypeOK, NEW a \in Actors, NEW pnl \in PnLs, BookSlice(a, pnl),
         \A b \in Books : purse[b].deployed = CostLeft(b)
  PROVE  \A b \in Books : purse'[b].deployed = CostLeft(b)'
<1> DEFINE p == act[a].p
           before == [q \in Positions |-> pos[q].remaining * EntryCost[q]]
           after == [q \in Positions |-> pos'[q].remaining * EntryCost[q]]
           gross == IF SliceOf(a) = 0 THEN 0 ELSE pnl
           w == purse[BookOf[p]]
<1>1. TypeOK'
  BY BookType
<1>2. p \in Positions /\ BookOf[p] \in Books /\ gross \in Int /\ Charge \in Nat /\ w \in Purse
  <2>1. p \in Positions
    BY DEF TypeOK, ActorState
  <2>2. BookOf[p] \in Books /\ Charge \in Nat /\ pnl \in Int
    BY <2>1, ExitAssumptions
  <2>3. w \in Purse
    BY <2>2 DEF TypeOK
  <2>4. gross \in Int
    BY <2>2
  <2> QED
    BY <2>1, <2>2, <2>3, <2>4
<1>3. /\ pos' = [pos EXCEPT ![p] = AfterSlice(a)]
      /\ purse' = [purse EXCEPT ![BookOf[p]] = SettleSlice(w, Freed(a), gross)]
  BY DEF BookSlice
<1>4. \A q \in Positions : before[q] \in Nat /\ after[q] \in Nat
  <2>1. \A q \in Positions : CostNow(q) \in Nat
    BY CostsAreNumbers
  <2>2. \A q \in Positions : EntryCost[q] \in Nat /\ pos'[q].remaining \in Nat
    BY <1>1, ExitAssumptions DEF TypeOK, PositionState
  <2>3. \A m \in Nat, n \in Nat : m * n \in Nat
    OBVIOUS
  <2>4. \A q \in Positions : pos'[q].remaining * EntryCost[q] \in Nat
    BY <2>2, <2>3
  <2> QED
    BY <2>1, <2>4 DEF CostNow
<1>5. \A q \in Positions : q # p => after[q] = before[q]
  BY <1>2, <1>3 DEF TypeOK
<1>6. Freed(a) \in Nat /\ after[p] = before[p] - Freed(a)
  <2>1. /\ SliceOf(a) \in Nat /\ SliceOf(a) <= pos[p].remaining
        /\ AfterSlice(a).remaining = pos[p].remaining - SliceOf(a)
    BY SliceFits
  <2>2. EntryCost[p] \in Nat /\ pos[p].remaining \in Nat
    BY <1>2, CostsAreNumbers
  <2>3. pos'[p].remaining = pos[p].remaining - SliceOf(a)
    BY <1>2, <1>3, <2>1 DEF TypeOK
  <2>4. \A m \in Nat, n \in Nat, c \in Nat : n * c \in Nat /\ (m - n) * c = m * c - n * c
    BY Z3
  <2>5. SliceOf(a) * EntryCost[p] \in Nat
    BY <2>1, <2>2, <2>4
  <2>6. (pos[p].remaining - SliceOf(a)) * EntryCost[p]
            = pos[p].remaining * EntryCost[p] - SliceOf(a) * EntryCost[p]
    BY <2>1, <2>2, <2>4
  <2> QED
    BY <1>2, <2>3, <2>5, <2>6 DEF Freed
<1> HIDE DEF p, before, after, gross, w
<1> SUFFICES ASSUME NEW b \in Books
             PROVE  purse'[b].deployed = SumFunctionOnSet(after, InBook(b))
  BY DEF CostLeft, after, InBook
<1>7. purse[b].deployed = SumFunctionOnSet(before, InBook(b))
  BY DEF CostLeft, before, InBook
<1>8. IsFiniteSet(InBook(b))
  BY CostsAreNumbers
<1>9. CASE b # BookOf[p]
  <2>1. p \notin InBook(b)
    BY <1>9 DEF InBook
  <2>2. \A q \in InBook(b) : after[q] = before[q]
    BY <1>5, <2>1 DEF InBook
  <2>3. purse'[b] = purse[b]
    BY <1>3, <1>9 DEF TypeOK
  <2> QED
    BY <1>7, <1>8, <2>2, <2>3, SumOfSame
<1>10. CASE b = BookOf[p]
  <2>1. p \in InBook(b) /\ InBook(b) \subseteq Positions
    BY <1>2, <1>10 DEF InBook
  <2>2. SumFunctionOnSet(after, InBook(b))
            = SumFunctionOnSet(before, InBook(b)) - before[p] + after[p]
    BY <1>4, <1>5, <1>8, <2>1, SumChanged
  <2>3. before[p] <= SumFunctionOnSet(before, InBook(b))
        /\ SumFunctionOnSet(before, InBook(b)) \in Nat
    BY <1>4, <1>8, <2>1, SumNat
  <2>4. before[p] \in Nat /\ after[p] \in Nat
    BY <1>2, <1>4
  <2>5. Freed(a) <= purse[b].deployed
    BY <1>6, <1>7, <2>3, <2>4
  <2>6. purse'[b] = SettleSlice(w, Freed(a), gross) /\ w = purse[b]
    BY <1>2, <1>3, <1>10 DEF TypeOK, w
  <2>7. SettleSlice(w, Freed(a), gross).deployed = w.deployed - Freed(a)
    <3> DEFINE r == Release(w, Freed(a))
               c == ApplyCharges(r, Charge)
               e == ApplyClose(c, gross)
    <3>1. r \in Purse /\ r.deployed = w.deployed - Freed(a)
      BY <1>2, <1>6, <2>5, <2>6, ReleaseType, DeployedAfter
    <3> HIDE DEF r
    <3>2. c \in Purse /\ c.deployed = r.deployed
      BY <1>2, <3>1, ApplyChargesType, DeployedAfter
    <3> HIDE DEF c
    <3>3. e \in Purse /\ e.deployed = c.deployed
      BY <1>2, <3>2, ApplyCloseType, DeployedAfter
    <3> HIDE DEF e
    <3>4. CheckBreakers(e).deployed = e.deployed
      BY <3>3, <1>2, DeployedAfter
    <3> QED
      BY <3>1, <3>2, <3>3, <3>4 DEF SettleSlice, r, c, e
  <2> QED
    BY <1>6, <1>7, <2>2, <2>3, <2>4, <2>5, <2>6, <2>7
<1> QED
  BY <1>9, <1>10

\* Nothing else moves a purse or a position, short of a restart.
LEMMA MoneyStill ==
  ASSUME UNCHANGED <<pos, purse>>, \A b \in Books : purse[b].deployed = CostLeft(b)
  PROVE  \A b \in Books : purse'[b].deployed = CostLeft(b)'
  BY DEF CostLeft

\* A step that is not a restart counts none, and but for a slice booked leaves
\* the positions and the purses as they are.
LEMMA MoneyFrame ==
  ASSUME [Next]_vars, ~CrashAndBoot
  PROVE  /\ crashes' = crashes
         /\ \/ UNCHANGED <<pos, purse>>
            \/ \E a \in Actors, pnl \in PnLs : BookSlice(a, pnl)
<1>1. ASSUME NEW a \in Actors, NEW p \in Positions, NEW r \in Reasons, Submit(a, p, r)
      PROVE  crashes' = crashes /\ UNCHANGED <<pos, purse>>
  BY <1>1 DEF Submit, ExitBlocked, ExitShadowed, ExitWithoutBook, ExitOnPaper, ExitLive,
      Refused, mishaps, env
<1>2. ASSUME NEW a \in Actors, Resume(a), \A pnl \in PnLs : ~BookSlice(a, pnl)
      PROVE  crashes' = crashes /\ UNCHANGED <<pos, purse>>
  BY <1>2 DEF Resume, AnswerFilled, AnswerRaises, RecordUnfilled, SavePosition, SaveWallet,
      SaveTrade, WriteFails, Refused, mishaps, env
<1>3. ASSUME NEW a \in Actors, NEW pnl \in PnLs, BookSlice(a, pnl)
      PROVE  crashes' = crashes
  BY <1>3 DEF BookSlice, env
<1>4. ASSUME NEW n \in 1..Len(orders), VenueFills(n) \/ VenueKills(n)
      PROVE  crashes' = crashes /\ UNCHANGED <<pos, purse>>
  BY <1>4 DEF VenueFills, VenueKills, Refused, mishaps, env
<1>5. ASSUME \/ \E p \in Positions : OperatorSkips(p)
             \/ OperatorKills
             \/ SquareOff
             \/ SetHalt
             \/ \E m \in SwitchModes : SetMode(m)
      PROVE  crashes' = crashes /\ UNCHANGED <<pos, purse>>
  BY <1>5 DEF OperatorSkips, OperatorKills, SquareOff, SetHalt, SetMode, Intervene, mishaps, env
<1>6. ASSUME UNCHANGED vars
      PROVE  crashes' = crashes /\ UNCHANGED <<pos, purse>>
  BY <1>6 DEF vars
<1> QED
  BY <1>1, <1>2, <1>3, <1>4, <1>5, <1>6 DEF Next

LEMMA MoneyStep == MoneyInv /\ [Next]_vars => MoneyInv'
<1> SUFFICES ASSUME MoneyInv, [Next]_vars, crashes' = 0
             PROVE  \A b \in Books : purse'[b].deployed = CostLeft(b)'
  BY TypeStep DEF MoneyInv, DeployedTracksRemaining
<1>1. crashes \in Nat /\ TypeOK
  BY DEF MoneyInv, TypeOK
<1>2. ~CrashAndBoot
  BY <1>1 DEF CrashAndBoot
<1>3. crashes = 0
  BY <1>2, MoneyFrame
<1>4. \A b \in Books : purse[b].deployed = CostLeft(b)
  BY <1>3 DEF MoneyInv, DeployedTracksRemaining
<1>5. ASSUME NEW a \in Actors, NEW pnl \in PnLs, BookSlice(a, pnl)
      PROVE  \A b \in Books : purse'[b].deployed = CostLeft(b)'
  BY <1>1, <1>4, <1>5, MoneyBook
<1>6. CASE UNCHANGED <<pos, purse>>
  BY <1>4, <1>6, MoneyStill
<1> QED
  BY <1>2, <1>5, <1>6, MoneyFrame

\* For any positions, books and ladders: as long as the process lives, what a
\* purse has deployed is what the lots its positions still hold cost, although
\* the clock and an operator may sell the same position at once.
THEOREM DeployedTracksRemainingHolds == Spec => []DeployedTracksRemaining
<1>1. MoneyInv => DeployedTracksRemaining
  BY DEF MoneyInv
<1> QED
  BY <1>1, MoneyInit, MoneyStep, PTL DEF Spec

-----------------------------------------------------------------------------
(* ExitPath implements Holding.  Beyond the ledger staying behind memory,  *)
(* the mapping needs that a closed position is empty, that no row holds    *)
(* more lots than were bought, and that whoever is about to write a trade  *)
(* has seen the position closed, which nothing but a restart undoes.       *)

Kept(p, row) ==
    /\ row.remaining <= Qty[p]
    /\ row.status = "CLOSED" => row.remaining = 0

PositionsKept == \A p \in Positions : Kept(p, pos[p]) /\ Kept(p, rows[p])

PendingKept ==
    \A a \in Actors : act[a].stage = "saving_position" => Kept(act[a].p, act[a].row)

TradesOfClosed ==
    \A a \in Actors : act[a].stage = "saving_trade" => pos[act[a].p].status = "CLOSED"

KeptInv == PositionsKept /\ PendingKept /\ TradesOfClosed

LifeInv == LedgerInv /\ KeptInv

LEMMA LifeInvTypes ==
  ASSUME LifeInv
  PROVE  /\ act \in [Actors -> ActorState]
         /\ pos \in [Positions -> PositionState] /\ rows \in [Positions -> PositionState]
         /\ \A a \in Actors : act[a] \in ActorState /\ act[a].p \in Positions
         /\ \A p \in Positions :
               /\ pos[p] \in PositionState /\ pos[p].remaining \in Nat
               /\ rows[p] \in PositionState /\ rows[p].remaining \in Nat
         /\ trades \in [Positions -> Nat]
         /\ Qty \in [Positions -> Nat]
  BY ExitAssumptions DEF LifeInv, LedgerInv, TypeOK, ActorState, PositionState

-----------------------------------------------------------------------------
(* The strengthening is inductive *)

\* Steps that touch neither positions nor their rows: an actor that comes to a
\* trade has just seen the position closed.
LEMMA KeptStill ==
  ASSUME LifeInv, UNCHANGED <<pos, rows>>,
         \A a \in Actors :
            /\ act'[a].stage = "saving_position" => act'[a] = act[a]
            /\ act'[a].stage = "saving_trade" =>
                  act'[a] = act[a] \/ pos[act'[a].p].status = "CLOSED"
  PROVE  KeptInv'
<1>1. PositionsKept'
  BY DEF LifeInv, KeptInv, PositionsKept, Kept
<1>2. PendingKept'
  BY DEF LifeInv, KeptInv, PendingKept, Kept
<1>3. TradesOfClosed'
  BY DEF LifeInv, KeptInv, TradesOfClosed
<1> QED
  BY <1>1, <1>2, <1>3 DEF KeptInv

LEMMA KeptSubmit ==
  ASSUME LifeInv, NEW a \in Actors, NEW p \in Positions, NEW r \in Reasons,
         Submit(a, p, r)
  PROVE  UNCHANGED <<pos, rows, trades>> /\ KeptInv'
<1>1. UNCHANGED <<pos, rows, trades>>
  BY DEF Submit, ExitBlocked, ExitShadowed, ExitWithoutBook, ExitOnPaper, ExitLive, ledger
<1>2. /\ act'[a].stage \notin {"saving_position", "saving_trade"}
      /\ \A b \in Actors : b # a => act'[b] = act[b]
  BY LifeInvTypes
     DEF Submit, ExitBlocked, ExitShadowed, ExitWithoutBook, ExitOnPaper, ExitLive,
         Suspend, ActorState
<1> QED
  BY <1>1, <1>2, KeptStill

LEMMA KeptBook ==
  ASSUME LifeInv, NEW a \in Actors, NEW pnl \in PnLs, BookSlice(a, pnl)
  PROVE  KeptInv'
<1> DEFINE p == act[a].p
<1>1. p \in Positions /\ pos[p] \in PositionState /\ pos[p].remaining \in Nat
  BY LifeInvTypes
<1>2. /\ pos'[p] = AfterSlice(a) /\ \A q \in Positions : q # p => pos'[q] = pos[q]
      /\ rows' = rows
  BY <1>1, LifeInvTypes DEF BookSlice
<1>3. Kept(p, pos[p]) /\ Qty[p] \in Nat
  BY <1>1, LifeInvTypes DEF LifeInv, KeptInv, PositionsKept
<1>4. /\ AfterSlice(a).remaining = pos[p].remaining - SliceOf(a)
      /\ SliceOf(a) \in Nat /\ SliceOf(a) <= pos[p].remaining
      /\ pos[p].status = "CLOSED" => AfterSlice(a).status = "CLOSED"
  BY SliceFits DEF LifeInv, LedgerInv
<1>5. AfterSlice(a).status = "CLOSED" => AfterSlice(a).remaining = 0
  <2>1. AfterSlice(a).status = IF AfterSlice(a).remaining = 0 THEN "CLOSED"
                               ELSE pos[p].status
    BY <1>4 DEF AfterSlice
  <2>2. CASE pos[p].status = "CLOSED"
    BY <1>1, <1>3, <1>4, <2>2 DEF Kept
  <2> QED
    BY <2>1, <2>2
<1>6. Kept(p, AfterSlice(a))
  BY <1>1, <1>3, <1>4, <1>5 DEF Kept
<1>7. PositionsKept'
  <2> SUFFICES ASSUME NEW q \in Positions PROVE Kept(q, pos'[q]) /\ Kept(q, rows'[q])
    BY DEF PositionsKept, Kept
  <2>1. Kept(q, pos[q]) /\ Kept(q, rows[q])
    BY DEF LifeInv, KeptInv, PositionsKept
  <2> QED
    BY <1>2, <1>6, <2>1
<1>8. /\ act'[a].stage = "saving_position" /\ act'[a].p = p /\ act'[a].row = AfterSlice(a)
      /\ \A b \in Actors : b # a => act'[b] = act[b]
  BY LifeInvTypes DEF BookSlice, AtRest
<1>9. PendingKept'
  BY <1>6, <1>8 DEF LifeInv, KeptInv, PendingKept, Kept
<1>10. TradesOfClosed'
  <2> SUFFICES ASSUME NEW b \in Actors, act'[b].stage = "saving_trade"
               PROVE  pos'[act'[b].p].status = "CLOSED"
    BY DEF TradesOfClosed
  <2>1. act'[b] = act[b] /\ act[b].p \in Positions
    BY <1>8, LifeInvTypes
  <2>2. pos[act[b].p].status = "CLOSED"
    BY <2>1 DEF LifeInv, KeptInv, TradesOfClosed
  <2> QED
    BY <1>2, <1>4, <2>1, <2>2
<1> QED
  BY <1>7, <1>9, <1>10 DEF KeptInv

LEMMA KeptSave ==
  ASSUME LifeInv, NEW a \in Actors, SavePosition(a)
  PROVE  KeptInv'
<1> DEFINE p == act[a].p
<1>1. p \in Positions /\ pos' = pos /\ rows' = [rows EXCEPT ![p] = act[a].row]
  BY LifeInvTypes DEF SavePosition
<1>2. Kept(p, act[a].row)
  BY DEF SavePosition, LifeInv, KeptInv, PendingKept
<1>3. PositionsKept'
  <2> SUFFICES ASSUME NEW q \in Positions PROVE Kept(q, pos'[q]) /\ Kept(q, rows'[q])
    BY DEF PositionsKept, Kept
  <2>1. Kept(q, pos[q]) /\ Kept(q, rows[q])
    BY DEF LifeInv, KeptInv, PositionsKept
  <2>2. rows'[q] = IF q = p THEN act[a].row ELSE rows[q]
    BY <1>1, LifeInvTypes
  <2> QED
    BY <1>1, <1>2, <2>1, <2>2
<1>4. act'[a].stage = "saving_wallet" /\ \A b \in Actors : b # a => act'[b] = act[b]
  BY LifeInvTypes DEF SavePosition, AtRest
<1>5. PendingKept' /\ TradesOfClosed'
  BY <1>1, <1>4 DEF LifeInv, KeptInv, PendingKept, TradesOfClosed, Kept
<1> QED
  BY <1>3, <1>5 DEF KeptInv

\* The other steps of an exit.
LEMMA KeptRest ==
  ASSUME LifeInv, NEW a \in Actors,
         \/ AnswerFilled(a) \/ AnswerRaises(a) \/ RecordUnfilled(a)
         \/ SaveWallet(a) \/ SaveTrade(a) \/ WriteFails(a)
  PROVE  UNCHANGED <<pos, rows>> /\ KeptInv'
<1>1. UNCHANGED <<pos, rows>>
  BY DEF AnswerFilled, AnswerRaises, RecordUnfilled, SaveWallet, SaveTrade, WriteFails, ledger
<1>2. \A b \in Actors : b # a => act'[b] = act[b]
  BY LifeInvTypes DEF AnswerFilled, AnswerRaises, RecordUnfilled, SaveWallet, SaveTrade,
                      WriteFails
<1>3. /\ act'[a].stage # "saving_position"
      /\ act'[a].stage = "saving_trade" => pos[act'[a].p].status = "CLOSED"
  <2>1. CASE AnswerFilled(a)
    BY <2>1, LifeInvTypes DEF AnswerFilled, ActorState
  <2>2. CASE SaveWallet(a)
    <3>1. act'[a] = AfterWallet(a)
      BY <2>2, LifeInvTypes DEF SaveWallet
    <3>2. /\ AfterWallet(a).stage # "saving_position"
          /\ AfterWallet(a).stage = "saving_trade" =>
                AfterWallet(a).p = act[a].p /\ pos[act[a].p].status = "CLOSED"
      BY DEF AfterWallet, AtRest
    <3> QED
      BY <3>1, <3>2
  <2>3. CASE AnswerRaises(a) \/ RecordUnfilled(a) \/ SaveTrade(a) \/ WriteFails(a)
    <3>1. act'[a] = AtRest
      BY <2>3, LifeInvTypes DEF AnswerRaises, RecordUnfilled, SaveTrade, WriteFails
    <3> QED
      BY <3>1 DEF AtRest
  <2> QED
    BY <2>1, <2>2, <2>3
<1> QED
  BY <1>1, <1>2, <1>3, KeptStill

LEMMA KeptCrash ==
  ASSUME LifeInv, CrashAndBoot
  PROVE  KeptInv'
<1>1. pos' = rows /\ rows' = rows /\ \A a \in Actors : act'[a].stage = "idle"
  BY DEF CrashAndBoot, Rehydrated, ledger, AtRest
<1> QED
  BY <1>1 DEF LifeInv, KeptInv, PositionsKept, PendingKept, TradesOfClosed, Kept

LEMMA KeptOperator ==
  ASSUME LifeInv,
         \/ \E p \in Positions : OperatorSkips(p)
         \/ OperatorKills \/ SquareOff \/ SetHalt
         \/ \E m \in SwitchModes : SetMode(m)
  PROVE  UNCHANGED <<pos, rows, trades>> /\ KeptInv'
<1>1. UNCHANGED <<pos, rows, trades>>
  BY DEF OperatorSkips, OperatorKills, SquareOff, SetHalt, SetMode, ledger
<1>2. \A b \in Actors : b # "operator" => act'[b] = act[b]
  BY LifeInvTypes DEF OperatorSkips, OperatorKills, SquareOff, SetHalt, SetMode
<1>3. act'["operator"].stage \notin {"saving_position", "saving_trade"} \/ act' = act
  BY LifeInvTypes DEF OperatorSkips, OperatorKills, SquareOff, SetHalt, SetMode,
                      AtRest, Actors, ActorState
<1> QED
  BY <1>1, <1>2, <1>3, KeptStill

-----------------------------------------------------------------------------
(* Every step of ExitPath is a step of Holding or none *)

LEMMA SellIsAStep ==
  ASSUME NEW p \in Positions, NEW n \in 1..pos[p].remaining, Life!Sell(p, n)
  PROVE  Life!Next
<1>1. n \in 1..[q \in Positions |-> pos[q].remaining][p]
  OBVIOUS
<1> QED
  BY <1>1 DEF Life!Next

LEMMA StoreIsAStep ==
  ASSUME NEW p \in Positions, NEW n \in pos[p].remaining..Qty[p], Life!Store(p, n)
  PROVE  Life!Next
<1>1. n \in [q \in Positions |-> pos[q].remaining][p]..Qty[p]
  OBVIOUS
<1> QED
  BY <1>1 DEF Life!Next

LEMMA SoldOrNot ==
  ASSUME LifeInv, NEW a \in Actors, NEW pnl \in PnLs, BookSlice(a, pnl)
  PROVE  [Life!Next]_(Life!vars)
<1>0. PICK p \in Positions : p = act[a].p
  BY LifeInvTypes
<1>n. PICK n \in Nat : n = SliceOf(a)
  BY SliceFits DEF LifeInv, LedgerInv
<1>1. pos[p].remaining \in Nat
  BY LifeInvTypes
<1>2. n <= pos[p].remaining
  BY <1>0, <1>n, SliceFits DEF LifeInv, LedgerInv
<1>3. /\ pos'[p].remaining = pos[p].remaining - n
      /\ \A q \in Positions : q # p => pos'[q] = pos[q]
      /\ UNCHANGED <<rows, trades>>
  BY <1>0, <1>n, SliceFits, LifeInvTypes DEF BookSlice, LifeInv, LedgerInv
<1>4. [q \in Positions |-> pos'[q].remaining] =
          [[q \in Positions |-> pos[q].remaining] EXCEPT ![p] = @ - n]
  BY <1>1, <1>3
<1>5. CASE n = 0
  <2>1. \A q \in Positions : pos'[q].remaining = pos[q].remaining
    BY <1>1, <1>3, <1>5
  <2> QED
    BY <1>3, <2>1 DEF Life!vars
<1>6. CASE n # 0
  <2>1. Life!Sell(p, n)
    BY <1>3, <1>4 DEF Life!Sell
  <2>2. n \in 1..pos[p].remaining
    BY <1>1, <1>2, <1>6
  <2> QED
    BY <1>1, <2>1, <2>2, SellIsAStep
<1> QED
  BY <1>5, <1>6

LEMMA StoredBehind ==
  ASSUME LifeInv, NEW a \in Actors, SavePosition(a)
  PROVE  Life!Next
<1>0. PICK p \in Positions : p = act[a].p
  BY LifeInvTypes
<1>1. act[a].row \in PositionState
  BY LifeInvTypes DEF ActorState
<1>n. PICK n \in Nat : n = act[a].row.remaining
  BY <1>1 DEF PositionState
<1>2. pos[p].remaining \in Nat /\ Qty[p] \in Nat
  BY LifeInvTypes
<1>3. pos[p].remaining <= n /\ n <= Qty[p]
  BY <1>0, <1>n DEF SavePosition, LifeInv, LedgerInv, KeptInv, PendingIsBehind, Behind, PendingKept, Kept
<1>4. rows' = [rows EXCEPT ![p] = act[a].row] /\ UNCHANGED <<pos, trades>>
  BY <1>0 DEF SavePosition
<1>5. [q \in Positions |-> rows'[q].remaining] =
          [[q \in Positions |-> rows[q].remaining] EXCEPT ![p] = n]
  BY <1>0, <1>n, <1>4, LifeInvTypes
<1>6. Life!Store(p, n)
  BY <1>4, <1>5 DEF Life!Store
<1>7. n \in pos[p].remaining..Qty[p]
  BY <1>1, <1>2, <1>3
<1> QED
  BY <1>1, <1>6, <1>7, StoreIsAStep

LEMMA TradedOnceSold ==
  ASSUME LifeInv, NEW a \in Actors, SaveTrade(a)
  PROVE  Life!Next
<1> DEFINE p == act[a].p
<1>1. p \in Positions
  BY LifeInvTypes
<1>2. pos[p].remaining = 0
  BY <1>1 DEF SaveTrade, LifeInv, KeptInv, TradesOfClosed, PositionsKept, Kept
<1>3. Life!Trade(p)
  BY <1>1, <1>2 DEF SaveTrade, Life!Trade
<1> QED
  BY <1>1, <1>3 DEF Life!Next

LEMMA LifeStep == LifeInv /\ [Next]_vars => KeptInv' /\ [Life!Next]_(Life!vars)
<1> SUFFICES ASSUME LifeInv, [Next]_vars PROVE KeptInv' /\ [Life!Next]_(Life!vars)
  OBVIOUS
<1>0. ASSUME UNCHANGED <<pos, rows, trades>> PROVE UNCHANGED Life!vars
  BY <1>0 DEF Life!vars
<1>1. ASSUME NEW a \in Actors, NEW p \in Positions, NEW r \in Reasons, Submit(a, p, r)
      PROVE  KeptInv' /\ [Life!Next]_(Life!vars)
  BY <1>0, <1>1, KeptSubmit
<1>2. ASSUME NEW a \in Actors, NEW pnl \in PnLs, BookSlice(a, pnl)
      PROVE  KeptInv' /\ [Life!Next]_(Life!vars)
  BY <1>2, KeptBook, SoldOrNot
<1>3. ASSUME NEW a \in Actors, SavePosition(a)
      PROVE  KeptInv' /\ [Life!Next]_(Life!vars)
  BY <1>3, KeptSave, StoredBehind
<1>4. ASSUME NEW a \in Actors, SaveTrade(a)
      PROVE  KeptInv' /\ [Life!Next]_(Life!vars)
  BY <1>4, KeptRest, TradedOnceSold
<1>5. ASSUME NEW a \in Actors,
             \/ AnswerFilled(a) \/ AnswerRaises(a) \/ RecordUnfilled(a)
             \/ SaveWallet(a) \/ WriteFails(a)
      PROVE  KeptInv' /\ [Life!Next]_(Life!vars)
  <2>1. UNCHANGED <<pos, rows>> /\ KeptInv'
    BY <1>5, KeptRest
  <2>2. trades' = trades
    BY <1>5 DEF AnswerFilled, AnswerRaises, RecordUnfilled, SaveWallet, WriteFails, ledger
  <2> QED
    BY <1>0, <2>1, <2>2
<1>6. ASSUME NEW n \in 1..Len(orders), VenueFills(n) \/ VenueKills(n)
      PROVE  KeptInv' /\ [Life!Next]_(Life!vars)
  <2>1. UNCHANGED <<pos, rows, trades, act>>
    BY <1>6 DEF VenueFills, VenueKills, ledger
  <2> QED
    BY <1>0, <2>1, KeptStill
<1>7. CASE \/ \E p \in Positions : OperatorSkips(p)
           \/ OperatorKills \/ SquareOff \/ SetHalt
           \/ \E m \in SwitchModes : SetMode(m)
  BY <1>0, <1>7, KeptOperator
<1>8. CASE CrashAndBoot
  <2>1. pos' = rows /\ rows' = rows /\ trades' = trades
    BY <1>8 DEF CrashAndBoot, Rehydrated, ledger
  <2>2. Life!Restart
    BY <2>1 DEF Life!Restart
  <2> QED
    BY <1>8, <2>2, KeptCrash DEF Life!Next
<1>9. CASE UNCHANGED vars
  BY <1>0, <1>9, KeptStill DEF vars
<1> QED
  BY <1>1, <1>2, <1>3, <1>4, <1>5, <1>6, <1>7, <1>8, <1>9 DEF Next, Resume

\* For any positions and ladders, with exits, saves, crashes and the operator
\* in any order: the lots in memory and in the ledger, and the trades, go the
\* way Holding lets them go (the safety part of the refinement is all of it).
THEOREM HoldingImplemented == Spec => HoldingIsImplemented
<1>1. Init => LifeInv /\ Life!Init
  <2> SUFFICES ASSUME Init PROVE LifeInv /\ Life!Init
    OBVIOUS
  <2>1. TypeOK
    BY TypeInit
  <2>2. /\ \A p \in Positions : pos[p] = Opened(p) /\ rows[p] = Opened(p)
        /\ \A a \in Actors : act[a].stage = "idle"
        /\ trades = [p \in Positions |-> 0]
    BY DEF Init, AtRest
  <2>3. \A p \in Positions : Opened(p).remaining = Qty[p] /\ Opened(p).status = "OPEN"
                               /\ Qty[p] \in Nat
    BY ExitAssumptions DEF Opened
  <2>4. LedgerInv
    BY <2>1, <2>2, <2>3 DEF LedgerInv, LedgerNeverAhead, PendingIsBehind
  <2>5. KeptInv
    BY <2>2, <2>3 DEF KeptInv, PositionsKept, PendingKept, TradesOfClosed, Kept
  <2>6. Life!Init
    BY <2>2, <2>3 DEF Life!Init
  <2> QED
    BY <2>4, <2>5, <2>6 DEF LifeInv
<1>2. LifeInv /\ [Next]_vars => LifeInv' /\ [Life!Next]_(Life!vars)
  BY LifeStep, LedgerStep DEF LifeInv
<1> QED
  BY <1>1, <1>2, PTL DEF Spec, HoldingIsImplemented, Life!Spec

-----------------------------------------------------------------------------
(* A closed position leaves a trade.  Until it is written, somebody is on  *)
(* the way to writing it: who booked the last slice, or who came after.    *)

ToTrade == {"saving_position", "saving_wallet", "saving_trade"}

OnTheWay(p) == \E a \in Actors : act[a].stage \in ToTrade /\ act[a].p = p

Unharmed == crashes = 0 /\ faults = 0

ClosedIsTraded ==
    \A p \in Positions : pos[p].status = "CLOSED" => trades[p] > 0 \/ OnTheWay(p)

TradeInv == TypeOK /\ (Unharmed => ClosedIsTraded)

LEMMA TradeTypes ==
  ASSUME TypeOK
  PROVE  /\ act \in [Actors -> ActorState]
         /\ \A a \in Actors : act[a] \in ActorState /\ act[a].p \in Positions
         /\ pos \in [Positions -> PositionState]
         /\ trades \in [Positions -> Nat]
  BY DEF TypeOK, ActorState

LEMMA UnharmedBefore ==
  ASSUME TypeOK, [Next]_vars, Unharmed'
  PROVE  /\ Unharmed /\ ~CrashAndBoot
         /\ \A a \in Actors : ~WriteFails(a)
<1>1. crashes \in Nat /\ faults \in Nat
  BY DEF TypeOK
<1>2. ~CrashAndBoot /\ \A a \in Actors : ~WriteFails(a)
  BY <1>1 DEF CrashAndBoot, WriteFails, Unharmed
<1>3. ASSUME NEW a \in Actors, NEW p \in Positions, NEW r \in Reasons, Submit(a, p, r)
      PROVE  UNCHANGED <<crashes, faults>>
  BY <1>3 DEF Submit, ExitBlocked, ExitShadowed, ExitWithoutBook, ExitOnPaper, ExitLive,
              Refused, mishaps, env
<1>4. ASSUME NEW a \in Actors, Resume(a) PROVE UNCHANGED <<crashes, faults>>
  BY <1>2, <1>4 DEF Resume, AnswerFilled, AnswerRaises, RecordUnfilled, BookSlice,
                    SavePosition, SaveWallet, SaveTrade, Refused, mishaps, env
<1>5. ASSUME NEW n \in 1..Len(orders), VenueFills(n) \/ VenueKills(n)
      PROVE  UNCHANGED <<crashes, faults>>
  BY <1>5 DEF VenueFills, VenueKills, Refused, mishaps, env
<1>6. ASSUME \/ \E p \in Positions : OperatorSkips(p)
             \/ OperatorKills \/ SquareOff \/ SetHalt
             \/ \E m \in SwitchModes : SetMode(m)
      PROVE  UNCHANGED <<crashes, faults>>
  BY <1>6 DEF OperatorSkips, OperatorKills, SquareOff, SetHalt, SetMode, Intervene,
              mishaps, env
<1>7. ASSUME UNCHANGED vars PROVE UNCHANGED <<crashes, faults>>
  BY <1>7 DEF vars
<1> QED
  BY <1>2, <1>3, <1>4, <1>5, <1>6, <1>7 DEF Next, Unharmed

\* Steps of an actor that is not on the way to a trade, and closes nothing.
LEMMA TradeStill ==
  ASSUME ClosedIsTraded, UNCHANGED <<pos, trades>>,
         \A a \in Actors : act[a].stage \in ToTrade => act'[a] = act[a]
  PROVE  ClosedIsTraded'
<1> SUFFICES ASSUME NEW p \in Positions, pos[p].status = "CLOSED", ~(trades[p] > 0)
             PROVE  OnTheWay(p)'
  BY DEF ClosedIsTraded
<1>1. PICK a \in Actors : act[a].stage \in ToTrade /\ act[a].p = p
  BY DEF ClosedIsTraded, OnTheWay
<1> QED
  BY <1>1 DEF OnTheWay

LEMMA TradeBook ==
  ASSUME TypeOK, ClosedIsTraded, NEW a \in Actors, NEW pnl \in PnLs, BookSlice(a, pnl)
  PROVE  ClosedIsTraded'
<1>0. PICK q \in Positions : q = act[a].p
  BY TradeTypes
<1>1. /\ act'[a].stage = "saving_position" /\ act'[a].p = q
      /\ \A b \in Actors : b # a => act'[b] = act[b]
      /\ act[a].stage = "recording"
  BY <1>0, TradeTypes DEF BookSlice, AtRest
<1>2. trades' = trades /\ \A p \in Positions : p # q => pos'[p] = pos[p]
  BY <1>0, TradeTypes DEF BookSlice
<1> SUFFICES ASSUME NEW p \in Positions, pos'[p].status = "CLOSED", ~(trades[p] > 0)
             PROVE  OnTheWay(p)'
  BY <1>2 DEF ClosedIsTraded
<1>3. CASE p = q
  BY <1>1, <1>3 DEF OnTheWay, ToTrade
<1>4. CASE p # q
  <2>1. PICK b \in Actors : act[b].stage \in ToTrade /\ act[b].p = p
    BY <1>2, <1>4 DEF ClosedIsTraded, OnTheWay
  <2>2. act'[b] = act[b]
    BY <1>1, <2>1 DEF ToTrade
  <2> QED
    BY <2>1, <2>2 DEF OnTheWay
<1> QED
  BY <1>3, <1>4

\* The saves go from one stage of the way to the next.
LEMMA TradeSave ==
  ASSUME TypeOK, ClosedIsTraded, NEW a \in Actors,
         SavePosition(a) \/ SaveWallet(a) \/ SaveTrade(a)
  PROVE  ClosedIsTraded'
<1>0. PICK q \in Positions : q = act[a].p
  BY TradeTypes
<1>1. pos' = pos /\ \A b \in Actors : b # a => act'[b] = act[b]
  BY TradeTypes DEF SavePosition, SaveWallet, SaveTrade
<1>2. \A p \in Positions : trades[p] > 0 => trades'[p] > 0
  BY TradeTypes DEF SavePosition, SaveWallet, SaveTrade
<1>3. pos[q].status = "CLOSED" =>
         \/ trades'[q] > 0
         \/ act'[a].stage \in ToTrade /\ act'[a].p = q
  <2>1. CASE SavePosition(a)
    BY <1>0, <2>1, TradeTypes DEF SavePosition, AtRest, ToTrade
  <2>2. CASE SaveWallet(a)
    BY <1>0, <2>2, TradeTypes DEF SaveWallet, AfterWallet, AtRest, ToTrade
  <2>3. CASE SaveTrade(a)
    BY <1>0, <2>3, TradeTypes DEF SaveTrade
  <2> QED
    BY <2>1, <2>2, <2>3
<1> SUFFICES ASSUME NEW p \in Positions, pos[p].status = "CLOSED", ~(trades'[p] > 0)
             PROVE  OnTheWay(p)'
  BY <1>1 DEF ClosedIsTraded
<1>4. PICK b \in Actors : act[b].stage \in ToTrade /\ act[b].p = p
  BY <1>2 DEF ClosedIsTraded, OnTheWay
<1>5. CASE b = a
  <2>1. act'[a].stage \in ToTrade /\ act'[a].p = p
    BY <1>0, <1>3, <1>4, <1>5
  <2> QED
    BY <2>1 DEF OnTheWay, ToTrade
<1>6. CASE b # a
  BY <1>1, <1>4, <1>6 DEF OnTheWay, ToTrade
<1> QED
  BY <1>5, <1>6

LEMMA TradeStep == TradeInv /\ [Next]_vars => TradeInv'
<1> SUFFICES ASSUME TypeOK, Unharmed => ClosedIsTraded, [Next]_vars, Unharmed'
             PROVE  ClosedIsTraded'
  BY TypeStep DEF TradeInv
<1>0. Unharmed /\ ~CrashAndBoot /\ \A a \in Actors : ~WriteFails(a)
  BY UnharmedBefore
<1>00. ClosedIsTraded /\ act \in [Actors -> ActorState]
  BY <1>0, TradeTypes
<1>1. ASSUME NEW a \in Actors, NEW p \in Positions, NEW r \in Reasons, Submit(a, p, r)
      PROVE  ClosedIsTraded'
  <2>1. UNCHANGED <<pos, trades>>
    BY <1>1 DEF Submit, ExitBlocked, ExitShadowed, ExitWithoutBook, ExitOnPaper, ExitLive,
                ledger
  <2>2. act[a].stage \in {"idle", "asked"}
    BY <1>1 DEF Submit, ExitBlocked, ExitShadowed, ExitWithoutBook, ExitOnPaper, ExitLive,
                Decides, ClockDecides, OperatorDecides
  <2>3. \A b \in Actors : b # a => act'[b] = act[b]
    BY <1>00, <1>1 DEF Submit, ExitBlocked, ExitShadowed, ExitWithoutBook, ExitOnPaper,
                       ExitLive, Suspend
  <2> QED
    BY <1>00, <2>1, <2>2, <2>3, TradeStill DEF ToTrade
<1>2. ASSUME NEW a \in Actors, AnswerFilled(a) \/ AnswerRaises(a) \/ RecordUnfilled(a)
      PROVE  ClosedIsTraded'
  <2>1. UNCHANGED <<pos, trades>> /\ act[a].stage \in {"placing", "recording"}
    BY <1>2 DEF AnswerFilled, AnswerRaises, RecordUnfilled, ledger
  <2>2. \A b \in Actors : b # a => act'[b] = act[b]
    BY <1>00, <1>2 DEF AnswerFilled, AnswerRaises, RecordUnfilled
  <2> QED
    BY <1>00, <2>1, <2>2, TradeStill DEF ToTrade
<1>3. ASSUME NEW a \in Actors, NEW pnl \in PnLs, BookSlice(a, pnl) PROVE ClosedIsTraded'
  BY <1>00, <1>3, TradeBook
<1>4. ASSUME NEW a \in Actors, SavePosition(a) \/ SaveWallet(a) \/ SaveTrade(a)
      PROVE  ClosedIsTraded'
  BY <1>00, <1>4, TradeSave
<1>5. ASSUME NEW n \in 1..Len(orders), VenueFills(n) \/ VenueKills(n)
      PROVE  ClosedIsTraded'
  <2>1. UNCHANGED <<pos, trades, act>>
    BY <1>5 DEF VenueFills, VenueKills, ledger
  <2> QED
    BY <1>00, <2>1, TradeStill
<1>6. CASE \/ \E p \in Positions : OperatorSkips(p)
           \/ OperatorKills \/ SquareOff \/ SetHalt
           \/ \E m \in SwitchModes : SetMode(m)
  <2>1. UNCHANGED <<pos, trades>>
    BY <1>6 DEF OperatorSkips, OperatorKills, SquareOff, SetHalt, SetMode, ledger
  <2>2. act["operator"].stage \in {"idle", "killing"} \/ act' = act
    BY <1>6 DEF OperatorSkips, OperatorKills, SquareOff, SetHalt, SetMode
  <2>3. \A b \in Actors : b # "operator" => act'[b] = act[b]
    BY <1>00, <1>6 DEF OperatorSkips, OperatorKills, SquareOff, SetHalt, SetMode
  <2> QED
    BY <1>00, <2>1, <2>2, <2>3, TradeStill DEF ToTrade
<1>7. CASE UNCHANGED vars
  BY <1>00, <1>7, TradeStill DEF vars
<1> QED
  BY <1>0, <1>1, <1>2, <1>3, <1>4, <1>5, <1>6, <1>7 DEF Next, Resume

\* For any positions and ladders, and any order of the clock's and the
\* operator's steps, short of a crash or a failing write: whoever sold the last
\* lot, a closed position nobody is at work on has its trade in the ledger.
THEOREM EveryCloseIsATradeHolds == Spec => []EveryCloseIsATrade
<1>1. Init => TradeInv
  BY TypeInit DEF Init, TradeInv, ClosedIsTraded, Opened
<1>2. TradeInv /\ [Next]_vars => TradeInv'
  BY TradeStep
<1>3. TradeInv => EveryCloseIsATrade
  <2> SUFFICES ASSUME TradeInv, Unharmed, NEW p \in Positions,
                      pos[p].status = "CLOSED", ~Working(p)
               PROVE  trades[p] > 0
    BY DEF EveryCloseIsATrade, Unharmed
  <2>1. ~OnTheWay(p)
    BY DEF OnTheWay, Working, ToTrade
  <2> QED
    BY <2>1 DEF TradeInv, ClosedIsTraded
<1> QED
  BY <1>1, <1>2, <1>3, PTL DEF Spec

-----------------------------------------------------------------------------
(* The rungs of a position: Legs                                               *)

\* What the rungs below the k-th sell, and the shares they sell it by.
PartOf(lots, n, k) == SumFunctionOnSet([j \in 1..n |-> (lots * Shares[j]) \div 100], 1..k)
ShareOf(k) == SumFunctionOnSet(Shares, 1..k)

LEMMA SharesType ==
  /\ Len(Shares) \in Nat /\ \A j \in 1..Len(Shares) : Shares[j] \in Nat
  /\ ShareOf(Len(Shares)) <= 100
  BY LegsAssumption DEF SumFunction, ShareOf

\* A sum over a first part, one term further.
LEMMA SumGrows ==
  ASSUME NEW n \in Nat, NEW f, \A j \in 1..n : f[j] \in Nat, NEW k \in 0..(n - 1)
  PROVE  /\ SumFunctionOnSet(f, 1..(k + 1)) = SumFunctionOnSet(f, 1..k) + f[k + 1]
         /\ SumFunctionOnSet(f, 1..k) \in Nat
<1>1. IsFiniteSet(1..(k + 1)) /\ IsFiniteSet(1..k)
  BY FS_Interval
<1>2. \A j \in 1..(k + 1) : f[j] \in Nat
  OBVIOUS
<1>3. k + 1 \in 1..(k + 1) /\ (1..(k + 1)) \ {k + 1} = 1..k
  OBVIOUS
<1>4. SumFunctionOnSet(f, 1..(k + 1)) = f[k + 1] + SumFunctionOnSet(f, (1..(k + 1)) \ {k + 1})
  <2>1. \A j \in 1..(k + 1) : f[j] \in Int
    BY <1>2
  <2> QED
    BY <1>1, <1>3, <2>1, SumWithout
<1>5. SumFunctionOnSet(f, 1..k) \in Nat
  <2>1. \A j \in 1..k : f[j] \in Nat
    BY <1>2
  <2> QED
    BY <1>1, <2>1, SumNat
<1>6. PICK a, b : a = SumFunctionOnSet(f, 1..k) /\ b = SumFunctionOnSet(f, 1..(k + 1))
  OBVIOUS
<1>7. a \in Nat /\ f[k + 1] \in Nat /\ b = f[k + 1] + a
  BY <1>2, <1>3, <1>4, <1>5, <1>6
<1>8. b = a + f[k + 1]
  BY <1>7
<1> QED
  BY <1>6, <1>7, <1>8

\* A whole part of a hand is no more than it.
LEMMA PercentOf ==
  ASSUME NEW x \in Nat
  PROVE  x \div 100 \in Nat /\ 100 * (x \div 100) <= x
  OBVIOUS

\* The shares of a hand are together no more than their share of it.
LEMMA PartIsBounded ==
  ASSUME NEW lots \in Nat, NEW n \in 0..Len(Shares), NEW k \in 0..n
  PROVE  PartOf(lots, n, k) \in Nat /\ 100 * PartOf(lots, n, k) <= lots * ShareOf(k)
<1> DEFINE f == [j \in 1..n |-> (lots * Shares[j]) \div 100]
           Fine(m) == /\ SumFunctionOnSet(f, 1..m) \in Nat /\ ShareOf(m) \in Nat
                      /\ 100 * SumFunctionOnSet(f, 1..m) <= lots * ShareOf(m)
           T == {m \in Nat : m <= n /\ ~Fine(m)}
<1>1. \A j \in 1..n : Shares[j] \in Nat /\ lots * Shares[j] \in Nat
  BY SharesType
<1>2. \A j \in 1..n : f[j] = (lots * Shares[j]) \div 100
  OBVIOUS
<1>3. \A j \in 1..n : f[j] \in Nat /\ 100 * f[j] <= lots * Shares[j]
  <2> SUFFICES ASSUME NEW j \in 1..n PROVE f[j] \in Nat /\ 100 * f[j] <= lots * Shares[j]
    OBVIOUS
  <2>1. lots * Shares[j] \in Nat
    BY <1>1
  <2> HIDE DEF f
  <2> QED
    BY <1>2, <2>1, PercentOf
<1>4. n \in Nat
  BY SharesType
<1> HIDE DEF f
<1>5. Fine(0)
  <2>1. 1..0 = {}
    OBVIOUS
  <2>2. SumFunctionOnSet(f, 1..0) = 0 /\ ShareOf(0) = 0
    BY <2>1, SumOfNone DEF ShareOf
  <2> QED
    BY <2>2
<1>6. ASSUME NEW m \in Nat, m < n, Fine(m) PROVE Fine(m + 1)
  <2>1. m \in 0..(n - 1) /\ m + 1 \in 1..n
    BY <1>4, <1>6
  <2>2. SumFunctionOnSet(f, 1..(m + 1)) = SumFunctionOnSet(f, 1..m) + f[m + 1]
    BY <1>3, <1>4, <2>1, SumGrows
  <2>3. ShareOf(m + 1) = ShareOf(m) + Shares[m + 1]
    BY <1>1, <1>4, <2>1, SumGrows DEF ShareOf
  <2>4. PICK s \in Nat, t \in Nat, a \in Nat, b \in Nat :
          /\ s = SumFunctionOnSet(f, 1..m) /\ t = ShareOf(m) /\ a = f[m + 1] /\ b = Shares[m + 1]
    BY <1>1, <1>3, <1>6, <2>1
  <2>5. 100 * s <= lots * t /\ 100 * a <= lots * b
    BY <1>3, <1>6, <2>1, <2>4
  <2>6. s + a \in Nat /\ t + b \in Nat /\ 100 * (s + a) <= lots * (t + b)
    <3>1. 100 * (s + a) = 100 * s + 100 * a
      OBVIOUS
    <3>2. lots * (t + b) = lots * t + lots * b
      OBVIOUS
    <3>3. lots * t \in Nat /\ lots * b \in Nat
      OBVIOUS
    <3> QED
      BY <2>5, <3>1, <3>2, <3>3
  <2> QED
    BY <2>2, <2>3, <2>4, <2>6
<1>7. T = {}
  <2> SUFFICES ASSUME T # {} PROVE FALSE
    OBVIOUS
  <2>1. PICK m \in T : m - 1 \notin T
    <3>1. T \subseteq Nat
      OBVIOUS
    <3> HIDE DEF T
    <3> QED
      BY <3>1, LeastNumber
  <2>2. m # 0
    BY <1>5, <2>1
  <2>3. m - 1 \in Nat /\ m - 1 < n /\ (m - 1) + 1 = m
    BY <1>4, <2>1, <2>2
  <2>4. Fine(m - 1)
    BY <1>4, <2>1, <2>3
  <2>5. Fine((m - 1) + 1)
    <3> HIDE DEF Fine
    <3> QED
      BY <1>6, <2>3, <2>4
  <2> HIDE DEF Fine
  <2> QED
    BY <2>1, <2>3, <2>5
<1>8. Fine(k)
  <2>1. k \in Nat /\ k <= n /\ k \notin T
    BY <1>4, <1>7
  <2> HIDE DEF Fine
  <2> QED
    BY <2>1
<1> QED
  BY <1>8 DEF PartOf, f

\* The shares of a hand are never more than the hand.
LEMMA PartFits ==
  ASSUME NEW lots \in Nat, NEW n \in 0..Len(Shares), NEW k \in 0..n
  PROVE  PartOf(lots, n, k) \in Nat /\ PartOf(lots, n, k) <= lots
<1>1. PartOf(lots, n, k) \in Nat /\ 100 * PartOf(lots, n, k) <= lots * ShareOf(k)
  BY PartIsBounded
<1>2. ShareOf(k) \in Nat /\ ShareOf(k) <= 100
  <2> DEFINE Whole == Len(Shares)
  <2>0. Whole \in Nat /\ \A j \in 1..Whole : Shares[j] \in Nat
    BY SharesType
  <2>1. IsFiniteSet(1..Whole) /\ IsFiniteSet(1..k)
    BY <2>0, FS_Interval
  <2>2. ShareOf(k) \in Nat
    <3>1. k \in 0..Whole
      BY <2>0
    <3> HIDE DEF Whole
    <3>2. \A j \in 1..k : Shares[j] \in Nat
      BY <2>0, <3>1
    <3> QED
      BY <2>1, <3>2, SumNat DEF ShareOf
  <2>3. ASSUME NEW m \in Nat, m + 1 <= Whole, ShareOf(m + 1) <= 100 PROVE ShareOf(m) <= 100
    <3>1. m \in 0..(Whole - 1) /\ Shares[m + 1] \in Nat
      BY <2>0, <2>3
    <3> HIDE DEF Whole
    <3>2. ShareOf(m + 1) = ShareOf(m) + Shares[m + 1] /\ ShareOf(m) \in Nat
      BY <2>0, <3>1, SumGrows DEF ShareOf
    <3> QED
      BY <2>3, <3>1, <3>2
  <2> DEFINE T == {i \in Nat : i <= Whole /\ ~(ShareOf(Whole - i) <= 100)}
  <2>4. T = {}
    <3> SUFFICES ASSUME T # {} PROVE FALSE
      OBVIOUS
    <3>1. PICK i \in T : i - 1 \notin T
      <4>1. T \subseteq Nat
        OBVIOUS
      <4> HIDE DEF T
      <4> QED
        BY <4>1, LeastNumber
    <3> HIDE DEF Whole
    <3>2. i # 0
      <4>1. Whole - 0 = Whole
        BY <2>0
      <4>2. ShareOf(Whole) <= 100
        BY SharesType DEF Whole
      <4> QED
        BY <3>1, <4>1, <4>2
    <3>3. i - 1 \in Nat /\ i - 1 <= Whole
      BY <2>0, <3>1, <3>2
    <3>4. ShareOf(Whole - (i - 1)) <= 100
      BY <3>1, <3>3
    <3>5. Whole - i \in Nat /\ (Whole - i) + 1 <= Whole /\ Whole - (i - 1) = (Whole - i) + 1
      BY <2>0, <3>1, <3>2
    <3>6. ShareOf(Whole - i) <= 100
      BY <2>3, <3>4, <3>5
    <3> QED
      BY <3>1, <3>6
  <2>5. Whole - k \in Nat /\ Whole - k <= Whole /\ Whole - (Whole - k) = k
    BY <2>0
  <2>6. ShareOf(Whole - (Whole - k)) <= 100
    <3>1. Whole - k \notin T
      BY <2>4
    <3> HIDE DEF Whole
    <3> QED
      BY <2>5, <3>1
  <2> QED
    BY <2>2, <2>5, <2>6
<1>3. PICK a \in Nat, b \in Nat : a = PartOf(lots, n, k) /\ b = ShareOf(k)
  BY <1>1, <1>2
<1>4. 100 * a <= lots * b /\ b <= 100
  BY <1>1, <1>2, <1>3
<1>5. lots * b <= lots * 100
  <2>1. PICK c \in Nat : 100 = b + c
    BY <1>4
  <2>2. lots * (b + c) = lots * b + lots * c /\ lots * c \in Nat /\ lots * b \in Nat
    OBVIOUS
  <2> QED
    BY <2>1, <2>2
<1>6. 100 * a <= 100 * lots
  BY <1>4, <1>5
<1> QED
  BY <1>3, <1>6

-----------------------------------------------------------------------------
(* The card's plan                                                             *)

LEMMA OwnPlan ==
  ASSUME NEW book, book.own, NEW n \in Nat, NEW lots \in Nat, NEW i \in 1..n
  PROVE  PlanOf(book, n, lots)[i] = IF i # n THEN 1 ELSE IF lots < n THEN 0 ELSE lots - (n - 1)
  BY DEF PlanOf

LEMMA SharedPlan ==
  ASSUME NEW book, ~book.own, NEW n \in Nat, NEW lots \in Nat, NEW i \in 1..n
  PROVE  PlanOf(book, n, lots)[i] =
           IF i = n THEN lots - PartOf(lots, n, i - 1) ELSE (lots * Shares[i]) \div 100
  BY DEF PlanOf, PartOf

\* What is left when the first m rungs sold what the plan gives them.
Remains(p, m) == IF p.book.own THEN p.lots - m ELSE p.lots - PartOf(p.lots, Len(p.rungs), m)

\* A position as it was filled, with what its rungs have sold since.
Stamped(p) ==
  /\ {"open", "left", "sold"} \subseteq DOMAIN p /\ p.open = TRUE
  /\ p.book \in Styles /\ p.lots \in Hands /\ p.left \in Nat /\ p.sold \in Seq(Nat)
  /\ Len(p.rungs) \in Nat /\ (~p.book.own => Len(p.rungs) <= Len(Shares))
  /\ p.plan = PlanOf(p.book, Len(p.rungs), p.lots)
  /\ Len(p.sold) <= Len(p.rungs)

\* The first m rungs each have a lot to sell.
Given(p, m) == \A j \in 1..m : p.plan[j] >= 1

\* As long as the plan gives each rung a lot, the rungs sold it, and the rest is left.
AsPlanned(p) ==
  /\ \A i \in DOMAIN p.sold : Given(p, i) => p.sold[i] = p.plan[i]
  /\ Len(p.sold) < Len(p.rungs) /\ Given(p, Len(p.sold)) => p.left = Remains(p, Len(p.sold))

\* A ladder that is loaded has finitely many rungs.
LoadedInv ==
  /\ today \in Days
  /\ \A c \in calls : c.code \in Strikes /\ c.asof \in Days
  /\ ladders \in [Strikes -> {None} \union {LadderOf[k][d] : k \in Strikes, d \in Days}]
  /\ \A k \in Strikes : ladders[k] # None => IsFiniteSet(ladders[k].merged)

PlanInv ==
  /\ LoadedInv
  /\ carried.open \in BOOLEAN
  /\ carried.open => Stamped(carried) /\ AsPlanned(carried)

\* A rung sells what the plan gives it, when those below did and it gives a lot.
LEMMA RungTakes ==
  ASSUME NEW p, Stamped(p), p.left > 0, Len(p.sold) < Len(p.rungs)
  PROVE  LET i == Len(p.sold) + 1
             out == Takes(p, i)
         IN  /\ out \in Nat /\ out <= p.left
             /\ p.left = Remains(p, Len(p.sold)) /\ p.plan[i] >= 1
                  => /\ out = p.plan[i]
                     /\ i < Len(p.rungs) => p.left - out = Remains(p, i)
<1> DEFINE m == Len(p.sold)
           n == Len(p.rungs)
           i == m + 1
<1>1. m \in Nat /\ n \in Nat /\ i \in 1..n /\ m \in 0..(n - 1) /\ p.left \in Nat /\ p.lots \in Nat
  BY LegsAssumption DEF Stamped
<1>2. p.book.own \in BOOLEAN
  BY LegsAssumption DEF Stamped
<1>3. p.plan = PlanOf(p.book, n, p.lots)
  BY DEF Stamped
<1>4. CASE p.book.own
  <2>1. p.plan[i] = IF i # n THEN 1 ELSE IF p.lots < n THEN 0 ELSE p.lots - (n - 1)
    <3>1. PICK book, lots : book = p.book /\ lots = p.lots
      OBVIOUS
    <3>2. book.own
      BY <1>4, <3>1
    <3> HIDE DEF i, n
    <3>3. lots \in Nat /\ n \in Nat /\ i \in 1..n
      BY <1>1, <3>1
    <3>4. PlanOf(book, n, lots)[i] = IF i # n THEN 1 ELSE IF lots < n THEN 0 ELSE lots - (n - 1)
      BY <3>2, <3>3, OwnPlan
    <3> QED
      BY <1>3, <3>1, <3>4
  <2>2. Takes(p, i) = IF i = n THEN p.left ELSE IF p.left <= 1 THEN p.left ELSE 1
    BY <1>4 DEF Takes
  <2>3. Remains(p, m) = p.lots - m /\ Remains(p, i) = p.lots - i
    BY <1>4 DEF Remains
  <2>4. PICK out, planned, left, lots :
          out = Takes(p, i) /\ planned = p.plan[i] /\ left = p.left /\ lots = p.lots
    OBVIOUS
  <2>5. left \in Nat /\ lots \in Nat /\ left > 0
    BY <1>1, <2>4
  <2> HIDE DEF i, m, n
  <2>6. planned = IF i # n THEN 1 ELSE IF lots < n THEN 0 ELSE lots - (n - 1)
    BY <2>1, <2>4
  <2>7. out = IF i = n THEN left ELSE IF left <= 1 THEN left ELSE 1
    BY <2>2, <2>4
  <2>8. out \in Nat /\ out <= left
    BY <2>5, <2>7
  <2>9. left = lots - m /\ planned >= 1 => out = planned /\ (i < n => left - out = lots - i)
    BY <1>1, <2>5, <2>6, <2>7 DEF i
  <2> QED
    BY <2>3, <2>4, <2>8, <2>9 DEF i, m, n
<1>5. CASE ~p.book.own
  <2>0. n \in 0..Len(Shares) /\ Len(Shares) \in Nat
    BY <1>1, <1>5, SharesType DEF Stamped
  <2>1. PICK want : want = (p.lots * Shares[i]) \div 100
    OBVIOUS
  <2>2. want \in Nat
    <3>1. Shares[i] \in Nat
      BY <1>1, <2>0, SharesType
    <3>2. p.lots * Shares[i] \in Nat
      BY <1>1, <3>1
    <3> QED
      BY <2>1, <3>2, PercentOf
  <2>3. Takes(p, i) = IF i = n THEN p.left ELSE IF want = 0 \/ want > p.left THEN p.left ELSE want
    BY <1>5, <2>1 DEF Takes
  <2>4. p.plan[i] = IF i = n THEN p.lots - PartOf(p.lots, n, i - 1) ELSE want
    <3>1. PICK book, lots : book = p.book /\ lots = p.lots
      OBVIOUS
    <3>2. ~book.own
      BY <1>5, <3>1
    <3> HIDE DEF i, n
    <3>3. lots \in Nat /\ n \in Nat /\ i \in 1..n
      BY <1>1, <3>1
    <3>4. PlanOf(book, n, lots)[i] = IF i = n THEN lots - PartOf(lots, n, i - 1) ELSE (lots * Shares[i]) \div 100
      BY <3>2, <3>3, SharedPlan
    <3> QED
      BY <1>3, <2>1, <3>1, <3>4
  <2>5. PICK part, further : part = PartOf(p.lots, n, m) /\ further = PartOf(p.lots, n, i)
    OBVIOUS
  <2>6. part \in Nat /\ further \in Nat /\ further <= p.lots
    <3>1. m \in 0..n /\ i \in 0..n
      BY <1>1
    <3> HIDE DEF m, i, n
    <3> QED
      BY <1>1, <2>0, <2>5, <3>1, PartFits
  <2>7. further = part + want
    <3> DEFINE f == [j \in 1..n |-> (p.lots * Shares[j]) \div 100]
    <3>1. \A j \in 1..n : f[j] \in Nat
      <4> SUFFICES ASSUME NEW j \in 1..n PROVE f[j] \in Nat
        OBVIOUS
      <4>1. Shares[j] \in Nat
        BY <1>1, <2>0, SharesType
      <4>2. PICK lots \in Nat, share \in Nat : lots = p.lots /\ share = Shares[j]
        BY <1>1, <4>1
      <4>3. lots * share \in Nat
        OBVIOUS
      <4> QED
        BY <4>2, <4>3, PercentOf
    <3>2. f[m + 1] = want
      BY <1>1, <2>1
    <3>3. part = SumFunctionOnSet(f, 1..m) /\ further = SumFunctionOnSet(f, 1..(m + 1))
      BY <2>5 DEF PartOf
    <3> HIDE DEF m, n, f
    <3>4. SumFunctionOnSet(f, 1..(m + 1)) = SumFunctionOnSet(f, 1..m) + f[m + 1]
      BY <1>1, <3>1, SumGrows
    <3> QED
      BY <3>2, <3>3, <3>4
  <2>8. Remains(p, m) = p.lots - part /\ Remains(p, i) = p.lots - further
    BY <1>5, <2>5 DEF Remains
  <2>9. i - 1 = m
    BY <1>1
  <2>10. p.plan[i] = IF i = n THEN p.lots - part ELSE want
    BY <2>4, <2>5, <2>9
  <2> HIDE DEF i, m
  <2> QED
    BY <1>1, <2>2, <2>3, <2>6, <2>7, <2>8, <2>10 DEF i, m
<1> QED
  BY <1>2, <1>4, <1>5

\* A touch leaves a position as it was planned.
LEMMA TouchedAsPlanned ==
  ASSUME NEW p, Stamped(p), AsPlanned(p), p.left > 0, Len(p.sold) < Len(p.rungs)
  PROVE  LET out == Takes(p, Len(p.sold) + 1)
             q == [p EXCEPT !.sold = Append(@, out), !.left = @ - out]
         IN  q.open = TRUE /\ Stamped(q) /\ AsPlanned(q)
<1> DEFINE m == Len(p.sold)
           i == m + 1
<1>1. PICK out : out = Takes(p, i)
  OBVIOUS
<1> DEFINE q == [p EXCEPT !.sold = Append(@, out), !.left = @ - out]
<1>2. /\ out \in Nat /\ out <= p.left
      /\ p.left = Remains(p, m) /\ p.plan[i] >= 1
           => /\ out = p.plan[i]
              /\ i < Len(p.rungs) => p.left - out = Remains(p, i)
  BY <1>1, RungTakes
<1>4. /\ q.open = TRUE /\ q.book = p.book /\ q.rungs = p.rungs /\ q.lots = p.lots /\ q.plan = p.plan
      /\ q.left = p.left - out /\ q.sold = Append(p.sold, out) /\ DOMAIN q = DOMAIN p
  BY DEF Stamped
<1>5. m \in Nat /\ p.sold \in Seq(Nat) /\ p.left \in Nat /\ Len(p.rungs) \in Nat
  BY DEF Stamped
<1>6. /\ q.sold \in Seq(Nat) /\ Len(q.sold) = i /\ q.sold[i] = out
      /\ \A j \in 1..m : q.sold[j] = p.sold[j]
  BY <1>2, <1>4, <1>5
<1>7. Stamped(q)
  <2>1. p.left - out \in Nat
    BY <1>2, <1>5
  <2>2. i <= Len(p.rungs)
    BY <1>5
  <2> HIDE DEF q, i, m
  <2> QED
    BY <1>4, <1>6, <2>1, <2>2 DEF Stamped
<1>8. AsPlanned(q)
  <2>1. \A k \in 1..i : Given(q, k) => Given(p, k)
    BY <1>4 DEF Given
  <2>2. Given(p, i) => Given(p, m) /\ p.plan[i] >= 1
    BY <1>5 DEF Given
  <2>3. Given(p, m) => p.left = Remains(p, m)
    BY DEF AsPlanned
  <2>4. Remains(q, i) = Remains(p, i)
    BY <1>4 DEF Remains
  <2>5. ASSUME NEW k \in DOMAIN q.sold, Given(q, k) PROVE q.sold[k] = q.plan[k]
    <3>1. k \in 1..i /\ DOMAIN p.sold = 1..m
      BY <1>5, <1>6
    <3>2. Given(p, k)
      BY <2>1, <2>5, <3>1
    <3>3. CASE k = i
      BY <1>2, <1>4, <1>6, <2>2, <2>3, <3>2, <3>3
    <3>4. CASE k # i
      <4>1. k \in 1..m
        BY <1>5, <3>1, <3>4
      <4> QED
        BY <1>4, <1>6, <3>1, <3>2, <4>1 DEF AsPlanned
    <3> QED
      BY <3>3, <3>4
  <2>6. ASSUME Len(q.sold) < Len(q.rungs), Given(q, Len(q.sold)) PROVE q.left = Remains(q, Len(q.sold))
    <3>1. i \in 1..i
      BY <1>5
    <3>2. Given(p, i) /\ i < Len(p.rungs)
      BY <1>4, <1>6, <2>1, <2>6, <3>1
    <3> QED
      BY <1>2, <1>4, <1>6, <2>2, <2>3, <2>4, <3>2
  <2> HIDE DEF q
  <2> QED
    BY <2>5, <2>6 DEF AsPlanned
<1> HIDE DEF q
<1>9. q.open = TRUE /\ Stamped(q) /\ AsPlanned(q)
  BY <1>4, <1>7, <1>8
<1> QED
  BY <1>1, <1>9 DEF q

-----------------------------------------------------------------------------
(* The steps                                                                   *)

LEMMA FourAreFinite ==
  ASSUME NEW a, NEW b, NEW c, NEW d
  PROVE  IsFiniteSet({a, b, c, d})
<1>1. IsFiniteSet({} \union {a})
  BY FS_AddElement, FS_EmptySet
<1>2. IsFiniteSet(({} \union {a}) \union {b})
  BY <1>1, FS_AddElement
<1>3. IsFiniteSet((({} \union {a}) \union {b}) \union {c})
  BY <1>2, FS_AddElement
<1>4. IsFiniteSet(((({} \union {a}) \union {b}) \union {c}) \union {d})
  BY <1>3, FS_AddElement
<1>5. ((({} \union {a}) \union {b}) \union {c}) \union {d} = {a, b, c, d}
  OBVIOUS
<1> QED
  BY <1>4, <1>5

LEMMA FiniteLadder ==
  ASSUME LoadedInv, NEW code \in Strikes, NEW book, NEW entry
  PROVE  Len(OwnLadder(book, code, entry)) \in Nat
<1> DEFINE own == ladders[code]
           all == IF own = None THEN {}
                  ELSE IF book.daily THEN DailyRungs(own, entry) ELSE MtfRungs(own, entry)
           far == {r \in all : book.room = 0 \/ r * 100 >= entry * (100 + book.room)}
<1>1. IsFiniteSet(DailyRungs(own, entry))
  <2> DEFINE price(name) == own.daily[name] \div 6
  <2>1. IsFiniteSet({price("r1"), price("r2"), price("r3"), price("r4")})
    BY FourAreFinite
  <2>2. DailyRungs(own, entry) \subseteq {price("r1"), price("r2"), price("r3"), price("r4")}
    BY DEF DailyRungs
  <2> HIDE DEF price
  <2> QED
    BY <2>1, <2>2, FS_Subset
<1>2. own # None => IsFiniteSet(MtfRungs(own, entry))
  BY FS_Subset DEF MtfRungs, LoadedInv
<1>3. IsFiniteSet(all)
  BY <1>1, <1>2, FS_EmptySet
<1>4. IsFiniteSet(far)
  <2>1. far \subseteq all
    OBVIOUS
  <2> HIDE DEF all, far
  <2> QED
    BY <1>3, <2>1, FS_Subset
<1>5. Cardinality(far) \in Nat
  <2> HIDE DEF far
  <2> QED
    BY <1>4, FS_CardinalityType
<1>6. OwnLadder(book, code, entry) =
        [i \in 1..(IF Cardinality(far) < 4 THEN Cardinality(far) ELSE 4) |-> Lowest(far, i)]
  BY DEF OwnLadder
<1> HIDE DEF far
<1>7. PICK n \in Nat : n = IF Cardinality(far) < 4 THEN Cardinality(far) ELSE 4
  BY <1>5
<1>8. OwnLadder(book, code, entry) = [i \in 1..n |-> Lowest(far, i)]
  BY <1>6, <1>7
<1>9. Len([i \in 1..n |-> Lowest(far, i)]) = n
  OBVIOUS
<1> QED
  BY <1>8, <1>9

LEMMA LoadedLoad ==
  ASSUME LoadedInv, NEW task, NEW legs, legs \subseteq Strikes, Load(task, legs), today' = today
  PROVE  LoadedInv'
<1>1. \A c \in calls' : c.code \in Strikes /\ c.asof \in Days
  BY DEF LoadedInv, Load
<1>2. /\ ladders' \in [Strikes -> {None} \union {LadderOf[k][d] : k \in Strikes, d \in Days}]
      /\ \A k \in Strikes : ladders'[k] # None => IsFiniteSet(ladders'[k].merged)
  BY DEF LoadedInv, Load
<1> QED
  BY <1>1, <1>2 DEF LoadedInv

LEMMA LoadedAnswers ==
  ASSUME LoadedInv, NEW c \in calls, Answers(c) \/ Raises(c)
  PROVE  LoadedInv'
<1>1. c.code \in Strikes /\ c.asof \in Days /\ today' = today /\ today \in Days
  BY DEF LoadedInv, Answers, Raises, world
<1>2. \A e \in calls' : e.code \in Strikes /\ e.asof \in Days
  <2>1. CASE Answers(c)
    BY <2>1 DEF Answers, LoadedInv
  <2>2. CASE Raises(c)
    <3>1. PICK again : again = [c EXCEPT !.tries = @ + 1]
      OBVIOUS
    <3>2. \A e \in calls' : e \in calls \/ e = again
      BY <2>2, <3>1 DEF Raises
    <3>3. again.code = c.code /\ again.asof = c.asof
      BY <3>1
    <3> QED
      BY <1>1, <3>2, <3>3 DEF LoadedInv
  <2> QED
    BY <2>1, <2>2
<1>3. /\ ladders' \in [Strikes -> {None} \union {LadderOf[k][d] : k \in Strikes, d \in Days}]
      /\ \A k \in Strikes : ladders'[k] # None => IsFiniteSet(ladders'[k].merged)
  <2>1. CASE ladders' = ladders
    BY <2>1 DEF LoadedInv
  <2>2. CASE ladders' # ladders
    <3>1. PICK own : /\ own = LadderOf[c.code][c.asof] /\ own # None
                     /\ ladders' = [ladders EXCEPT ![c.code] = own]
      BY <2>2 DEF Answers, Raises
    <3>2. IsFiniteSet(own.merged)
      BY <1>1, <3>1, LegsAssumption
    <3>3. own \in {LadderOf[k][d] : k \in Strikes, d \in Days}
      BY <1>1, <3>1
    <3> QED
      BY <1>1, <3>1, <3>2, <3>3 DEF LoadedInv
  <2> QED
    BY <2>1, <2>2
<1> QED
  BY <1>1, <1>2, <1>3 DEF LoadedInv

LEMMA OpenedAsPlanned ==
  ASSUME PlanInv, NEW book \in Styles, NEW code \in Expected, NEW entry \in Premiums, NEW lots \in Hands,
         Opens(book, code, entry, lots)
  PROVE  carried'.open = TRUE /\ Stamped(carried') /\ AsPlanned(carried')
<1> DEFINE rungs == IF book.own THEN OwnLadder(book, code, entry) ELSE [i \in 1..book.projected |-> entry + i]
           q == [open |-> TRUE, book |-> book, code |-> code, entry |-> entry, rungs |-> rungs, lots |-> lots,
                 left |-> lots, plan |-> PlanOf(book, Len(rungs), lots), sold |-> <<>>]
<1>1. carried' = q
  BY DEF Opens
<1>2. lots \in Nat /\ book.own \in BOOLEAN /\ book.projected \in 0..Len(Shares) /\ Len(Shares) \in Nat
  BY LegsAssumption, SharesType
<1>3. Len(rungs) \in Nat /\ (~book.own => Len(rungs) <= Len(Shares))
  <2>1. CASE book.own
    <3>1. code \in Strikes
      BY DEF Expected
    <3> QED
      BY <2>1, <3>1, FiniteLadder DEF PlanInv
  <2>2. CASE ~book.own
    BY <1>2, <2>2
  <2> QED
    BY <1>2, <2>1, <2>2
<1> HIDE DEF rungs
<1>4. /\ DOMAIN q = {"open", "book", "code", "entry", "rungs", "lots", "left", "plan", "sold"}
      /\ q.open = TRUE /\ q.book = book /\ q.rungs = rungs /\ q.lots = lots /\ q.left = lots
      /\ q.plan = PlanOf(book, Len(rungs), lots) /\ q.sold = <<>> /\ Len(q.sold) = 0
  OBVIOUS
<1> HIDE DEF q
<1>5. Stamped(q)
  <2>1. q.sold \in Seq(Nat) /\ Len(q.sold) <= Len(q.rungs)
    BY <1>3, <1>4
  <2>2. {"open", "left", "sold"} \subseteq DOMAIN q
    BY <1>4
  <2> QED
    BY <1>2, <1>3, <1>4, <2>1, <2>2 DEF Stamped
<1>6. AsPlanned(q)
  <2>1. DOMAIN q.sold = {}
    BY <1>4
  <2>2. Len(q.sold) < Len(q.rungs) => q.left = Remains(q, Len(q.sold))
    <3>1. PartOf(lots, Len(rungs), 0) = 0
      <4>1. 1..0 = {}
        OBVIOUS
      <4> QED
        BY <4>1, SumOfNone DEF PartOf
    <3> QED
      BY <1>2, <1>4, <3>1 DEF Remains
  <2> QED
    BY <2>1, <2>2 DEF AsPlanned
<1> QED
  BY <1>1, <1>4, <1>5, <1>6

LEMMA PlanInit == LegsInit => PlanInv
  BY LegsAssumption DEF LegsInit, PlanInv, LoadedInv, NoPosition

LEMMA PlanStep == PlanInv /\ [LegsNext]_legsVars => PlanInv'
<1> SUFFICES ASSUME PlanInv, [LegsNext]_legsVars PROVE PlanInv'
  OBVIOUS
<1>1. ASSUME UNCHANGED carried, LoadedInv' PROVE PlanInv'
  <2>1. carried.open = TRUE => Stamped(carried') /\ AsPlanned(carried')
    BY <1>1 DEF PlanInv
  <2> QED
    BY <1>1 DEF PlanInv, Stamped, AsPlanned, Given, Remains
<1>2. ASSUME UNCHANGED <<today, calls, ladders>> PROVE LoadedInv'
  BY <1>2 DEF PlanInv, LoadedInv
<1>3. Expected \subseteq Strikes /\ Missing \subseteq Strikes
  BY DEF Expected, Missing
<1>4. CASE BootLoads
  <2>1. LoadedInv'
    BY <1>3, <1>4, LoadedLoad DEF BootLoads, PlanInv, world
  <2> QED
    BY <1>1, <1>4, <2>1 DEF BootLoads
<1>5. CASE Repairs
  <2>1. LoadedInv'
    <3>1. CASE UNCHANGED <<loader, calls>>
      BY <1>2, <1>5, <3>1 DEF Repairs, loader, world
    <3>2. CASE ~UNCHANGED <<loader, calls>>
      <4>1. PICK todo \in SUBSET Strikes : Load("repair", todo)
        BY <1>3, <1>5, <3>2 DEF Repairs
      <4> QED
        BY <1>5, <4>1, LoadedLoad DEF Repairs, PlanInv, world
    <3> QED
      BY <3>1, <3>2
  <2> QED
    BY <1>1, <1>5, <2>1 DEF Repairs
<1>6. CASE Midnight
  <2>0. LastDay \in Nat
    BY LegsAssumption
  <2>1. today' \in Days /\ UNCHANGED <<calls, ladders, carried>>
    <3>1. today \in 0..LastDay /\ today < LastDay /\ today' = today + 1
      BY <1>6 DEF Midnight, PlanInv, LoadedInv, Days
    <3>2. today + 1 \in 0..LastDay
      BY <2>0, <3>1
    <3> QED
      BY <1>6, <3>1, <3>2 DEF Midnight, Days, loader
  <2>2. LoadedInv'
    BY <2>1 DEF PlanInv, LoadedInv
  <2> QED
    BY <1>1, <2>1, <2>2
<1>7. CASE Rolls \/ NameMoves \/ UNCHANGED legsVars
  BY <1>1, <1>2, <1>7 DEF Rolls, NameMoves, world, loader, legsVars
<1>8. CASE Touches
  <2>1. carried.open = TRUE /\ Stamped(carried) /\ AsPlanned(carried)
    BY <1>8 DEF Touches, PlanInv
  <2>2. carried' = LET out == Takes(carried, Len(carried.sold) + 1)
                   IN  [carried EXCEPT !.sold = Append(@, out), !.left = @ - out]
    BY <1>8 DEF Touches
  <2>3. carried'.open = TRUE /\ Stamped(carried') /\ AsPlanned(carried')
    <3>1. carried.left > 0 /\ Len(carried.sold) < Len(carried.rungs)
      BY <1>8 DEF Touches
    <3>2. PICK p, q : p = carried /\ q = carried'
      OBVIOUS
    <3>3. q.open = TRUE /\ Stamped(q) /\ AsPlanned(q)
      BY <2>1, <2>2, <3>1, <3>2, TouchedAsPlanned
    <3> QED
      BY <3>2, <3>3 DEF Stamped, AsPlanned, Given, Remains
  <2>4. LoadedInv'
    BY <1>2, <1>8 DEF Touches, loader, world
  <2> QED
    BY <2>3, <2>4 DEF PlanInv
<1>9. ASSUME NEW c \in calls, Answers(c) \/ Raises(c) PROVE PlanInv'
  <2>1. LoadedInv'
    BY <1>9, LoadedAnswers DEF PlanInv
  <2> QED
    BY <1>1, <1>9, <2>1 DEF Answers, Raises
<1>10. ASSUME NEW book \in Styles, NEW code \in Expected, NEW entry \in Premiums, NEW lots \in Hands,
              Opens(book, code, entry, lots)
       PROVE  PlanInv'
  <2>1. LoadedInv'
    BY <1>2, <1>10 DEF Opens, loader, world
  <2> QED
    BY <1>10, <2>1, OpenedAsPlanned DEF PlanInv
<1> QED
  BY <1>4, <1>5, <1>6, <1>7, <1>8, <1>9, <1>10 DEF LegsNext

\* For any ladders, books, shares that do not come to more than the whole, hands
\* and premiums: the rungs of a position sell what its card said they would, as
\* long as the card gave each of them a lot, and never more than is held.
THEOREM PlanIsKeptHolds == LegsSpec => []PlanIsKept
<1>1. LegsInit => PlanInv
  BY PlanInit
<1>2. PlanInv /\ [LegsNext]_legsVars => PlanInv'
  BY PlanStep
<1>3. PlanInv => PlanIsKept
  BY DEF PlanInv, PlanIsKept, Stamped, AsPlanned, Given
<1> QED
  BY <1>1, <1>2, <1>3, PTL DEF LegsSpec

=============================================================================
