------------------------------- MODULE Wallet -------------------------------
(***************************************************************************)
(* One book's purse (risk/wallet.py), as a record and the operations on it *)
(* that the engine calls.  Rupees are integers: the comparisons the code   *)
(* makes between floats are made here between products, so no rounding.    *)
(* Counters that only feed reports (trades, wins, losses, updated_ts) are  *)
(* left out, and so is realized_pnl; the day roll-over is in PurseDay.     *)
(***************************************************************************)
EXTENDS Integers

CONSTANTS
    DailyLossPct,     \* RiskLimits.daily_loss_limit_pct
    MaxDrawdownPct    \* RiskLimits.max_drawdown_pct

ASSUME BreakerPercentages == DailyLossPct \in Nat /\ MaxDrawdownPct \in Nat

\* Wallet.halted and the prefix of Wallet.halt_reason, in one field.
Halts == {"none", "DAILY_LOSS", "DRAWDOWN"}

Purse ==
    [balance           : Int,
     peak              : Int,
     day_start_balance : Int,
     deployed          : Nat,
     charges_paid      : Nat,
     halt              : Halts]

Larger(a, b) == IF a >= b THEN a ELSE b

NewPurse(initial) ==
    [balance           |-> initial,
     peak              |-> initial,
     day_start_balance |-> initial,
     deployed          |-> 0,
     charges_paid      |-> 0,
     halt              |-> "none"]

\* Mutant: what is already deployed is not taken off.
AvailableWithoutDeployed(w) == Larger(0, w.balance)

Available(w) == Larger(0, w.balance - w.deployed)

\* reserve() answers no; when it answers yes it deploys the amount.
CanReserve(w, amount) == amount <= Available(w)

\* The assignment reserve() and commit() share.
Deploy(w, amount) == [w EXCEPT !.deployed = @ + amount]

Release(w, amount) == [w EXCEPT !.deployed = Larger(0, @ - amount)]

ApplyCharges(w, amount) ==
    [w EXCEPT !.balance = @ - amount, !.charges_paid = @ + amount]

ApplyClose(w, pnl) ==
    [w EXCEPT !.balance = @ + pnl, !.peak = Larger(@, w.balance + pnl)]

DailyLossHit(w) ==
    (w.balance - w.day_start_balance) * 100 <= -(DailyLossPct * w.day_start_balance)

DrawdownHit(w) == (w.peak - w.balance) * 100 >= MaxDrawdownPct * w.peak

\* An already halted purse keeps the reason it was halted for.
CheckBreakers(w) ==
    IF w.halt # "none"  THEN w
    ELSE IF DailyLossHit(w) THEN [w EXCEPT !.halt = "DAILY_LOSS"]
    ELSE IF DrawdownHit(w)  THEN [w EXCEPT !.halt = "DRAWDOWN"]
    ELSE w

=============================================================================
