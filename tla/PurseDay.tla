----------------------------- MODULE PurseDay ------------------------------
(* One book's purse across days, resets and restarts: the roll-over that the   *)
(* housekeeping pass makes when it sees a new day, the operator's reset, which *)
(* puts a new Wallet object in the old one's place, and what the ledger holds  *)
(* (engine.py _housekeeping, reset_wallet, _load_wallets; risk/wallet.py).     *)
(* An entry keeps the object it took its money from, and an exit looks up the  *)
(* one the book has by then.                                                   *)
EXTENDS Wallet, FiniteSets

CONSTANTS
  Initial,     \* the book's opening capital
  Outlay,      \* what an entry holds, and what its fill costs
  Results,     \* what a trade can make
  MaxDay,      \* bound: the last day
  MaxTrades,   \* bound: entries
  MaxResets,   \* bound: resets
  MaxCrashes,  \* bound: crashes
  None

PurseDayAssumptions ==
  /\ {Initial, Outlay, MaxDay, MaxTrades, MaxResets, MaxCrashes} \subseteq Nat
  /\ Outlay \in 1 .. Initial /\ Results \subseteq Int

VARIABLES
  day,        \* the IST day
  up, born,   \* whether a process runs, and the day it was started
  lastDay,    \* _housekeeping's last_day
  purse,      \* wallets[strategy]
  replaced,   \* the object a reset took out, while an entry still holds it
  stored,     \* the ledger's record
  entry,      \* "none", "placing", "saving" the position and then "charging" the purse
  position,   \* whether the book holds an open position
  saved,      \* whether the ledger has it
  reset,      \* a reset between its assignment and its write
  trades, resets, crashes,
  trippedOn   \* ghost: the day the purse was halted

vars == <<day, up, born, lastDay, purse, replaced, stored, entry, position, saved, reset,
          trades, resets, crashes, trippedOn>>

New(amount) == [p |-> NewPurse(amount), day |-> day]

\* Mutant: a new day only moves the balance the day's loss is measured from.
RolloverKeepsHalt(w) ==
  IF w.day = day THEN w
  ELSE [w EXCEPT !.day = day, !.p.day_start_balance = w.p.balance]

Rollover(w) ==
  IF w.day = day THEN w
  ELSE [w EXCEPT !.day = day,
                 !.p.day_start_balance = w.p.balance,
                 !.p.halt = IF @ = "DAILY_LOSS" THEN "none" ELSE @]

-----------------------------------------------------------------------------
(* An entry: the object it captured is the book's, or the one a reset replaced. *)

Captured == IF replaced = None THEN purse ELSE replaced

\* The captured object becomes w.
Becomes(w) ==
  IF replaced = None THEN purse' = w /\ UNCHANGED replaced
  ELSE replaced' = w /\ UNCHANGED purse

StartEntry ==
  /\ up /\ entry = "none" /\ ~position /\ trades < MaxTrades
  /\ purse.p.halt = "none" /\ CanReserve(purse.p, Outlay)
  /\ trades' = trades + 1 /\ entry' = "placing"
  /\ purse' = [purse EXCEPT !.p = Deploy(@, Outlay)]
  /\ UNCHANGED <<day, up, born, lastDay, replaced, stored, position, saved, reset, resets, crashes,
                 trippedOn>>

EntryRefused ==
  /\ up /\ entry = "placing"
  /\ entry' = "none"
  /\ IF replaced = None THEN purse' = [purse EXCEPT !.p = Release(@, Outlay)]
     ELSE UNCHANGED purse
  /\ replaced' = None
  /\ UNCHANGED <<day, up, born, lastDay, stored, position, saved, reset, trades, resets, crashes,
                 trippedOn>>

EntryFilled ==
  /\ up /\ entry = "placing"
  /\ entry' = "saving" /\ position' = TRUE
  /\ Becomes([Captured EXCEPT !.p = Deploy(Release(@, Outlay), Outlay)])
  /\ UNCHANGED <<day, up, born, lastDay, stored, saved, reset, trades, resets, crashes, trippedOn>>

PositionSaved ==
  /\ up /\ entry = "saving"
  /\ entry' = "charging" /\ saved' = position
  /\ UNCHANGED <<day, up, born, lastDay, purse, replaced, stored, position, reset, trades, resets,
                 crashes, trippedOn>>

EntrySaved ==
  /\ up /\ entry = "charging"
  /\ entry' = "none" /\ stored' = Captured /\ replaced' = None
  /\ UNCHANGED <<day, up, born, lastDay, purse, position, saved, reset, trades, resets, crashes,
                 trippedOn>>

\* _exit, on the book's present purse.
Exit(pnl) ==
  /\ up /\ position
  /\ LET after == CheckBreakers(ApplyClose(Release(purse.p, Outlay), pnl))
     IN /\ purse' = [purse EXCEPT !.p = after]
        /\ trippedOn' = IF after.halt # purse.p.halt THEN day ELSE trippedOn
  /\ position' = FALSE /\ saved' = FALSE
  /\ stored' = purse'
  /\ UNCHANGED <<day, up, born, lastDay, replaced, entry, reset, trades, resets, crashes>>

-----------------------------------------------------------------------------
(* The operator's reset *)

ResetWallet ==
  /\ up /\ reset = None /\ resets < MaxResets
  /\ ~position
  /\ resets' = resets + 1
  /\ purse' = New(Initial)
  /\ replaced' = IF entry = "none" THEN None ELSE Captured
  /\ reset' = purse'
  /\ UNCHANGED <<day, up, born, lastDay, stored, entry, position, saved, trades, crashes, trippedOn>>

ResetSaved ==
  /\ up /\ reset # None
  /\ stored' = purse /\ reset' = None
  /\ UNCHANGED <<day, up, born, lastDay, purse, replaced, entry, position, saved, trades, resets,
                 crashes, trippedOn>>

-----------------------------------------------------------------------------
(* Days, the housekeeping pass, crashes *)

Midnight ==
  /\ day < MaxDay /\ day' = day + 1
  /\ UNCHANGED <<up, born, lastDay, purse, replaced, stored, entry, position, saved, reset, trades,
                 resets, crashes, trippedOn>>

NewDay ==
  /\ up /\ day # lastDay
  /\ lastDay' = day /\ purse' = Rollover(purse)
  /\ UNCHANGED <<day, up, born, replaced, stored, entry, position, saved, reset, trades, resets,
                 crashes, trippedOn>>

PersistWallets ==
  /\ up /\ day = lastDay
  /\ stored' = purse
  /\ UNCHANGED <<day, up, born, lastDay, purse, replaced, entry, position, saved, reset, trades,
                 resets, crashes, trippedOn>>

Crash ==
  /\ up /\ crashes < MaxCrashes
  /\ up' = FALSE /\ crashes' = crashes + 1
  /\ entry' = "none" /\ replaced' = None /\ reset' = None
  /\ position' = saved
  /\ UNCHANGED <<day, born, lastDay, purse, stored, saved, trades, resets, trippedOn>>

\* _load_wallets, and _housekeeping's start: today is the last day it has seen.
Boot ==
  /\ ~up
  /\ up' = TRUE /\ born' = day /\ lastDay' = day
  /\ purse' = stored
  /\ UNCHANGED <<day, replaced, stored, entry, position, saved, reset, trades, resets, crashes,
                 trippedOn>>

-----------------------------------------------------------------------------
Init ==
  /\ day = 0 /\ up = TRUE /\ born = 0 /\ lastDay = 0
  /\ purse = New(Initial) /\ stored = purse /\ replaced = None
  /\ entry = "none" /\ position = FALSE /\ saved = FALSE /\ reset = None
  /\ trades = 0 /\ resets = 0 /\ crashes = 0 /\ trippedOn = 0

Entry == StartEntry \/ EntryRefused \/ EntryFilled \/ PositionSaved \/ EntrySaved

Next ==
  \/ Entry
  \/ \E pnl \in Results : Exit(pnl)
  \/ ResetWallet \/ ResetSaved
  \/ Midnight \/ NewDay \/ PersistWallets
  \/ Crash \/ Boot

Spec == Init /\ [][Next]_vars

-----------------------------------------------------------------------------
(* What must hold *)

\* A process that lives through a midnight gives its books a new day: once its pass
\* has seen the day, the purse counts that day, whatever was reset, entered, closed
\* or saved meanwhile, and a daily-loss halt is one of that day (Wallet.rollover). A
\* process that boots on the later day is not meant: see DailyLossEndsWithItsDay.
MidnightLiftsHalt ==
  up /\ lastDay = day /\ born < day =>
    /\ purse.day = day
    /\ purse.p.halt = "DAILY_LOSS" => trippedOn = day

\* docs/RUNBOOK.md:56-57 "the daily-loss or drawdown breaker, per book [...] It lifts on
\* the next IST day": once the housekeeping has seen the day, in whatever process.
DailyLossEndsWithItsDay ==
  up /\ lastDay = day /\ purse.p.halt = "DAILY_LOSS" => trippedOn = day

=============================================================================
