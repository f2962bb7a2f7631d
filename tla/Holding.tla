------------------------------- MODULE Holding -------------------------------
(***************************************************************************)
(* What the exits promise of a position, and nothing of how (engine.py,    *)
(* _exit; db.py).  Its lots only go down while a process lives; the ledger *)
(* may forget an exit and may be overwritten by an older row, but never    *)
(* holds fewer lots than are left; a restart believes the ledger; a trade  *)
(* is written for a position that is sold out, and for no other.  ExitPath *)
(* is shown to implement it.                                               *)
(***************************************************************************)
EXTENDS Naturals

CONSTANTS
    Positions,
    Qty          \* lots bought

VARIABLES
    held,        \* lots the engine believes are left
    stored,      \* lots in the position's ledger row
    traded       \* trades written for the position

vars == <<held, stored, traded>>

Init ==
    /\ held = [p \in Positions |-> Qty[p]]
    /\ stored = [p \in Positions |-> Qty[p]]
    /\ traded = [p \in Positions |-> 0]

\* One exit, a rung or the whole position.
Sell(p, n) ==
    /\ held' = [held EXCEPT ![p] = @ - n]
    /\ UNCHANGED <<stored, traded>>

\* The row of this exit or, when two saves cross, of an earlier one.
Store(p, n) ==
    /\ stored' = [stored EXCEPT ![p] = n]
    /\ UNCHANGED <<held, traded>>

Trade(p) ==
    /\ held[p] = 0
    /\ traded' = [traded EXCEPT ![p] = @ + 1]
    /\ UNCHANGED <<held, stored>>

Restart ==
    /\ held' = stored
    /\ UNCHANGED <<stored, traded>>

Next ==
    \/ \E p \in Positions :
        \/ \E n \in 1..held[p] : Sell(p, n)
        \/ \E n \in held[p]..Qty[p] : Store(p, n)
        \/ Trade(p)
    \/ Restart

Spec == Init /\ [][Next]_vars

=============================================================================
