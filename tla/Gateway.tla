------------------------------ MODULE Gateway -------------------------------
(***************************************************************************)
(* The bookkeeping of exec/gateway.py, the one place every order passes:   *)
(* the ids it has seen, the run of consecutive rejects, the breaker and    *)
(* the day's count.  An outcome is one of the values of Decision; the way  *)
(* an outcome is reached belongs to the modules that submit orders.        *)
(* The roll-over of orders_today at midnight is not modelled: one session. *)
(***************************************************************************)
EXTENDS Integers

CONSTANTS
    BreakerCap,       \* LiveCaps.breaker_consecutive_rejects
    MaxOpenLive,      \* LiveCaps.max_positions
    MaxOrdersPerDay   \* LiveCaps.max_orders_per_day

ASSUME CapsArePositive ==
    /\ BreakerCap \in Nat \ {0}
    /\ MaxOpenLive \in Nat
    /\ MaxOrdersPerDay \in Nat

Modes == {"SHADOW", "PAPER", "LIVE_CAPPED", "LIVE"}
LiveModes == {"LIVE_CAPPED", "LIVE"}

GatewayState(Ids) ==
    [seen                : SUBSET Ids,
     consecutive_rejects : Nat,
     breaker_tripped     : BOOLEAN,
     orders_today        : Nat]

\* Mutant: boot does not ask the ledger for the ids it knows.
RebootedBlank(ids) ==
    [seen                |-> {},
     consecutive_rejects |-> 0,
     breaker_tripped     |-> FALSE,
     orders_today        |-> 0]

\* A gateway just built, then told by remember() of the ids in the ledger.
Rebooted(ids) ==
    [seen                |-> ids,
     consecutive_rejects |-> 0,
     breaker_tripped     |-> FALSE,
     orders_today        |-> 0]

\* Mutant: no idempotency check.
NeverDuplicate(g, id) == FALSE

Duplicate(g, id) == id \in g.seen

\* Mutant: an id is not remembered until a restart reads it from the ledger.
SeeNothing(g, id) == g

See(g, id) == [g EXCEPT !.seen = @ \cup {id}]

\* Every reject but a duplicate counts towards the breaker.
Reject(g) ==
    [g EXCEPT !.consecutive_rejects = @ + 1,
              !.breaker_tripped     = @ \/ g.consecutive_rejects + 1 >= BreakerCap]

\* A fill, on paper or at the broker.
Filled(g) ==
    [g EXCEPT !.consecutive_rejects = 0, !.orders_today = @ + 1]

\* SHADOW_OK: nothing was placed, but the streak is over.
ShadowOk(g) == [g EXCEPT !.consecutive_rejects = 0]

ResetBreaker(g) ==
    [g EXCEPT !.consecutive_rejects = 0, !.breaker_tripped = FALSE]

\* check_live_caps for an entry: the breaker, the open positions the caller
\* counted, the day's orders.  The other caps (segment, index, cut-off time,
\* day loss, notional) depend on the one order only; "ok" stands for them.
CapsAllow(g, open, ok) ==
    /\ ~g.breaker_tripped
    /\ open < MaxOpenLive
    /\ g.orders_today < MaxOrdersPerDay
    /\ ok

=============================================================================
