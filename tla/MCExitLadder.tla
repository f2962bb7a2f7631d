---------------------------- MODULE MCExitLadder ----------------------------
(***************************************************************************)
(* ExitLadder with the books of limits.py on a small contract; and Bars,   *)
(* one symbol over two days of two units of session and one of night, with *)
(* a fine frame of one unit, a decision frame of two, and the day.  The    *)
(* bars never reach an exit: one run checks both, each from its own        *)
(* initial states, while the other stands still.                           *)
(***************************************************************************)
EXTENDS ExitLadder

CONSTANTS Step, DecisionTf, SweepTf, DaySpan, Close, Horizon, MaxTrades, MaxCuts, MaxBars, Prices, None

VARIABLES part,
          now, tape, resend, cuts, seen, joined, st, forming, closed, tasks, sweep, touched, official

MCStep == [f \in {"1m", "30m"} |-> IF f = "1m" THEN 1 ELSE 2]

Series == INSTANCE Bars

ASSUME BarsAreAssumed == Series!BarsAssumptions

seriesVars == <<now, tape, resend, cuts, seen, joined, st, forming, closed, tasks, sweep,
                touched, official>>

Base == [own |-> FALSE, sustain |-> 1, dwell |-> 1, immediate |-> FALSE, lag |-> FALSE,
         band |-> "through", lineSustain |-> FALSE]
RTX  == [Base EXCEPT !.own = TRUE, !.sustain = 2]
RTN  == [RTX EXCEPT !.dwell = 2, !.immediate = TRUE, !.band = "dwell"]
RTY  == [RTX EXCEPT !.lag = TRUE, !.band = "sustain", !.lineSustain = TRUE]

MCPolicies == {Base, RTX, RTN, RTY}
MCRungs  == <<120, 140>>
MCShares == <<40, 60>>

At(ltp, mid) ==
    [ltp |-> ltp, mid |-> mid, quote |-> "fresh", underlying |-> "between", give |-> 10,
     projected |-> Off, newMinute |-> TRUE, closing |-> "no"]

\* The last trade and the mid together, at each level the rules compare with.
Levels == {At(p, p) : p \in {70, 84, 100, 105, 120, 140}}

MCViews ==
    Levels
    \cup {[At(p, p) EXCEPT !.closing = "EOD"] : p \in {84, 105, 140}}
    \cup {At(84, 105), At(105, 84)}
    \cup {[At(p, p) EXCEPT !.quote = "stale", !.closing = "HALT"] : p \in {84, 105}}
    \cup {[At(84, 84) EXCEPT !.quote = "never"]}
    \cup {[At(p, p) EXCEPT !.underlying = "stopped"] : p \in {84, 105}}
    \cup {[At(p, p) EXCEPT !.underlying = "at T1"] : p \in {105, 120}}
    \cup {[At(p, p) EXCEPT !.projected = 80] : p \in {84, 105}}
    \cup {[At(120, 120) EXCEPT !.newMinute = FALSE]}
    \cup {[At(105, 105) EXCEPT !.closing = "TIME_STOP", !.give = 20]}

\* Bound: of the two prices, the first trade is at the lower.
FirstIsLower == tape = <<>> \/ tape[1].p = 1

MCInit ==
    /\ part \in {"ladder", "series"}
    /\ Init /\ Series!Init /\ FirstIsLower
    /\ IF part = "ladder" THEN tape = <<>> ELSE lim = Base

MCNext ==
    /\ UNCHANGED part
    /\ \/ part = "ladder" /\ Next /\ UNCHANGED seriesVars
       \/ part = "series" /\ Series!Next /\ FirstIsLower' /\ UNCHANGED vars

MCSpec == MCInit /\ [][MCNext]_<<part, vars, seriesVars>>

\* Of Bars.
DecidesOnTheExchangesBar == Series!DecidesOnTheExchangesBar
VolumeIsCountedOnce == Series!VolumeIsCountedOnce

=============================================================================
