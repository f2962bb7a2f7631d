------------------------------ MODULE MCControl ------------------------------
(* The controls, the days of a purse and the decisions of a strategy share nothing:  *)
(* one run checks the three, each from its own initial states, while the others     *)
(* stand still.                                                                      *)
EXTENDS Control, Sequences

CONSTANTS DailyLossPct, MaxDrawdownPct, Initial, Outlay, Results, MaxDay, MaxTrades, MaxResets,
          MaxCrashes,
          BarLength, Ttl, MinBars, AvgBars, Multiplier, Floor, Volumes, MaxDecisions, MaxSilent, MaxAgain

VARIABLES part, day, running, born, lastDay, purse, replaced, stored, entry, position, saved, reset,
          trades, resets, crashes, trippedOn,
          hist, due, parked, decisions, silent, upsets, redone, spoken

Days == INSTANCE PurseDay WITH up <- running
Strategy == INSTANCE Decision WITH troubles <- upsets

ASSUME ControlRunAssumption ==
  Days!PurseDayAssumptions /\ Strategy!DecisionAssumptions

dayVars == <<day, running, born, lastDay, purse, replaced, stored, entry, position, saved, reset,
             trades, resets, crashes, trippedOn>>
strategyVars == <<hist, due, parked, decisions, silent, upsets, redone, spoken>>

\* The second position is a mirror of the first.
MCParentOf == [q \in {2} |-> 1]
MCContract == [p \in Ids |-> 1]
MCResults == {-4, 3}

MCInit ==
  /\ part \in {"control", "days", "strategy"}
  /\ Init /\ Days!Init /\ Strategy!Init
  /\ part # "strategy" => Len(hist) = MinBars

MCNext ==
  /\ UNCHANGED part
  /\ \/ part = "control" /\ Next /\ UNCHANGED <<dayVars, strategyVars>>
     \/ part = "days" /\ Days!Next /\ UNCHANGED <<vars, strategyVars>>
     \/ part = "strategy" /\ Strategy!Next /\ UNCHANGED <<vars, dayVars>>

MCSpec == MCInit /\ [][MCNext]_<<part, vars, dayVars, strategyVars>>

\* Of PurseDay and of Decision.
MidnightLiftsHalt == Days!MidnightLiftsHalt
DailyLossEndsWithItsDay == Days!DailyLossEndsWithItsDay
OneSignalPerTrigger == Strategy!OneSignalPerTrigger

=============================================================================
