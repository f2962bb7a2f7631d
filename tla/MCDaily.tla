------------------------------- MODULE MCDaily -------------------------------
(* The daily series of two names over two days and one restart.                  *)
EXTENDS Naturals

CONSTANTS Count, Watched, Batch, MinBars, PerWeek, First, Final, Filed, Unfiled, Stops, Nothing

VARIABLES date, phase, traded, up, stops, ear, series, file, zone, lastDay, slots, due, failed,
          confirmed, job

Pivots == INSTANCE Daily WITH today <- date, None <- Nothing

ASSUME DailyAssumed == Pivots!DailyAssumptions

DailySpec == Pivots!Spec

\* Of Daily.
LevelsAreTheBrokers == Pivots!LevelsAreTheBrokers
Heals == Pivots!Heals
MarkedNamesAreAsked == Pivots!MarkedNamesAreAsked

=============================================================================
