------------------------------ MODULE MCMarket ------------------------------
(* The socket's subscriptions and the login behind them share nothing that Feed  *)
(* does not take as it comes: one run checks both, each from its own initial     *)
(* states, while the other stands still. Two contracts and the archive's pinned  *)
(* one; two callers around one midnight.                                         *)
EXTENDS Session

CONSTANTS Codes, Pinned, Leg, DepthCap, MaxWatched, MaxCuts, MaxMoves

VARIABLES part,
          loop, socket, today, socketDay, expires, desired, venue, out, following,
          watched, open, sync, entry, cuts, moves

MCLeg == [c \in Codes |-> IF c = 2 THEN {1} ELSE {}]

Socket == INSTANCE Feed

ASSUME MarketAssumption == SessionAssumptions /\ Socket!FeedAssumptions

socketVars == <<loop, socket, today, socketDay, expires, desired, venue, out, following,
                watched, open, sync, entry, cuts, moves>>

Standing == loop = "token" /\ open = {} /\ today = 0 /\ socket = 0

MCInit ==
  /\ part \in {"feed", "session"}
  /\ Init /\ Socket!Init
  /\ part # "feed" => Standing
  /\ part # "session" => ipKnown

MCNext ==
  /\ UNCHANGED part
  /\ \/ part = "feed" /\ Socket!Next /\ UNCHANGED vars
     \/ part = "session" /\ Next /\ UNCHANGED socketVars

\* Feed's fairness binds the behaviours of the feed only: the login never takes its steps.
MCSpec == MCInit /\ [][MCNext]_<<part, vars, socketVars>> /\ Socket!Fairness

\* Of Feed.
SubscriptionsSurvive == Socket!SubscriptionsSurvive
DepthConverges == Socket!DepthConverges

=============================================================================
