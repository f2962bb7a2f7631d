-------------------------------- MODULE Feed --------------------------------
(* The socket to the broker (venue/fivepaisa/ws.py) and who is subscribed to    *)
(* order books on it: the tape's watches (ops/tape.py), Engine._follow_depth    *)
(* before an order and Engine._sync_depth every second. One channel, "md".      *)
(*                                                                              *)
(* An action is what runs between two awaits; a subscription goes out one frame *)
(* at a time, and the tasks that send them interleave. A frame carries one      *)
(* contract.                                                                    *)
EXTENDS Integers, Sequences, FiniteSets

CONSTANTS
  Codes,       \* contracts
  Pinned,      \* the archive's sample, subscribed at boot and never dropped
  Leg,         \* contract -> the underlying's own legs
  DepthCap,    \* depth_max_subscriptions
  MaxWatched,  \* ceiling on the tape's candidates
  MaxCuts,     \* bound: times the connection is lost
  MaxMoves,    \* bound: contracts looked at, bought and sold
  None

FeedAssumptions ==
  /\ Codes \subseteq Nat /\ IsFiniteSet(Codes) /\ Pinned \subseteq Codes
  /\ Leg \in [Codes -> SUBSET Codes]
  /\ {DepthCap, MaxWatched, MaxCuts, MaxMoves} \subseteq Nat
  /\ None \notin [code : Codes, passed : BOOLEAN]

VARIABLES
  loop,       \* where FivePaisaFeed.run is
  socket,     \* number of the connection, counted from 1
  today,      \* the day, and with it the tokens the broker still takes
  socketDay,  \* the day of the token the socket was opened with
  expires,    \* token_expires_at, as a day
  desired,    \* _desired["md"]
  venue,      \* what the broker streams on the present connection
  out,        \* task -> the frames it still has to send, and on which connection
  following,  \* _depth_following
  watched,    \* the tape's watches
  open,       \* contracts of open positions
  sync,       \* what the pass of _sync_depth under way adds and drops
  entry,      \* the contract a decision task is following, and whether a pass began since
  cuts, moves

vars == <<loop, socket, today, socketDay, expires, desired, venue, out, following,
          watched, open, sync, entry, cuts, moves>>

Tasks == {"feed", "clock", "decision"}

Frame == [op : {"s", "u"}, code : Codes]

Up == loop \in {"greet", "reading"}

-----------------------------------------------------------------------------
(* subscribe, unsubscribe and _send_batched *)

Ascending(S) == [i \in 1..Cardinality(S) |-> CHOOSE c \in S : Cardinality({d \in S : d < c}) = i - 1]

Frames(op, S) == [i \in 1..Cardinality(S) |-> [op |-> op, code |-> Ascending(S)[i]]]

\* Sent only while there is a socket; the desired state is recorded in any case.
Sending(task, op, S) ==
  IF Up /\ S # {} THEN [out EXCEPT ![task] = [on |-> socket, todo |-> Frames(op, S)]] ELSE out

Busy(task) == out[task].todo # <<>>

\* One frame. A send on a socket that is gone raises, and the rest is not sent.
SendFrame(task) ==
  /\ Busy(task)
  /\ LET frame == Head(out[task].todo) IN
     IF Up /\ out[task].on = socket
       THEN /\ out' = [out EXCEPT ![task].todo = Tail(@)]
            /\ venue' = IF frame.op = "s" THEN venue \union {frame.code} ELSE venue \ {frame.code}
       ELSE /\ out' = [out EXCEPT ![task].todo = <<>>]
            /\ UNCHANGED venue
  /\ UNCHANGED <<loop, socket, today, socketDay, expires, desired, following, watched,
                 open, sync, entry, cuts, moves>>

-----------------------------------------------------------------------------
(* FivePaisaFeed.run *)

\* Mutant: the expiry of the token is not noted.
ExpiryForgotten == None

\* token_expires_at = session.expires_at
ExpiryNoted == today

\* auth.token() gives a session of today. A login that fails is tried again.
TokenTaken ==
  /\ loop = "token"
  /\ loop' = "connect" /\ socketDay' = today /\ expires' = ExpiryNoted
  /\ UNCHANGED <<socket, today, desired, venue, out, following, watched, open, sync, entry, cuts, moves>>

Connected ==
  /\ loop = "connect"
  /\ loop' = "greet" /\ socket' = socket + 1 /\ venue' = {}
  /\ UNCHANGED <<today, socketDay, expires, desired, out, following, watched, open, sync, entry, cuts, moves>>

\* Mutant: only the archive's sample is subscribed again.
RestoredAtBoot == Pinned

\* Everything desired is subscribed again, as the map is when its turn comes.
Restored == desired

Resubscribe ==
  /\ loop = "greet" /\ ~Busy("feed")
  /\ loop' = "reading"
  /\ out' = Sending("feed", "s", Restored)
  /\ UNCHANGED <<socket, today, socketDay, expires, desired, venue, following, watched,
                 open, sync, entry, cuts, moves>>

Disconnected ==
  /\ loop' = "token" /\ venue' = {}
  /\ UNCHANGED <<socket, today, socketDay, desired, out, following, watched, open, sync, entry, moves>>

\* The connection is lost, or never comes about.
ConnectionLost ==
  /\ loop \in {"connect", "greet", "reading"} /\ cuts < MaxCuts
  /\ cuts' = cuts + 1
  /\ Disconnected /\ UNCHANGED expires

\* Engine._housekeeping: a socket on a dead token is closed; run connects again.
Reconnect ==
  /\ Up /\ expires # None /\ expires < today
  /\ expires' = None
  /\ Disconnected /\ UNCHANGED cuts

Midnight ==
  /\ today = 0 /\ today' = 1
  /\ UNCHANGED <<loop, socket, socketDay, expires, desired, venue, out, following,
                 watched, open, sync, entry, cuts, moves>>

-----------------------------------------------------------------------------
(* Engine.depth_wanted, _sync_depth and _follow_depth *)

Lowest(n, S) == {c \in S : Cardinality({d \in S : d < c}) < n}

Wanted(w) == Lowest(DepthCap, open \union w \union UNION {Leg[c] : c \in w})

\* Following is what it is when the frames are out, not what it was before.
Finished(f, add, drop) == (f \union add) \ drop

NoSync == [stage |-> "idle", add |-> {}, drop |-> {}]

\* unsubscribe(drop), at once or by frames, and the end of the pass.
Dropping(D, add, drop) ==
  LET gone == D \intersect drop IN
  /\ desired' = D \ gone
  /\ IF Up /\ gone # {}
       THEN /\ out' = Sending("clock", "u", gone)
            /\ sync' = [stage |-> "dropping", add |-> add, drop |-> drop]
            /\ UNCHANGED following
       ELSE /\ following' = Finished(following, add, drop)
            /\ sync' = NoSync
            /\ UNCHANGED out

\* Tape.sample pins what is open and lets watches lapse (not one renewed a moment
\* ago, CANDIDATE_TTL_S is half an hour); then the pass begins. Passes are a second
\* apart and a subscription's frames 50 ms, so at most one begins while a decision
\* task is sending.
SyncDepth(lapsed) ==
  LET w == (watched \union open) \ lapsed
      add == Wanted(w) \ following
      drop == (following \ Wanted(w)) \ Pinned
      fresh == add \ desired
  IN
  /\ sync.stage = "idle"
  /\ IF entry = None THEN UNCHANGED entry
     ELSE ~entry.passed /\ entry' = [entry EXCEPT !.passed = TRUE]
  /\ lapsed \subseteq watched \ (open \union IF entry = None THEN {} ELSE {entry.code})
  /\ watched' = w
  /\ IF add = {} /\ drop = {} THEN UNCHANGED <<desired, out, following, sync>>
     ELSE IF Up /\ fresh # {}
       THEN /\ desired' = desired \union fresh
            /\ out' = Sending("clock", "s", fresh)
            /\ sync' = [stage |-> "adding", add |-> add, drop |-> drop]
            /\ UNCHANGED following
       ELSE Dropping(desired \union fresh, add, drop)
  /\ UNCHANGED <<loop, socket, today, socketDay, expires, venue, open, cuts, moves>>

SyncAdded ==
  /\ sync.stage = "adding" /\ ~Busy("clock")
  /\ Dropping(desired, sync.add, sync.drop)
  /\ UNCHANGED <<loop, socket, today, socketDay, expires, venue, watched, open, entry, cuts, moves>>

SyncDropped ==
  /\ sync.stage = "dropping" /\ ~Busy("clock")
  /\ following' = Finished(following, sync.add, sync.drop)
  /\ sync' = NoSync
  /\ UNCHANGED <<loop, socket, today, socketDay, expires, desired, venue, out, watched,
                 open, entry, cuts, moves>>

\* A decision task looks at a contract: the tape is told first, then the feed.
FollowDepth(c) ==
  /\ moves < MaxMoves /\ entry = None
  /\ moves' = moves + 1
  /\ watched' = IF Cardinality(watched) < MaxWatched THEN watched \union {c} ELSE watched
  /\ IF c \in following THEN UNCHANGED <<desired, out, following, entry>>
     ELSE IF Up /\ c \notin desired
       THEN /\ desired' = desired \union {c}
            /\ out' = Sending("decision", "s", {c})
            /\ entry' = [code |-> c, passed |-> FALSE]
            /\ UNCHANGED following
       ELSE /\ desired' = desired \union {c}
            /\ following' = following \union {c}
            /\ UNCHANGED <<out, entry>>
  /\ UNCHANGED <<loop, socket, today, socketDay, expires, venue, open, sync, cuts>>

Followed ==
  /\ entry # None /\ ~Busy("decision")
  /\ following' = following \union {entry.code}
  /\ entry' = None
  /\ UNCHANGED <<loop, socket, today, socketDay, expires, desired, venue, out, watched,
                 open, sync, cuts, moves>>

\* The position on a contract that was looked at opens, and one closes.
Buys(c) ==
  /\ moves < MaxMoves /\ c \in following \ open
  /\ moves' = moves + 1 /\ open' = open \union {c}
  /\ UNCHANGED <<loop, socket, today, socketDay, expires, desired, venue, out, following,
                 watched, sync, entry, cuts>>

Sells(c) ==
  /\ moves < MaxMoves /\ c \in open
  /\ moves' = moves + 1 /\ open' = open \ {c}
  /\ UNCHANGED <<loop, socket, today, socketDay, expires, desired, venue, out, following,
                 watched, sync, entry, cuts>>

-----------------------------------------------------------------------------

\* _boot_market, before the feed task runs: the sample and the restored positions.
Init ==
  /\ loop = "token" /\ socket = 0 /\ today = 0 /\ socketDay = 0 /\ expires = None
  /\ open \in SUBSET Codes
  /\ watched = open
  /\ desired = Pinned \union open /\ following = Pinned \union open
  /\ venue = {}
  /\ out = [t \in Tasks |-> [on |-> 0, todo |-> <<>>]]
  /\ sync = NoSync /\ entry = None /\ cuts = 0 /\ moves = 0

Next ==
  \/ TokenTaken \/ Connected \/ Resubscribe \/ ConnectionLost \/ Reconnect \/ Midnight
  \/ \E t \in Tasks : SendFrame(t)
  \/ \E lapsed \in SUBSET Codes : SyncDepth(lapsed)
  \/ SyncAdded \/ SyncDropped
  \/ \E c \in Codes : FollowDepth(c) \/ Buys(c) \/ Sells(c)
  \/ Followed

Sync == (\E lapsed \in SUBSET Codes : SyncDepth(lapsed)) \/ SyncAdded \/ SyncDropped

\* The feed's loop, the clock, housekeeping and every task that has a frame to
\* send go on; nothing is owed by the connection or the market.
Fairness ==
  /\ WF_vars(TokenTaken \/ Connected \/ Resubscribe)
  /\ WF_vars(Reconnect)
  /\ WF_vars(Sync)
  /\ WF_vars(Followed)
  /\ \A t \in Tasks : WF_vars(SendFrame(t))

Spec == Init /\ [][Next]_vars /\ Fairness

-----------------------------------------------------------------------------

\* "resubscribed from the desired-state map on every reconnect" (ws.py): however a
\* reconnect and the tasks that send interleave, once nobody has anything left to
\* send the broker streams everything that is desired.
SubscriptionsSurvive ==
  loop = "reading" /\ (\A t \in Tasks : ~Busy(t)) => desired \subseteq venue

\* What reaches us: a socket on a token of yesterday looks alive and is silent.
Streamed == IF Up /\ socketDay = today THEN venue ELSE {}

\* The contracts something prices against end up streaming, through losses of the
\* connection, the token's expiry, watches that lapse and positions that open while
\* a pass is under way (Engine._sync_depth, Engine._housekeeping).
DepthConverges == <>[](Wanted(watched) \subseteq Streamed)

=============================================================================
