---------------------------- MODULE SessionProofs ----------------------------
(* Proofs about Session, Feed and Daily, for any values of their constants that   *)
(* they assume; MCMarket names the instance of Feed, Socket, and MCDaily that of   *)
(* Daily, Pivots.                                                                 *)
EXTENDS MCMarket, MCDaily, Sequences, FiniteSetTheorems, WellFoundedInduction, TLAPS

-----------------------------------------------------------------------------
(* No one-time code is presented twice, for any number of callers, any length of *)
(* a window and any troubles.  What the login remembers is one window, the last  *)
(* it used; the argument is that the windows it chooses only grow, so that every *)
(* code the broker took and the login knows of lies at or before that window,    *)
(* and the code presented now lies after it.  It needs the lock: of the callers  *)
(* that are logging in there is one, so nobody else moves the choice.            *)

LoggingIn(c) == task[c].at \in {"window", "ip", "totp", "access"}
Choosing(c) == task[c].at \in {"ip", "totp"}

TypesOK ==
  /\ now \in Nat /\ login \in [window : Nat, code : Nat, since : Nat]
  /\ DOMAIN task = Callers /\ \A c \in Callers : "at" \in DOMAIN task[c]

Locked == \A c \in Callers : LoggingIn(c) => holder = c

\* The window used last is not in the future,
Dated == used # None => used \in Nat /\ used <= WindowOf(now)

\* the one chosen now is after it, and the code is of that window or of a later one;
Chosen ==
  \A c \in Callers : Choosing(c) =>
    /\ login.window <= login.code /\ login.code <= WindowOf(now)
    /\ used # None => used < login.window

\* a code the broker took and the login knows of is not after it.
Spent == \A k \in taken \ excused : k \in Nat /\ used # None /\ k <= used

Safe == TypesOK /\ Locked /\ Dated /\ Chosen /\ Spent

-----------------------------------------------------------------------------

\* Windows are numbered, and their numbers only grow.
LEMMA WindowsGrow ==
  ASSUME SessionAssumptions, NEW t \in Nat
  PROVE  WindowOf(t) \in Nat /\ WindowOf(t + 1) \in Nat /\ WindowOf(t) <= WindowOf(t + 1)
<1>1. Window \in Nat /\ Window > 0
  BY DEF SessionAssumptions
<1>2. \A n \in Nat, w \in Nat : w > 0 => n \div w \in Nat /\ (n + 1) \div w \in Nat /\ n \div w <= (n + 1) \div w
  BY Z3
<1>. QED  BY <1>1, <1>2 DEF WindowOf

LEMMA SafeInit == Init => Safe
<1>1. SUFFICES ASSUME Init
               PROVE  Safe
  OBVIOUS
<1>2. \A c \in Callers : task[c] = Idle
  BY <1>1 DEF Init
<1>3. TypesOK
  BY <1>1, <1>2 DEF Init, TypesOK, Idle
<1>4. Locked /\ Chosen
  BY <1>2 DEF Locked, Chosen, LoggingIn, Choosing, Idle
<1>5. Dated /\ Spent
  BY <1>1 DEF Init, Dated, Spent
<1>. QED  BY <1>3, <1>4, <1>5 DEF Safe

\* A step of one caller: where it goes, and that the others stay where they are.
Moves(c, stage) ==
  /\ DOMAIN task' = Callers /\ \A d \in Callers : "at" \in DOMAIN task'[d]
  /\ task'[c].at = stage
  /\ \A d \in Callers \ {c} : task'[d].at = task[d].at

LEMMA Goes_Moves ==
  ASSUME TypesOK, NEW c \in Callers, NEW stage,
         \/ Goes(c, stage)
         \/ \E s : task' = [task EXCEPT ![c].at = stage, ![c].with = s]
         \/ \E t : t.at = stage /\ "at" \in DOMAIN t /\ task' = [task EXCEPT ![c] = t]
  PROVE  Moves(c, stage)
<1>1. CASE Goes(c, stage)
  BY <1>1 DEF TypesOK, Goes, Moves
<1>2. ASSUME NEW s, task' = [task EXCEPT ![c].at = stage, ![c].with = s]
      PROVE  Moves(c, stage)
  BY <1>2 DEF TypesOK, Moves
<1>3. ASSUME NEW t, t.at = stage, "at" \in DOMAIN t, task' = [task EXCEPT ![c] = t]
      PROVE  Moves(c, stage)
  BY <1>3 DEF TypesOK, Moves
<1>. QED  BY <1>1, <1>2, <1>3

LEMMA Alone ==
  ASSUME SessionAssumptions, Safe, NEW c \in Callers, LoggingIn(c)
  PROVE  holder = c /\ \A d \in Callers \ {c} : ~LoggingIn(d)
  BY DEF Safe, Locked

\* A caller that is not logging in after its step has let the lock go, or never had it.
LEMMA Leaves ==
  ASSUME SessionAssumptions, Safe, NEW c \in Callers, NEW stage \in {"idle", "lock", "call"},
         Moves(c, stage), holder' = IF LoggingIn(c) THEN None ELSE holder,
         UNCHANGED <<now, login, used>>, taken' \ excused' \subseteq taken \ excused
  PROVE  Safe'
<1>1. \A d \in Callers : LoggingIn(d)' => d # c /\ LoggingIn(d)
  BY DEF Moves, LoggingIn
<1>2. \A d \in Callers : Choosing(d)' => Choosing(d)
  BY DEF Moves, Choosing
<1>3. TypesOK'
  BY DEF Safe, TypesOK, Moves
<1>4. Locked'
  <2>1. SUFFICES ASSUME NEW d \in Callers, LoggingIn(d)'
                 PROVE  holder' = d
    BY DEF Locked
  <2>2. d # c /\ LoggingIn(d) /\ holder = d
    BY <1>1, <2>1 DEF Safe, Locked
  <2>3. ~LoggingIn(c)
    BY <2>2 DEF Safe, Locked
  <2>. QED  BY <2>2, <2>3
<1>5. Dated' /\ Spent'
  BY DEF Safe, Dated, Spent, WindowOf
<1>6. Chosen'
  BY <1>2 DEF Safe, Chosen, WindowOf
<1>. QED  BY <1>3, <1>4, <1>5, <1>6 DEF Safe

\* A caller that goes on logging in is the only one, and keeps the lock.
LEMMA Stays ==
  ASSUME SessionAssumptions, Safe, NEW c \in Callers, LoggingIn(c),
         NEW stage \in {"ip", "totp", "access"}, Moves(c, stage), holder' = holder
  PROVE  Locked' /\ \A d \in Callers : Choosing(d)' => d = c
<1>1. holder = c /\ \A d \in Callers \ {c} : ~LoggingIn(d)
  BY Alone
<1>2. \A d \in Callers \ {c} : ~LoggingIn(d)'
  BY <1>1 DEF Moves, LoggingIn
<1>3. \A d \in Callers : Choosing(d)' => LoggingIn(d)'
  BY DEF Choosing, LoggingIn
<1>. QED  BY <1>1, <1>2, <1>3 DEF Locked

LEMMA EnterSteps ==
  ASSUME SessionAssumptions, Safe, NEW c \in Callers, Enter(c)
  PROVE  Safe'
<1>1. /\ holder = None /\ task[c].at = "lock"
      /\ UNCHANGED <<now, login, used, taken, excused>>
  BY DEF Enter
<1>2. CASE Usable(session)
  <2>1. task' = [task EXCEPT ![c].at = "call", ![c].with = session] /\ holder' = holder
    BY <1>2 DEF Enter
  <2>2. Moves(c, "call")
    BY <2>1, Goes_Moves DEF Safe
  <2>3. ~LoggingIn(c)
    BY <1>1 DEF LoggingIn
  <2>. QED  BY <1>1, <2>1, <2>2, <2>3, Leaves
<1>3. CASE ~Usable(session)
  <2>1. Goes(c, "window") /\ holder' = c
    BY <1>3 DEF Enter
  <2>2. Moves(c, "window")
    BY <2>1, Goes_Moves DEF Safe
  <2>3. \A d \in Callers : ~LoggingIn(d)
    BY <1>1 DEF Safe, Locked, SessionAssumptions
  <2>4. Locked' /\ Chosen'
    <3>1. \A d \in Callers \ {c} : ~LoggingIn(d)'
      BY <2>2, <2>3 DEF Moves, LoggingIn
    <3>2. \A d \in Callers : ~Choosing(d)'
      BY <2>2, <3>1 DEF Moves, LoggingIn, Choosing
    <3>. QED  BY <2>1, <3>1, <3>2 DEF Locked, Chosen
  <2>5. TypesOK' /\ Dated' /\ Spent'
    BY <1>1, <2>2 DEF Safe, TypesOK, Moves, Dated, Spent, WindowOf
  <2>. QED  BY <2>4, <2>5 DEF Safe
<1>. QED  BY <1>2, <1>3

\* The new window is not the one used last, which is not in the future: it is after it.
LEMMA ChooseSteps ==
  ASSUME SessionAssumptions, Safe, NEW c \in Callers, ChooseWindow(c)
  PROVE  Safe'
<1> DEFINE w == WindowOf(now)
<1>1. w \in Nat /\ now \in Nat
  BY WindowsGrow DEF Safe, TypesOK
<1>2. /\ LoggingIn(c) /\ w # used
      /\ login' = [window |-> w, code |-> w, since |-> now]
      /\ UNCHANGED <<now, holder, used, taken, excused>>
  BY DEF ChooseWindow, LoggingIn, MayUse
<1>3. PICK stage \in {"ip", "totp"} : Moves(c, stage)
  BY Goes_Moves DEF ChooseWindow, Safe
<1>4. Locked' /\ \A d \in Callers : Choosing(d)' => d = c
  BY <1>2, <1>3, Stays
<1>5. /\ login'.window = w /\ login'.code = w /\ WindowOf(now)' = w
      /\ used' # None => used' < w
  BY <1>1, <1>2 DEF Safe, Dated, WindowOf
<1> HIDE DEF w
<1>6. Chosen'
  BY <1>1, <1>5 DEF Chosen
<1>7. TypesOK' /\ Dated' /\ Spent'
  BY <1>1, <1>2, <1>3 DEF Safe, TypesOK, Moves, Dated, Spent, WindowOf
<1>. QED  BY <1>4, <1>6, <1>7 DEF Safe

\* The lookup may run into a later window; the code is of that one.
LEMMA LearnSteps ==
  ASSUME SessionAssumptions, Safe, NEW c \in Callers, LearnIp(c)
  PROVE  Safe'
<1> DEFINE w == WindowOf(now)
<1>1. w \in Nat /\ now \in Nat /\ login \in [window : Nat, code : Nat, since : Nat]
  BY WindowsGrow DEF Safe, TypesOK
<1>2. /\ LoggingIn(c) /\ Choosing(c)
      /\ login' = [login EXCEPT !.code = w, !.since = now]
      /\ UNCHANGED <<now, holder, used, taken, excused>>
  BY DEF LearnIp, LoggingIn, Choosing
<1>3. Moves(c, "totp")
  BY Goes_Moves DEF LearnIp, Safe
<1>4. Locked' /\ \A d \in Callers : Choosing(d)' => d = c
  BY <1>2, <1>3, Stays
<1>5. login'.window = login.window /\ login'.code = w /\ WindowOf(now)' = w
      /\ login' \in [window : Nat, code : Nat, since : Nat]
  BY <1>1, <1>2 DEF WindowOf
<1>6. login.window <= w /\ (used' # None => used' < login.window)
  <2>1. login.window <= login.code /\ login.code <= w /\ (used # None => used < login.window)
    BY <1>2 DEF Safe, Chosen
  <2>. QED  BY <1>1, <1>2, <2>1
<1> HIDE DEF w
<1>7. Chosen'
  BY <1>1, <1>5, <1>6 DEF Chosen
<1>8. TypesOK' /\ Dated' /\ Spent'
  BY <1>1, <1>2, <1>3, <1>5 DEF Safe, TypesOK, Moves, Dated, Spent, WindowOf
<1>. QED  BY <1>4, <1>7, <1>8 DEF Safe

\* The window is used; a code of another window is excused.
LEMMA AcceptedSteps ==
  ASSUME SessionAssumptions, Safe, NEW c \in Callers, TotpAccepted(c)
  PROVE  Safe'
<1>1. /\ LoggingIn(c) /\ Choosing(c)
      /\ taken' = taken \union {login.code} /\ used' = login.window
      /\ excused' = IF login.window = login.code THEN excused ELSE excused \union {login.code}
      /\ login' = [login EXCEPT !.since = now]
      /\ UNCHANGED <<now, holder>>
  BY DEF TotpAccepted, LoggingIn, Choosing
<1>2. now \in Nat /\ login \in [window : Nat, code : Nat, since : Nat] /\ WindowOf(now) \in Nat
  BY WindowsGrow DEF Safe, TypesOK
<1>3. Moves(c, "access")
  BY Goes_Moves DEF TotpAccepted, Safe
<1>4. Locked' /\ Chosen'
  <2>1. Locked' /\ \A d \in Callers : Choosing(d)' => d = c
    BY <1>1, <1>3, Stays
  <2>2. ~Choosing(c)'
    BY <1>3 DEF Moves, Choosing
  <2>. QED  BY <2>1, <2>2 DEF Chosen
<1>5. login.window <= login.code /\ login.code <= WindowOf(now) /\ (used # None => used < login.window)
  BY <1>1 DEF Safe, Chosen
<1>6. Dated'
  <2>1. WindowOf(now)' = WindowOf(now)
    BY <1>1 DEF WindowOf
  <2>. QED  BY <1>1, <1>2, <1>5, <2>1 DEF Dated
<1>7. Spent'
  <2>1. SUFFICES ASSUME NEW k \in taken' \ excused'
                 PROVE  k \in Nat /\ used' # None /\ k <= used'
    BY DEF Spent
  <2>2. login.window \in Nat /\ used' # None
    BY <1>1, <1>2 DEF SessionAssumptions
  <2>3. CASE k \in taken \ excused
    <3>1. k \in Nat /\ used # None /\ k <= used /\ used \in Nat
      BY <2>3 DEF Safe, Spent, Dated
    <3>. QED  BY <1>1, <1>5, <2>2, <3>1
  <2>4. CASE k \notin taken \ excused
    <3>1. k = login.code /\ login.window = login.code
      BY <1>1, <2>1, <2>4
    <3>. QED  BY <1>1, <2>2, <3>1
  <2>. QED  BY <2>3, <2>4
<1>8. TypesOK'
  BY <1>1, <1>2, <1>3 DEF Safe, TypesOK, Moves
<1>. QED  BY <1>4, <1>6, <1>7, <1>8 DEF Safe

\* A call that raises lets the lock go.
LEMMA RaisesSteps ==
  ASSUME SessionAssumptions, Safe, NEW c \in Callers, LoggingIn(c), Raises(c),
         UNCHANGED <<now, login, used>>, taken' \ excused' \subseteq taken \ excused
  PROVE  Safe'
<1>1. holder' = None
  BY Alone DEF Raises
<1>2. Moves(c, "idle")
  BY Goes_Moves DEF Raises, Idle, Safe
<1>. QED  BY <1>1, <1>2, Leaves

LEMMA TickSteps ==
  ASSUME SessionAssumptions, Safe, Tick
  PROVE  Safe'
<1>1. now \in Nat /\ now' = now + 1 /\ UNCHANGED <<holder, task, login, used, taken, excused>>
  BY DEF Safe, TypesOK, Tick
<1>2. /\ WindowOf(now) \in Nat /\ WindowOf(now)' \in Nat
      /\ WindowOf(now) <= WindowOf(now)'
  BY <1>1, WindowsGrow DEF WindowOf
<1>3. TypesOK' /\ Locked' /\ Spent'
  BY <1>1 DEF Safe, TypesOK, Locked, LoggingIn, Spent
<1>4. Dated'
  BY <1>1, <1>2 DEF Safe, Dated
<1>5. Chosen'
  <2>1. SUFFICES ASSUME NEW c \in Callers, Choosing(c)'
                 PROVE  /\ login'.window <= login'.code /\ login'.code <= WindowOf(now)'
                        /\ used' # None => used' < login'.window
    BY DEF Chosen
  <2>2. Choosing(c)
    BY <1>1, <2>1 DEF Choosing
  <2>3. login.window \in Nat /\ login.code \in Nat /\ login' = login /\ used' = used
    BY <1>1 DEF Safe, TypesOK
  <2>. QED  BY <1>2, <2>2, <2>3 DEF Safe, Chosen
<1>. QED  BY <1>3, <1>4, <1>5 DEF Safe

LEMMA SafeNext == SessionAssumptions /\ Safe /\ [Next]_vars => Safe'
<1>1. SUFFICES ASSUME SessionAssumptions, Safe, [Next]_vars
               PROVE  Safe'
  OBVIOUS
<1>2. ASSUME NEW c \in Callers, Ask(c) \/ CallAnswered(c) \/ CallRejected(c) \/ AccessGranted(c)
      PROVE  Safe'
  <2>1. UNCHANGED <<now, login, used, taken, excused>>
    BY <1>2 DEF Ask, CallAnswered, CallRejected, AccessGranted
  <2>2. CASE Ask(c)
    <3>1. Moves(c, "lock") /\ ~LoggingIn(c) /\ holder' = holder
      BY <1>1, <2>2, Goes_Moves DEF Ask, Safe, LoggingIn
    <3>. QED  BY <1>1, <2>1, <3>1, Leaves
  <2>3. CASE CallAnswered(c)
    <3>1. task' = [task EXCEPT ![c] = Idle] /\ ~LoggingIn(c) /\ holder' = holder
      BY <2>3 DEF CallAnswered, LoggingIn
    <3>2. Moves(c, "idle")
      BY <1>1, <3>1, Goes_Moves DEF Idle, Safe
    <3>. QED  BY <1>1, <2>1, <3>1, <3>2, Leaves
  <2>4. CASE CallRejected(c)
    <3>1. ~LoggingIn(c) /\ holder' = holder
      BY <2>4 DEF CallRejected, LoggingIn
    <3>2. PICK t \in {Idle, [at |-> "lock", retry |-> FALSE, with |-> None]} : task' = [task EXCEPT ![c] = t]
      BY <2>4 DEF CallRejected
    <3>3. t.at \in {"idle", "lock"} /\ "at" \in DOMAIN t
      BY <3>2 DEF Idle
    <3>4. Moves(c, t.at)
      BY <1>1, <3>2, <3>3, Goes_Moves DEF Safe
    <3>. QED  BY <1>1, <2>1, <3>1, <3>3, <3>4, Leaves
  <2>5. CASE AccessGranted(c)
    <3>1. LoggingIn(c) /\ holder' = None
      BY <2>5 DEF AccessGranted, LoggingIn
    <3>2. \E s : task' = [task EXCEPT ![c].at = "call", ![c].with = s]
      BY <2>5 DEF AccessGranted
    <3>3. Moves(c, "call")
      BY <1>1, <3>2, Goes_Moves DEF Safe
    <3>. QED  BY <1>1, <2>1, <3>1, <3>3, Leaves
  <2>. QED  BY <1>2, <2>2, <2>3, <2>4, <2>5
<1>3. ASSUME NEW c \in Callers, IpFails(c) \/ TotpRefused(c) \/ TotpLost(c) \/ AccessFails(c)
      PROVE  Safe'
  <2>1. LoggingIn(c) /\ Raises(c) /\ UNCHANGED <<now, login, used>>
    BY <1>3 DEF IpFails, TotpRefused, TotpLost, AccessFails, LoggingIn
  <2>2. taken' \ excused' \subseteq taken \ excused
    BY <1>3 DEF IpFails, TotpRefused, TotpLost, AccessFails
  <2>. QED  BY <1>1, <2>1, <2>2, RaisesSteps
<1>4. ASSUME NEW c \in Callers, Enter(c) \/ ChooseWindow(c) \/ LearnIp(c) \/ TotpAccepted(c)
      PROVE  Safe'
  BY <1>1, <1>4, EnterSteps, ChooseSteps, LearnSteps, AcceptedSteps
<1>5. CASE Tick
  BY <1>1, <1>5, TickSteps
<1>6. CASE UNCHANGED vars
  BY <1>1, <1>6 DEF vars, Safe, TypesOK, Locked, LoggingIn, Dated, Chosen, Choosing, Spent, WindowOf
<1>. QED  BY <1>1, <1>2, <1>3, <1>4, <1>5, <1>6 DEF Next

(* No login presents a code the broker has taken, unless the answer that said so   *)
(* was lost or the lookup of the address ran into the next window (auth.py, "One   *)
(* TOTP per 30-second window").                                                    *)
THEOREM CodeNotReplayedHolds ==
  ASSUME SessionAssumptions
  PROVE  Spec => []CodeNotReplayed
<1>1. Init => Safe
  BY SafeInit
<1>2. Safe /\ [Next]_vars => Safe'
  BY SafeNext
<1>3. Safe => CodeNotReplayed
  <2>1. SUFFICES ASSUME Safe, NEW c \in Callers, task[c].at = "totp", login.code \in taken \ excused
                 PROVE  FALSE
    BY DEF CodeNotReplayed
  <2>2. /\ used # None /\ login.code <= used /\ used < login.window /\ login.window <= login.code
        /\ used \in Nat /\ login.window \in Nat /\ login.code \in Nat
    BY <2>1 DEF Safe, TypesOK, Spent, Dated, Chosen, Choosing
  <2>. QED  BY <2>2
<1>. QED  BY <1>1, <1>2, <1>3, PTL DEF Spec

-----------------------------------------------------------------------------
(* The subscriptions.  While the socket is read, a desired contract is streamed   *)
(* or has a frame on its way on this very connection; and no frame that takes a   *)
(* contract away is on its way for one that is desired, because it stays among    *)
(* those followed until the last of these frames is out.                          *)

Outbox == [on : Nat, todo : Seq(Socket!Frame)]

SocketTypes ==
  /\ socket \in Nat
  /\ desired \subseteq Codes /\ following \subseteq Codes /\ open \subseteq Codes /\ watched \subseteq Codes
  /\ sync \in [stage : {"idle", "adding", "dropping"}, add : SUBSET Codes, drop : SUBSET Codes]
  /\ entry # None => entry \in [code : Codes, passed : BOOLEAN]
  /\ out \in [Socket!Tasks -> Outbox]

\* Who has what to send.
Subscribing == \A t \in {"feed", "decision"} : \A i \in 1 .. Len(out[t].todo) : out[t].todo[i].op = "s"

Dropped ==
  \A i \in 1 .. Len(out["clock"].todo) :
    out["clock"].todo[i].op = "u" =>
      out["clock"].todo[i].code \in sync.drop /\ out["clock"].todo[i].code \notin desired

Outgoing ==
  /\ \A t \in Socket!Tasks : out[t].on <= socket
  /\ Subscribing /\ Dropped
  /\ sync.stage = "idle" => out["clock"].todo = <<>>
  /\ entry = None => out["decision"].todo = <<>>
  /\ sync.drop \subseteq following

Coming(t, c) ==
  out[t].on = socket /\ \E i \in 1 .. Len(out[t].todo) : out[t].todo[i] = [op |-> "s", code |-> c]

Covered == loop = "reading" => \A c \in desired : c \in venue \/ \E t \in Socket!Tasks : Coming(t, c)

Kept == SocketTypes /\ Outgoing /\ Covered

\* What Feed counts with is what is counted with here.
LEMMA SameSize ==
  /\ \A S : Socket!Cardinality(S) = Cardinality(S)
  /\ \A S : Socket!IsFiniteSet(S) <=> IsFiniteSet(S)
  BY DEF Socket!Cardinality, Cardinality, Socket!IsFiniteSet, IsFiniteSet

LEMMA CodesAreNumbers ==
  /\ Codes \subseteq Nat /\ IsFiniteSet(Codes) /\ Pinned \subseteq Codes
  /\ Leg \in [Codes -> SUBSET Codes] /\ None \notin [code : Codes, passed : BOOLEAN]
<1>1. Socket!FeedAssumptions
  BY MarketAssumption
<1>2. None \notin [code : Codes, passed : BOOLEAN]
  BY ONLY <1>1, Zenon DEF Socket!FeedAssumptions
<1>3. Codes \subseteq Nat
  BY ONLY <1>1, Zenon DEF Socket!FeedAssumptions
<1>4. IsFiniteSet(Codes)
  <2>1. Socket!IsFiniteSet(Codes)
    BY ONLY <1>1, Zenon DEF Socket!FeedAssumptions
  <2>. QED  BY <2>1, SameSize
<1>6. Pinned \subseteq Codes
  BY ONLY <1>1, Zenon DEF Socket!FeedAssumptions
<1>5. Leg \in [Codes -> SUBSET Codes]
  BY ONLY <1>1, Zenon DEF Socket!FeedAssumptions
<1>. QED  BY <1>2, <1>3, <1>4, <1>5, <1>6, Zenon

-----------------------------------------------------------------------------
(* The frames of a set: one for each of its members *)

Below(S, c) == {d \in S : d < c}

LEMMA Ranks ==
  ASSUME NEW S, S \subseteq Nat, IsFiniteSet(S)
  PROVE  /\ \A c \in S : Cardinality(Below(S, c)) \in 0 .. Cardinality(S) - 1
         /\ \A c, e \in S : Cardinality(Below(S, c)) = Cardinality(Below(S, e)) => c = e
<1>1. \A c \in S : /\ IsFiniteSet(Below(S, c)) /\ Cardinality(Below(S, c)) \in Nat
                   /\ Cardinality(Below(S, c)) < Cardinality(S)
  <2> SUFFICES ASSUME NEW c \in S
               PROVE  /\ IsFiniteSet(Below(S, c)) /\ Cardinality(Below(S, c)) \in Nat
                      /\ Cardinality(Below(S, c)) < Cardinality(S)
    OBVIOUS
  <2>1. Below(S, c) \in SUBSET S /\ c \notin Below(S, c)
    BY DEF Below
  <2>2. IsFiniteSet(Below(S, c)) /\ Cardinality(Below(S, c)) <= Cardinality(S)
        /\ Cardinality(Below(S, c)) # Cardinality(S)
    BY <2>1, FS_Subset
  <2>. QED  BY <2>2, FS_CardinalityType
<1>2. ASSUME NEW c \in S, NEW e \in S, c < e
      PROVE  Cardinality(Below(S, c)) < Cardinality(Below(S, e))
  <2>1. \A d \in S : d < c => d < e
    BY <1>2
  <2>2. Below(S, c) \in SUBSET Below(S, e)
    BY <2>1 DEF Below
  <2>3. c \in Below(S, e) /\ c \notin Below(S, c)
    BY <1>2 DEF Below
  <2>4. /\ Cardinality(Below(S, c)) <= Cardinality(Below(S, e))
        /\ Cardinality(Below(S, c)) # Cardinality(Below(S, e))
    BY <1>1, <2>2, <2>3, FS_Subset
  <2>. QED  BY <1>1, <2>4
<1>3. Cardinality(S) \in Nat
  BY FS_CardinalityType
<1>4. \A c, e \in S : c < e \/ e < c \/ c = e
  OBVIOUS
<1>. QED  BY <1>1, <1>2, <1>3, <1>4

LEMMA EveryRankIsTaken ==
  ASSUME NEW S, S \subseteq Nat, IsFiniteSet(S), NEW i \in 0 .. Cardinality(S) - 1
  PROVE  \E c \in S : Cardinality(Below(S, c)) = i
<1> SUFFICES ASSUME \A c \in S : Cardinality(Below(S, c)) # i PROVE FALSE
  OBVIOUS
<1> DEFINE f == [c \in S |-> Cardinality(Below(S, c))]
           T == 0 .. Cardinality(S) - 1
<1>1. Cardinality(S) \in Nat
  BY FS_CardinalityType
<1>2. IsFiniteSet(T) /\ Cardinality(T) = Cardinality(S)
  BY <1>1, FS_Interval
<1>3. IsFiniteSet(T \ {i}) /\ Cardinality(T \ {i}) < Cardinality(S)
  <2>1. i \in T
    OBVIOUS
  <2> HIDE DEF T
  <2>2. IsFiniteSet(T \ {i}) /\ Cardinality(T \ {i}) = Cardinality(T) - 1
    BY <1>2, <2>1, FS_RemoveElement
  <2>. QED  BY <1>1, <1>2, <2>2
<1>4. f \in [S -> T \ {i}]
  BY Ranks
<1>5. PICK c, e \in S : c # e /\ f[c] = f[e]
  <2> HIDE DEF f, T
  <2>. QED  BY <1>3, <1>4, FS_PigeonHole
<1>. QED  BY <1>5, Ranks

LEMMA FramesCover ==
  ASSUME NEW S, S \subseteq Codes, NEW op \in {"s", "u"}, NEW todo, todo = Socket!Frames(op, S)
  PROVE  /\ todo \in Seq(Socket!Frame)
         /\ \A i \in 1 .. Len(todo) : todo[i].op = op /\ todo[i].code \in S
         /\ \A c \in S : \E i \in 1 .. Len(todo) : todo[i] = [op |-> op, code |-> c]
<1>1. S \subseteq Nat /\ IsFiniteSet(S) /\ Cardinality(S) \in Nat
  BY CodesAreNumbers, FS_Subset, FS_CardinalityType
<1> DEFINE n == Cardinality(S)
           At(i) == Socket!Ascending(S)[i]
<1>2. todo = [i \in 1 .. n |-> [op |-> op, code |-> At(i)]]
  BY SameSize DEF Socket!Frames
<1>3. \A i \in 1 .. n : At(i) \in S /\ Cardinality(Below(S, At(i))) = i - 1
  <2> SUFFICES ASSUME NEW i \in 1 .. n PROVE At(i) \in S /\ Cardinality(Below(S, At(i))) = i - 1
    OBVIOUS
  <2>1. i - 1 \in 0 .. n - 1
    BY <1>1
  <2>2. \E c \in S : Cardinality({d \in S : d < c}) = i - 1
    BY <1>1, <2>1, EveryRankIsTaken DEF Below
  <2>3. At(i) = CHOOSE c \in S : Cardinality({d \in S : d < c}) = i - 1
    BY SameSize DEF Socket!Ascending
  <2>. QED  BY <2>2, <2>3 DEF Below
<1> HIDE DEF At
<1>4. \A i \in 1 .. n : [op |-> op, code |-> At(i)] \in Socket!Frame
  BY <1>3 DEF Socket!Frame
<1>5. todo \in Seq(Socket!Frame) /\ Len(todo) = n
  BY <1>1, <1>2, <1>4
<1>6. \A c \in S : \E i \in 1 .. n : At(i) = c
  <2> SUFFICES ASSUME NEW c \in S PROVE \E i \in 1 .. n : At(i) = c
    OBVIOUS
  <2> DEFINE i == Cardinality(Below(S, c)) + 1
  <2>0. Cardinality(Below(S, c)) \in 0 .. n - 1
    BY <1>1, Ranks
  <2>1. i \in 1 .. n /\ i - 1 = Cardinality(Below(S, c))
    BY <1>1, <2>0
  <2> HIDE DEF i
  <2>2. At(i) = c
    BY <1>1, <1>3, <2>1, Ranks
  <2>. QED  BY <2>1, <2>2
<1>7. \A i \in 1 .. n : todo[i] = [op |-> op, code |-> At(i)]
  BY <1>2
<1>8. \A i \in 1 .. n : todo[i].op = op /\ todo[i].code \in S
  <2> SUFFICES ASSUME NEW i \in 1 .. n PROVE todo[i].op = op /\ todo[i].code \in S
    OBVIOUS
  <2>1. todo[i] = [op |-> op, code |-> At(i)] /\ At(i) \in S
    BY <1>3, <1>7
  <2>. QED  BY <2>1
<1>9. \A c \in S : \E i \in 1 .. n : todo[i] = [op |-> op, code |-> c]
  BY <1>6, <1>7
<1>. QED  BY <1>5, <1>8, <1>9

-----------------------------------------------------------------------------
(* The steps *)

LEMMA KeptInit == Socket!Init => Kept
  BY CodesAreNumbers DEF Socket!Init, Kept, SocketTypes, Outgoing, Subscribing, Dropped, Covered, Outbox, Socket!Tasks, Socket!NoSync

\* What a task with nothing left to send puts on its way covers what was covered,
\* and the contracts its frames subscribe.
LEMMA Sends ==
  ASSUME Kept, NEW t \in Socket!Tasks, out[t].todo = <<>>, NEW op \in {"s", "u"}, NEW S, S \subseteq Codes,
         NEW sent, sent = Socket!Sending(t, op, S)
  PROVE  /\ sent \in [Socket!Tasks -> Outbox]
         /\ \A u \in Socket!Tasks : u # t => sent[u] = out[u]
         /\ sent[t].on <= socket
         /\ \A i \in 1 .. Len(sent[t].todo) : sent[t].todo[i].op = op /\ sent[t].todo[i].code \in S
         /\ Socket!Up => \A c \in S :
              sent[t].on = socket /\ \E i \in 1 .. Len(sent[t].todo) : sent[t].todo[i] = [op |-> op, code |-> c]
<1>1. out \in [Socket!Tasks -> Outbox] /\ out[t].on <= socket /\ socket \in Nat
  BY DEF Kept, SocketTypes, Outgoing, Subscribing, Dropped
<1>2. CASE Socket!Up /\ S # {}
  <2> DEFINE todo == Socket!Frames(op, S)
  <2>0. todo = Socket!Frames(op, S)
    OBVIOUS
  <2> HIDE DEF todo
  <2>1. /\ todo \in Seq(Socket!Frame)
        /\ \A i \in 1 .. Len(todo) : todo[i].op = op /\ todo[i].code \in S
        /\ \A c \in S : \E i \in 1 .. Len(todo) : todo[i] = [op |-> op, code |-> c]
    BY <2>0, FramesCover
  <2>2. sent = [out EXCEPT ![t] = [on |-> socket, todo |-> todo]]
    BY <1>2, <2>0 DEF Socket!Sending
  <2>3. [on |-> socket, todo |-> todo] \in Outbox
    BY <1>1, <2>1 DEF Outbox
  <2>. QED  BY <1>1, <2>1, <2>2, <2>3
<1>3. CASE ~(Socket!Up /\ S # {})
  <2>1. sent = out
    BY <1>3 DEF Socket!Sending
  <2>. QED  BY <1>1, <1>3, <2>1
<1>. QED  BY <1>2, <1>3

\* What one task has on its way, another's sending leaves there.
LEMMA StillComing ==
  ASSUME Kept, NEW t \in Socket!Tasks, out[t].todo = <<>>, UNCHANGED <<socket, venue>>,
         \A u \in Socket!Tasks : u # t => out'[u] = out[u], loop = "reading"
  PROVE  \A c \in desired : c \in venue' \/ \E u \in Socket!Tasks : Coming(u, c)'
<1> SUFFICES ASSUME NEW c \in desired, c \notin venue PROVE \E u \in Socket!Tasks : Coming(u, c)'
  OBVIOUS
<1>1. PICK u \in Socket!Tasks : Coming(u, c)
  BY DEF Kept, Covered
<1>2. u # t
  BY <1>1 DEF Coming
<1>. QED  BY <1>1, <1>2 DEF Coming

\* A task has fewer frames than it had, or as many.
LEMMA FramesGo ==
  ASSUME Outgoing, NEW t \in Socket!Tasks, UNCHANGED <<socket, desired, following, sync, entry>>,
         out[t].todo # <<>>,
         out'[t].on = out[t].on, \A u \in Socket!Tasks : u # t => out'[u] = out[u],
         \A i \in 1 .. Len(out'[t].todo) :
           \E j \in 1 .. Len(out[t].todo) : out'[t].todo[i] = out[t].todo[j]
  PROVE  Outgoing'
<1>1. \A u \in Socket!Tasks : out'[u].on <= socket
  BY DEF Outgoing
<1>2. Subscribing'
  <2> SUFFICES ASSUME NEW u \in {"feed", "decision"}, NEW i \in 1 .. Len(out'[u].todo)
               PROVE  out'[u].todo[i].op = "s"
    BY DEF Subscribing
  <2>1. \E j \in 1 .. Len(out[u].todo) : out'[u].todo[i] = out[u].todo[j]
    <3>1. CASE u = t
      BY <3>1
    <3>2. CASE u # t
      <4>1. out'[u] = out[u]
        BY <3>2 DEF Socket!Tasks
      <4>. QED  BY <4>1
    <3>. QED  BY <3>1, <3>2
  <2>. QED  BY <2>1 DEF Outgoing, Subscribing
<1>3. Dropped'
  <2> SUFFICES ASSUME NEW i \in 1 .. Len(out'["clock"].todo), out'["clock"].todo[i].op = "u"
               PROVE  out'["clock"].todo[i].code \in sync.drop /\ out'["clock"].todo[i].code \notin desired
    BY DEF Dropped
  <2>1. \E j \in 1 .. Len(out["clock"].todo) : out'["clock"].todo[i] = out["clock"].todo[j]
    BY DEF Socket!Tasks
  <2>. QED  BY <2>1 DEF Outgoing, Dropped
<1>4. /\ sync.stage = "idle" => out'["clock"].todo = <<>>
      /\ entry = None => out'["decision"].todo = <<>>
  BY DEF Outgoing, Socket!Tasks
<1>. QED  BY <1>1, <1>2, <1>3, <1>4 DEF Outgoing

LEMMA KeptSendFrame ==
  ASSUME Kept, NEW t \in Socket!Tasks, Socket!SendFrame(t)
  PROVE  Kept'
<1> DEFINE q == out[t].todo
           frame == Head(q)
<1>1. /\ UNCHANGED <<loop, socket, desired, following, open, watched, sync, entry>>
      /\ q # <<>> /\ out \in [Socket!Tasks -> Outbox] /\ q \in Seq(Socket!Frame)
  BY DEF Socket!SendFrame, Socket!Busy, Kept, SocketTypes, Outbox
<1>2. /\ Tail(q) \in Seq(Socket!Frame) /\ Len(q) \in Nat /\ Len(q) > 0 /\ Len(Tail(q)) = Len(q) - 1
      /\ \A i \in 1 .. Len(Tail(q)) : Tail(q)[i] = q[i + 1] /\ i + 1 \in 1 .. Len(q)
      /\ frame = q[1] /\ 1 \in 1 .. Len(q)
  BY <1>1
<1>3. CASE Socket!Up /\ out[t].on = socket
  <2>1. /\ out' = [out EXCEPT ![t].todo = Tail(q)]
        /\ venue' = IF frame.op = "s" THEN venue \union {frame.code} ELSE venue \ {frame.code}
    BY <1>3 DEF Socket!SendFrame
  <2> HIDE DEF q
  <2>2. out'[t].todo = Tail(q) /\ out'[t].on = out[t].on /\ \A u \in Socket!Tasks : u # t => out'[u] = out[u]
    BY <1>1, <2>1 DEF Outbox
  <2>3. out' \in [Socket!Tasks -> Outbox]
    BY <1>1, <1>2, <2>1 DEF Outbox
  <2>4. SocketTypes'
    BY <1>1, <2>3 DEF Kept, SocketTypes
  <2>5. Outgoing'
    <3>1. \A i \in 1 .. Len(Tail(q)) : \E j \in 1 .. Len(q) : Tail(q)[i] = q[j]
      BY <1>2
    <3>2. \A i \in 1 .. Len(out'[t].todo) :
            \E j \in 1 .. Len(out[t].todo) : out'[t].todo[i] = out[t].todo[j]
      BY <2>2, <3>1 DEF q
    <3>3. out[t].todo # <<>>
      BY <1>1 DEF q
    <3>. QED  BY <1>1, <2>2, <3>2, <3>3, FramesGo DEF Kept
  <2>6. frame.op # "s" => frame.code \notin desired
    <3>1. frame \in Socket!Frame /\ frame = out[t].todo[1] /\ 1 \in 1 .. Len(out[t].todo)
      BY <1>1, <1>2 DEF q
    <3>2. frame.op \in {"s", "u"}
      BY <3>1 DEF Socket!Frame
    <3>3. CASE t = "clock"
      BY <3>1, <3>2, <3>3 DEF Kept, Outgoing, Subscribing, Dropped
    <3>4. CASE t \in {"feed", "decision"}
      BY <3>1, <3>2, <3>4 DEF Kept, Outgoing, Subscribing, Dropped
    <3>. QED  BY <3>3, <3>4 DEF Socket!Tasks
  <2>7. ASSUME NEW c \in desired, loop = "reading", c \notin venue'
        PROVE  \E u \in Socket!Tasks : Coming(u, c)'
    <3>1. c \notin venue
      BY <2>1, <2>6, <2>7
    <3>2. PICK u \in Socket!Tasks : Coming(u, c)
      BY <2>7, <3>1 DEF Kept, Covered
    <3>3. CASE u # t
      BY <1>1, <2>2, <3>2, <3>3 DEF Coming
    <3>4. CASE u = t
      <4>1. PICK i \in 1 .. Len(q) : q[i] = [op |-> "s", code |-> c]
        BY <3>2, <3>4 DEF Coming, q
      <4>2. i # 1
        BY <1>2, <2>1, <2>7, <4>1
      <4>3. i - 1 \in 1 .. Len(Tail(q)) /\ (i - 1) + 1 = i
        BY <1>2, <4>1, <4>2
      <4>4. Tail(q)[i - 1] = [op |-> "s", code |-> c]
        BY <1>2, <4>1, <4>3
      <4>. QED  BY <1>1, <1>3, <2>2, <3>4, <4>3, <4>4 DEF Coming
    <3>. QED  BY <3>3, <3>4
  <2>. QED  BY <1>1, <2>4, <2>5, <2>7 DEF Kept, Covered
<1>4. CASE ~(Socket!Up /\ out[t].on = socket)
  <2>1. out' = [out EXCEPT ![t].todo = <<>>] /\ venue' = venue
    BY <1>4 DEF Socket!SendFrame
  <2>2. out'[t].todo = <<>> /\ out'[t].on = out[t].on /\ \A u \in Socket!Tasks : u # t => out'[u] = out[u]
    BY <1>1, <2>1 DEF Outbox
  <2>3. out' \in [Socket!Tasks -> Outbox]
    <3>0. out[t] \in Outbox /\ <<>> \in Seq(Socket!Frame)
      BY <1>1
    <3>1. [out[t] EXCEPT !.todo = <<>>] \in Outbox
      BY <3>0 DEF Outbox
    <3>. QED  BY <1>1, <2>1, <3>1
  <2>4. SocketTypes'
    BY <1>1, <2>3 DEF Kept, SocketTypes
  <2>5. Outgoing'
    <3>1. Len(<<>>) = 0
      OBVIOUS
    <3>. QED  BY <1>1, <2>2, <3>1, FramesGo DEF Kept
  <2>6. loop = "reading" => \A c \in desired : ~Coming(t, c)
    BY <1>4 DEF Coming, Socket!Up
  <2>7. Covered'
    BY <1>1, <2>1, <2>2, <2>6 DEF Kept, Covered, Coming
  <2>. QED  BY <2>4, <2>5, <2>7 DEF Kept
<1>. QED  BY <1>3, <1>4

\* The connection.
LEMMA KeptConnection ==
  ASSUME Kept, Socket!TokenTaken \/ Socket!Connected \/ Socket!ConnectionLost \/ Socket!Reconnect
  PROVE  Kept'
<1>1. /\ UNCHANGED <<desired, out, following, watched, open, sync, entry>>
      /\ socket' \in {socket, socket + 1} /\ loop' # "reading"
  BY DEF Socket!TokenTaken, Socket!Connected, Socket!ConnectionLost, Socket!Reconnect, Socket!Disconnected
<1>2. socket \in Nat /\ socket' \in Nat /\ socket <= socket' /\ \A t \in Socket!Tasks : out[t].on \in Nat
  BY <1>1 DEF Kept, SocketTypes, Outbox
<1>3. Outgoing'
  BY <1>1, <1>2 DEF Kept, Outgoing, Subscribing, Dropped
<1>. QED  BY <1>1, <1>2, <1>3 DEF Kept, SocketTypes, Covered

LEMMA KeptResubscribe ==
  ASSUME Kept, Socket!Resubscribe
  PROVE  Kept'
<1>1. /\ UNCHANGED <<socket, venue, desired, following, open, watched, sync, entry>>
      /\ out["feed"].todo = <<>> /\ Socket!Up
      /\ out' = Socket!Sending("feed", "s", desired)
  BY DEF Socket!Resubscribe, Socket!Busy, Socket!Restored, Socket!Up
<1>2. /\ out' \in [Socket!Tasks -> Outbox]
      /\ \A u \in Socket!Tasks : u # "feed" => out'[u] = out[u]
      /\ out'["feed"].on <= socket
      /\ \A i \in 1 .. Len(out'["feed"].todo) : out'["feed"].todo[i].op = "s"
      /\ \A c \in desired : out'["feed"].on = socket
           /\ \E i \in 1 .. Len(out'["feed"].todo) : out'["feed"].todo[i] = [op |-> "s", code |-> c]
  BY <1>1, Sends DEF Kept, SocketTypes, Socket!Tasks
<1>3. Covered'
  BY <1>1, <1>2 DEF Covered, Coming, Socket!Tasks
<1>4. Outgoing'
  BY <1>1, <1>2 DEF Kept, Outgoing, Subscribing, Dropped, Socket!Tasks
<1>. QED  BY <1>1, <1>2, <1>3, <1>4 DEF Kept, SocketTypes

LEMMA KeptFollowDepth ==
  ASSUME Kept, NEW c \in Codes, Socket!FollowDepth(c)
  PROVE  Kept'
<1>1. /\ UNCHANGED <<loop, socket, venue, open, sync>> /\ entry = None
      /\ watched' \subseteq watched \union {c}
  BY DEF Socket!FollowDepth
<1>2. out["decision"].todo = <<>> /\ "decision" \in Socket!Tasks
  BY <1>1 DEF Kept, Outgoing, Subscribing, Dropped, Socket!Tasks
<1>3. CASE UNCHANGED <<desired, out, following, entry>>
  BY <1>1, <1>3 DEF Kept, SocketTypes, Outgoing, Subscribing, Dropped, Covered, Coming
<1>4. CASE /\ c \notin following /\ Socket!Up /\ c \notin desired
           /\ desired' = desired \union {c} /\ out' = Socket!Sending("decision", "s", {c})
           /\ entry' = [code |-> c, passed |-> FALSE] /\ following' = following
  <2>1. /\ out' \in [Socket!Tasks -> Outbox]
        /\ \A u \in Socket!Tasks : u # "decision" => out'[u] = out[u]
        /\ out'["decision"].on <= socket
        /\ \A i \in 1 .. Len(out'["decision"].todo) : out'["decision"].todo[i].op = "s"
        /\ \A d \in {c} : out'["decision"].on = socket
             /\ \E i \in 1 .. Len(out'["decision"].todo) : out'["decision"].todo[i] = [op |-> "s", code |-> d]
    BY <1>2, <1>4, Sends
  <2>2. c \notin sync.drop
    BY <1>4 DEF Kept, Outgoing, Subscribing, Dropped
  <2>3. Outgoing'
    <3>1. entry' \in [code : Codes, passed : BOOLEAN]
      BY <1>4
    <3>2. entry' # None
      BY <3>1, CodesAreNumbers
    <3>3. out'["feed"] = out["feed"] /\ out'["clock"] = out["clock"]
      BY <2>1 DEF Socket!Tasks
    <3>4. Subscribing'
      BY <2>1, <3>3 DEF Kept, Outgoing, Subscribing
    <3>5. Dropped'
      BY <1>1, <1>4, <2>2, <3>3 DEF Kept, Outgoing, Dropped
    <3>. QED  BY <1>1, <1>4, <2>1, <3>2, <3>3, <3>4, <3>5 DEF Kept, Outgoing, Socket!Tasks
  <2>4. Covered'
    <3>1. loop = "reading" => \A d \in desired : d \in venue' \/ \E u \in Socket!Tasks : Coming(u, d)'
      BY <1>1, <1>2, <2>1, StillComing
    <3>2. Coming("decision", c)'
      BY <1>1, <2>1 DEF Coming
    <3>. QED  BY <1>1, <1>2, <1>4, <3>1, <3>2 DEF Covered
  <2>5. SocketTypes'
    BY <1>1, <1>4, <2>1 DEF Kept, SocketTypes
  <2>. QED  BY <2>3, <2>4, <2>5 DEF Kept
<1>5. CASE /\ c \notin following /\ ~(Socket!Up /\ c \notin desired)
           /\ desired' = desired \union {c} /\ following' = following \union {c} /\ UNCHANGED <<out, entry>>
  <2>1. c \notin sync.drop
    BY <1>5 DEF Kept, Outgoing, Subscribing, Dropped
  <2>2. loop = "reading" => desired' = desired
    BY <1>5 DEF Socket!Up
  <2>3. Outgoing'
    BY <1>1, <1>5, <2>1 DEF Kept, Outgoing, Subscribing, Dropped
  <2>. QED  BY <1>1, <1>5, <2>2, <2>3 DEF Kept, SocketTypes, Covered, Coming
<1>. QED  BY <1>3, <1>4, <1>5 DEF Socket!FollowDepth

\* The end of a pass, or its frames that take contracts away.
LEMMA KeptDropping ==
  ASSUME Kept, out["clock"].todo = <<>>,
         NEW D, desired \subseteq D, D \subseteq Codes, Socket!Up => D = desired,
         NEW add \in SUBSET Codes, NEW drop \in SUBSET Codes, drop \subseteq following,
         Socket!Dropping(D, add, drop), UNCHANGED <<loop, socket, venue, open>>, watched' \subseteq Codes,
         entry' = None <=> entry = None, entry' # None => entry' \in [code : Codes, passed : BOOLEAN]
  PROVE  Kept'
<1> DEFINE gone == D \intersect drop
<1>1. desired' = D \ gone /\ "clock" \in Socket!Tasks /\ gone \subseteq Codes
  BY DEF Socket!Dropping, Socket!Tasks
<1>2. CASE /\ Socket!Up /\ out' = Socket!Sending("clock", "u", gone) /\ following' = following
           /\ sync' = [stage |-> "dropping", add |-> add, drop |-> drop]
  <2>1. /\ out' \in [Socket!Tasks -> Outbox]
        /\ \A u \in Socket!Tasks : u # "clock" => out'[u] = out[u]
        /\ out'["clock"].on <= socket
        /\ \A i \in 1 .. Len(out'["clock"].todo) :
             out'["clock"].todo[i].op = "u" /\ out'["clock"].todo[i].code \in gone
    BY <1>1, <1>2, Sends
  <2>2. Outgoing'
    <3>1. out'["feed"] = out["feed"] /\ out'["decision"] = out["decision"]
      BY <2>1 DEF Socket!Tasks
    <3>2. Subscribing'
      BY <3>1 DEF Kept, Outgoing, Subscribing
    <3>3. sync'.drop = drop /\ sync'.stage = "dropping"
      BY <1>2
    <3>4. Dropped'
      BY <1>1, <2>1, <3>3 DEF Dropped
    <3>. QED  BY <1>1, <1>2, <2>1, <3>1, <3>2, <3>3, <3>4 DEF Kept, Outgoing, Socket!Tasks
  <2>3. desired' \subseteq desired
    BY <1>1, <1>2
  <2>4. Covered'
    BY <1>1, <2>1, <2>3, StillComing DEF Covered
  <2>. QED  BY <1>1, <1>2, <2>1, <2>2, <2>4 DEF Kept, SocketTypes
<1>3. CASE out' = out /\ following' = Socket!Finished(following, add, drop) /\ sync' = Socket!NoSync
  <2>1. Outgoing'
    BY <1>1, <1>3 DEF Kept, Outgoing, Subscribing, Dropped, Socket!NoSync
  <2>2. loop = "reading" => desired' \subseteq desired
    BY <1>1 DEF Socket!Up
  <2>3. Covered'
    BY <1>1, <1>3, <2>2 DEF Kept, Covered, Coming
  <2>. QED  BY <1>1, <1>3, <2>1, <2>3 DEF Kept, SocketTypes, Socket!NoSync, Socket!Finished
<1>. QED  BY <1>2, <1>3 DEF Socket!Dropping

LEMMA KeptSyncDepth ==
  ASSUME Kept, NEW lapsed \in SUBSET Codes, Socket!SyncDepth(lapsed)
  PROVE  Kept'
<1> DEFINE w == (watched \union open) \ lapsed
           add == Socket!Wanted(w) \ following
           drop == (following \ Socket!Wanted(w)) \ Pinned
           fresh == add \ desired
<1>1. /\ UNCHANGED <<loop, socket, venue, open>> /\ sync.stage = "idle" /\ watched' = w
      /\ IF entry = None THEN UNCHANGED entry
         ELSE ~entry.passed /\ entry' = [entry EXCEPT !.passed = TRUE]
      /\ IF add = {} /\ drop = {} THEN UNCHANGED <<desired, out, following, sync>>
         ELSE IF Socket!Up /\ fresh # {}
           THEN /\ desired' = desired \union fresh
                /\ out' = Socket!Sending("clock", "s", fresh)
                /\ sync' = [stage |-> "adding", add |-> add, drop |-> drop]
                /\ UNCHANGED following
           ELSE Socket!Dropping(desired \union fresh, add, drop)
  BY DEF Socket!SyncDepth
<1>2. /\ entry' = None <=> entry = None
      /\ entry' # None => entry' \in [code : Codes, passed : BOOLEAN]
  <2>1. CASE entry = None
    BY <1>1, <2>1
  <2>2. CASE entry # None
    <3>1. entry \in [code : Codes, passed : BOOLEAN]
      BY <2>2 DEF Kept, SocketTypes
    <3>2. entry' \in [code : Codes, passed : BOOLEAN]
      BY <1>1, <2>2, <3>1
    <3>. QED  BY <2>2, <3>2, CodesAreNumbers
  <2>. QED  BY <2>1, <2>2
<1>3. w \subseteq Codes /\ add \subseteq Codes /\ drop \subseteq Codes /\ drop \subseteq following /\ fresh \subseteq add
  <2>1. w \subseteq Codes /\ open \subseteq Codes /\ following \subseteq Codes
    BY DEF Kept, SocketTypes
  <2>2. UNION {Leg[c] : c \in w} \subseteq Codes
    BY <2>1, CodesAreNumbers
  <2>3. Socket!Wanted(w) \subseteq Codes
    BY <2>1, <2>2 DEF Socket!Wanted, Socket!Lowest
  <2>. QED  BY <2>1, <2>3
<1>4. out["clock"].todo = <<>> /\ "clock" \in Socket!Tasks /\ desired \subseteq Codes
  BY <1>1 DEF Kept, Outgoing, Subscribing, Dropped, Socket!Tasks, SocketTypes
<1> HIDE DEF w, add, drop, fresh
<1>5. CASE UNCHANGED <<desired, out, following, sync>>
  BY <1>1, <1>2, <1>3, <1>5 DEF Kept, SocketTypes, Outgoing, Subscribing, Dropped, Covered, Coming
<1>6. CASE /\ Socket!Up /\ desired' = desired \union fresh /\ out' = Socket!Sending("clock", "s", fresh)
           /\ sync' = [stage |-> "adding", add |-> add, drop |-> drop] /\ following' = following
  <2>1. /\ out' \in [Socket!Tasks -> Outbox]
        /\ \A u \in Socket!Tasks : u # "clock" => out'[u] = out[u]
        /\ out'["clock"].on <= socket
        /\ \A i \in 1 .. Len(out'["clock"].todo) : out'["clock"].todo[i].op = "s"
        /\ \A c \in fresh : out'["clock"].on = socket
             /\ \E i \in 1 .. Len(out'["clock"].todo) : out'["clock"].todo[i] = [op |-> "s", code |-> c]
    BY <1>3, <1>4, <1>6, Sends
  <2>2. Outgoing'
    BY <1>1, <1>2, <1>3, <1>6, <2>1 DEF Kept, Outgoing, Subscribing, Dropped, Socket!Tasks
  <2>3. Covered'
    <3>1. loop = "reading" => \A d \in desired : d \in venue' \/ \E u \in Socket!Tasks : Coming(u, d)'
      BY <1>1, <1>4, <2>1, StillComing
    <3>2. \A c \in fresh : Coming("clock", c)'
      BY <1>1, <2>1 DEF Coming
    <3>. QED  BY <1>1, <1>4, <1>6, <3>1, <3>2 DEF Covered
  <2>4. SocketTypes'
    BY <1>1, <1>2, <1>3, <1>4, <1>6, <2>1 DEF Kept, SocketTypes
  <2>. QED  BY <2>2, <2>3, <2>4 DEF Kept
<1>7. CASE ~(Socket!Up /\ fresh # {}) /\ Socket!Dropping(desired \union fresh, add, drop)
  <2>1. Socket!Up => desired \union fresh = desired
    BY <1>7
  <2>. QED  BY <1>1, <1>2, <1>3, <1>4, <1>7, <2>1, KeptDropping
<1>. QED  BY <1>1, <1>5, <1>6, <1>7

LEMMA KeptPass ==
  ASSUME Kept, Socket!SyncAdded \/ Socket!SyncDropped \/ Socket!Followed
  PROVE  Kept'
<1>1. CASE Socket!SyncAdded
  <2>1. /\ out["clock"].todo = <<>> /\ Socket!Dropping(desired, sync.add, sync.drop)
        /\ UNCHANGED <<loop, socket, venue, open, watched, entry>>
    BY <1>1 DEF Socket!SyncAdded, Socket!Busy
  <2>2. /\ sync.add \in SUBSET Codes /\ sync.drop \in SUBSET Codes /\ sync.drop \subseteq following
        /\ desired \subseteq Codes /\ watched' \subseteq Codes
        /\ entry' # None => entry' \in [code : Codes, passed : BOOLEAN]
    BY <2>1 DEF Kept, SocketTypes, Outgoing, Subscribing, Dropped
  <2>. QED  BY <2>1, <2>2, KeptDropping
<1>2. CASE Socket!SyncDropped
  <2>1. /\ out["clock"].todo = <<>> /\ following' = Socket!Finished(following, sync.add, sync.drop)
        /\ sync' = Socket!NoSync
        /\ UNCHANGED <<loop, socket, desired, venue, out, open, watched, entry>>
    BY <1>2 DEF Socket!SyncDropped, Socket!Busy
  <2>2. SocketTypes'
    BY <2>1 DEF Kept, SocketTypes, Socket!NoSync, Socket!Finished
  <2>. QED  BY <2>1, <2>2 DEF Kept, Outgoing, Subscribing, Dropped, Covered, Coming, Socket!NoSync
<1>3. CASE Socket!Followed
  <2>1. /\ out["decision"].todo = <<>> /\ following' = following \union {entry.code} /\ entry # None
        /\ entry' = None /\ UNCHANGED <<loop, socket, desired, venue, out, open, watched, sync>>
    BY <1>3 DEF Socket!Followed, Socket!Busy
  <2>2. entry.code \in Codes
    BY <2>1 DEF Kept, SocketTypes
  <2>. QED  BY <2>1, <2>2 DEF Kept, SocketTypes, Outgoing, Subscribing, Dropped, Covered, Coming
<1>. QED  BY <1>1, <1>2, <1>3

LEMMA KeptNext ==
  ASSUME Kept, [Socket!Next]_Socket!vars
  PROVE  Kept'
<1>1. CASE UNCHANGED Socket!vars
  BY <1>1 DEF Socket!vars, Kept, SocketTypes, Outgoing, Subscribing, Dropped, Covered, Coming
<1>2. CASE Socket!Midnight
  BY <1>2 DEF Socket!Midnight, Kept, SocketTypes, Outgoing, Subscribing, Dropped, Covered, Coming
<1>3. ASSUME NEW c \in Codes, Socket!Buys(c) \/ Socket!Sells(c)
      PROVE  Kept'
  BY <1>3 DEF Socket!Buys, Socket!Sells, Kept, SocketTypes, Outgoing, Subscribing, Dropped, Covered, Coming
<1>4. ASSUME NEW c \in Codes, Socket!FollowDepth(c)
      PROVE  Kept'
  BY <1>4, KeptFollowDepth
<1>5. ASSUME NEW t \in Socket!Tasks, Socket!SendFrame(t)
      PROVE  Kept'
  BY <1>5, KeptSendFrame
<1>6. ASSUME NEW lapsed \in SUBSET Codes, Socket!SyncDepth(lapsed)
      PROVE  Kept'
  BY <1>6, KeptSyncDepth
<1>. QED  BY <1>1, <1>2, <1>3, <1>4, <1>5, <1>6, KeptConnection, KeptResubscribe, KeptPass DEF Socket!Next

\* Of Feed, for any contracts, pinned ones, legs, cap and losses of the connection: once
\* nobody has anything left to send, everything desired is streamed (ws.py: "resubscribed
\* from the desired-state map on every reconnect").
THEOREM SubscriptionsSurviveHolds == Socket!Spec => []SubscriptionsSurvive
<1>1. Socket!Init => Kept
  BY KeptInit
<1>2. Kept /\ [Socket!Next]_Socket!vars => Kept'
  BY KeptNext
<1>3. Kept => SubscriptionsSurvive
  <2> SUFFICES ASSUME Kept, loop = "reading", \A t \in Socket!Tasks : out[t].todo = <<>>, NEW c \in desired
               PROVE  c \in venue
    BY DEF SubscriptionsSurvive, Socket!SubscriptionsSurvive, Socket!Busy
  <2>1. Len(<<>>) = 0
    OBVIOUS
  <2>2. \A t \in Socket!Tasks : ~Coming(t, c)
    BY <2>1 DEF Coming
  <2>. QED  BY <2>2 DEF Kept, Covered
<1>. QED  BY <1>1, <1>2, <1>3, PTL DEF Socket!Spec

-----------------------------------------------------------------------------
(* No level is built from ticks.  The engine checks the previous session's bar    *)
(* alone, and reads weeks; so behind a bar of the broker's there must be none of  *)
(* ours.  An answer covers every day up to the one asked for, and our own bar is   *)
(* only ever the newest.                                                          *)

BarKinds == {"none", "final", "running", "ticks"}

\* A name's bars up to a day: of days it traded, and none of ours behind one of the broker's.
KeptTo(day, days, bars) ==
  /\ bars \in [Pivots!Days -> BarKinds]
  /\ \A d \in Pivots!Days : bars[d] # "none" => d <= day /\ d \in days
  /\ \A d, e \in Pivots!Days : d < e /\ bars[d] = "ticks" => ~Pivots!Official(bars[e])

WellKept(s, bars) == KeptTo(date, traded[s], bars)

\* The cache has the broker's only.
Cached(bars) == \A d \in Pivots!Days : bars[d] # "ticks"

Official ==
  /\ date \in Pivots!Days
  /\ DOMAIN job = {"kind", "todo", "end"} /\ job.end \in Int
  /\ series \in [Pivots!Names -> [Pivots!Days -> BarKinds]]
  /\ file \in [Pivots!Names -> [Pivots!Days -> BarKinds]]
  /\ DOMAIN zone = Pivots!Names
  /\ \A s \in Pivots!Names : WellKept(s, series[s]) /\ WellKept(s, file[s]) /\ Cached(file[s])
  /\ LevelsAreTheBrokers

LEMMA DailyFacts ==
  /\ PerWeek \in Nat /\ PerWeek > 0 /\ Final \in Nat
  /\ Pivots!Days = 0..Final /\ First \in Pivots!Days
  BY DailyAssumed DEF Pivots!DailyAssumptions, Pivots!Days

\* A set of numbers with a bound has a greatest.
LEMMA GreatestIsOne ==
  ASSUME NEW n \in Nat, NEW S, S \subseteq 0..n, S # {}
  PROVE  Pivots!MaxOf(S) \in S /\ \A y \in S : y <= Pivots!MaxOf(S)
<1>. DEFINE T == {n - x : x \in S}
<1>1. T \subseteq Nat /\ T # {}
  <2>1. PICK x \in S : TRUE
    OBVIOUS
  <2>2. n - x \in T
    OBVIOUS
  <2>3. \A y \in S : n - y \in Nat
    OBVIOUS
  <2>. QED  BY <2>2, <2>3
<1>2. PICK m \in T : \A k \in T : ~(<<k, m>> \in OpToRel(<, Nat))
  BY <1>1, NatLessThanWellFounded, WFMin
<1>3. PICK x \in S : m = n - x
  OBVIOUS
<1>4. ASSUME NEW y \in S PROVE y <= x
  <2>1. n - y \in T /\ n - y \in Nat /\ m \in Nat
    BY <1>1
  <2>2. ~(n - y < m)
    BY <1>2, <2>1 DEF OpToRel
  <2>. QED  BY <1>3, <2>1, <2>2
<1>. QED  BY <1>4 DEF Pivots!MaxOf

\* Behind an official previous session the days and the week are official.
LEMMA LevelsAreOfficial ==
  ASSUME Official, NEW s \in Pivots!Names, Pivots!Usable(s)
  PROVE  /\ Pivots!Official(Pivots!LevelsOf(s).bar[2])
         /\ \A b \in Pivots!LevelsOf(s).week : Pivots!Official(b[2])
<1>. DEFINE days == Pivots!HasBar(s)
            before == {d \in days : d < date}
            prev == Pivots!Prev(s)
<1>1. Final \in Nat /\ days \subseteq 0..Final /\ before \subseteq 0..Final /\ date \in 0..Final
  BY DailyFacts DEF Pivots!HasBar, Official
<1>2. before # {} /\ prev = Pivots!MaxOf(before) /\ Pivots!Official(series[s][prev])
  BY DEF Pivots!Usable, Pivots!Prev, Pivots!LastBefore
<1>3. prev \in before /\ \A d \in before : d <= prev
  <2>. HIDE DEF before, prev
  <2>. QED  BY <1>1, <1>2, GreatestIsOne
<1>4. ASSUME NEW d \in before PROVE Pivots!Official(series[s][d])
  <2>1. d \in Pivots!Days /\ prev \in Pivots!Days /\ series[s][d] # "none" /\ (d = prev \/ d < prev)
    BY <1>1, <1>3, DailyFacts DEF Pivots!HasBar
  <2>2. series[s][d] \in BarKinds /\ (d < prev => series[s][d] # "ticks")
    BY <1>2, <2>1 DEF Official, WellKept, KeptTo
  <2>. QED  BY <1>2, <2>1, <2>2 DEF Pivots!Official, BarKinds
<1>5. Pivots!PreviousWeek(s) \subseteq before
  <2>. DEFINE weeks == {Pivots!Week(d) : d \in days}
              done == Pivots!Complete(weeks, s)
  <2>1. weeks \subseteq 0..Final
    <3>1. ASSUME NEW d \in days PROVE Pivots!Week(d) \in 0..Final
      <4>1. d \in Nat /\ d <= Final
        BY <1>1
      <4>2. d \div PerWeek \in Nat /\ d \div PerWeek <= d
        BY <4>1, DailyFacts, SMT
      <4>. QED  BY <4>1, <4>2, DailyFacts DEF Pivots!Week
    <3>. QED  BY <3>1
  <2>2. done \subseteq 0..Final /\ \A w \in done : \A d \in days : Pivots!Week(d) = w => d < date
    BY <2>1 DEF Pivots!Complete
  <2>3. Pivots!PreviousWeek(s) = IF done = {} THEN {} ELSE {d \in days : Pivots!Week(d) = Pivots!MaxOf(done)}
    BY DEF Pivots!PreviousWeek
  <2>4. done # {} => Pivots!MaxOf(done) \in done
    <3>. HIDE DEF done
    <3>. QED  BY <1>1, <2>2, GreatestIsOne
  <2>. HIDE DEF done, weeks
  <2>. QED  BY <2>2, <2>3, <2>4
<1>. HIDE DEF before, prev
<1>6. Pivots!LevelsOf(s).bar[2] = series[s][prev] /\ Pivots!LevelsOf(s).week = {<<d, series[s][d]>> : d \in Pivots!PreviousWeek(s)}
  BY DEF Pivots!LevelsOf, prev
<1>. QED  BY <1>2, <1>4, <1>5, <1>6

\* An answer leaves a name's bars well kept.
LEMMA SeededIsKept ==
  ASSUME NEW s, NEW end \in Int, NEW old, WellKept(s, old), date \in Pivots!Days
  PROVE  WellKept(s, Pivots!Seed(old, Pivots!Candles(s, end)))
<1>. DEFINE rows == Pivots!Candles(s, end)
            bars == Pivots!Seed(old, rows)
<1>1. \A d \in Pivots!Days :
        /\ rows[d] \in {"none", "final", "running"}
        /\ rows[d] # "none" => d \in traded[s] /\ ~(d > end) /\ ~(d > date)
        /\ d \in traded[s] /\ ~(d > end) /\ d < date /\ ~(d > date) => rows[d] # "none"
  BY DEF Pivots!Candles
<1>2. bars = [d \in Pivots!Days |-> IF rows[d] # "none" THEN rows[d] ELSE old[d]]
  BY DEF Pivots!Seed
<1>. HIDE DEF rows, bars
<1>3. bars \in [Pivots!Days -> BarKinds]
  BY <1>1, <1>2 DEF WellKept, KeptTo, BarKinds
<1>4. ASSUME NEW d \in Pivots!Days, bars[d] # "none" PROVE d <= date /\ d \in traded[s]
  BY <1>1, <1>2, <1>4, DailyFacts DEF WellKept, KeptTo
<1>5. ASSUME NEW d \in Pivots!Days, NEW e \in Pivots!Days, d < e, bars[d] = "ticks" PROVE ~Pivots!Official(bars[e])
  <2>1. rows[d] = "none" /\ old[d] = "ticks"
    BY <1>1, <1>2, <1>5
  <2>2. d \in traded[s] /\ ~Pivots!Official(old[e])
    BY <1>5, <2>1 DEF WellKept, KeptTo
  <2>3. rows[e] = "none"
    <3>1. SUFFICES ASSUME rows[e] # "none" PROVE FALSE
      OBVIOUS
    <3>2. d \in Int /\ e \in Int /\ date \in Int /\ end \in Int
      BY DailyFacts
    <3>3. ~(e > end) /\ ~(e > date)
      BY <1>1, <3>1
    <3>4. ~(d > end) /\ d < date /\ ~(d > date)
      BY <1>5, <3>2, <3>3
    <3>. QED  BY <1>1, <2>1, <2>2, <3>4
  <2>. QED  BY <1>2, <2>2, <2>3
<1>. QED  BY <1>3, <1>4, <1>5 DEF WellKept, KeptTo, bars, rows

LEMMA OfficialInit == Pivots!Init => Official
<1>1. SUFFICES ASSUME Pivots!Init PROVE Official
  OBVIOUS
<1>2. date \in Pivots!Days
  BY <1>1, DailyFacts DEF Pivots!Init
<1>3. series = [s \in Pivots!Names |-> Pivots!NoBars] /\ zone = [s \in Pivots!Names |-> Nothing]
      /\ job = Pivots!Idle
  BY <1>1 DEF Pivots!Init
<1>4. PICK cached \in BOOLEAN :
        file = [s \in Pivots!Names |-> [d \in Pivots!Days |-> IF cached /\ d = 0 /\ d \in traded[s] THEN "final" ELSE "none"]]
  BY <1>1 DEF Pivots!Init
<1>5. ASSUME NEW s \in Pivots!Names
      PROVE  WellKept(s, series[s]) /\ WellKept(s, file[s]) /\ Cached(file[s])
  <2>1. series[s] = [d \in Pivots!Days |-> "none"]
    BY <1>3 DEF Pivots!NoBars
  <2>2. file[s] = [d \in Pivots!Days |-> IF cached /\ d = 0 /\ d \in traded[s] THEN "final" ELSE "none"]
    BY <1>4
  <2>3. WellKept(s, series[s])
    BY <2>1 DEF WellKept, KeptTo, BarKinds
  <2>4. \A d \in Pivots!Days : /\ file[s][d] \in {"none", "final"}
                               /\ file[s][d] = "final" => d = 0 /\ d \in traded[s]
    BY <2>2
  <2>5. WellKept(s, file[s]) /\ Cached(file[s])
    BY <1>2, <2>2, <2>4, DailyFacts DEF WellKept, KeptTo, Cached, BarKinds
  <2>. QED  BY <2>3, <2>5
<1>6. LevelsAreTheBrokers
  BY <1>3 DEF LevelsAreTheBrokers, Pivots!LevelsAreTheBrokers
<1>7. series \in [Pivots!Names -> [Pivots!Days -> BarKinds]] /\ file \in [Pivots!Names -> [Pivots!Days -> BarKinds]]
  BY <1>3, <1>4 DEF Pivots!NoBars, BarKinds
<1>. QED  BY <1>2, <1>3, <1>5, <1>6, <1>7 DEF Official, Pivots!Idle

\* A name's bars stay well kept as time passes.
LEMMA StaysKept ==
  ASSUME NEW day \in Pivots!Days, NEW next \in Pivots!Days, day <= next, NEW days, NEW bars, KeptTo(day, days, bars)
  PROVE  KeptTo(next, days, bars)
  BY DailyFacts DEF KeptTo

\* The steps that touch neither the bars nor the levels.
LEMMA KeepsBars ==
  ASSUME Official, UNCHANGED <<series, file, zone, date, traded>>, DOMAIN job' = {"kind", "todo", "end"}, job'.end \in Int
  PROVE  Official'
  BY DEF Official, WellKept, KeptTo, Cached, Pivots!Official, Pivots!Days, Pivots!Names, LevelsAreTheBrokers, Pivots!LevelsAreTheBrokers

LEMMA OfficialNext == Official /\ [Pivots!Next]_(Pivots!vars) => Official'
<1>1. SUFFICES ASSUME Official, [Pivots!Next]_(Pivots!vars)
               PROVE  Official'
  OBVIOUS
<1>2. date \in Int /\ DOMAIN job = {"kind", "todo", "end"} /\ job.end \in Int
  BY <1>1, DailyFacts DEF Official
<1>3. CASE Pivots!Tick
  <2>1. UNCHANGED <<file, zone, traded, job>>
    BY <1>3 DEF Pivots!Tick, Pivots!house
  <2>2. date' \in Pivots!Days /\ date <= date'
    <3>1. date' = date \/ (date < Final /\ date' = date + 1)
      BY <1>3 DEF Pivots!Tick
    <3>. QED  BY <1>1, <3>1, DailyFacts DEF Official
  <2>3. series' = series \/ (date' = date /\ series' = [s \in Pivots!Names |-> Pivots!Closing(s)])
    BY <1>3 DEF Pivots!Tick
  <2>4. ASSUME NEW s \in Pivots!Names
        PROVE  KeptTo(date', traded[s], series'[s])
    <3>1. KeptTo(date, traded[s], series[s]) /\ date \in Pivots!Days
      BY <1>1 DEF Official, WellKept
    <3>2. CASE series'[s] = series[s]
      BY <2>2, <3>1, <3>2, StaysKept
    <3>3. CASE date' = date /\ date \in traded[s] /\ series'[s] = [series[s] EXCEPT ![date] = "ticks"]
      <4>1. \A d \in Pivots!Days : series'[s][d] = IF d = date THEN "ticks" ELSE series[s][d]
        BY <3>1, <3>3 DEF KeptTo
      <4>2. series'[s] \in [Pivots!Days -> BarKinds]
        BY <3>1, <3>3 DEF KeptTo, BarKinds
      <4>3. \A d \in Pivots!Days : series'[s][d] # "none" => d <= date /\ d \in traded[s]
        BY <1>2, <3>1, <3>3, <4>1 DEF KeptTo
      <4>4. ASSUME NEW d \in Pivots!Days, NEW e \in Pivots!Days, d < e, series'[s][d] = "ticks"
            PROVE  ~Pivots!Official(series'[s][e])
        <5>1. CASE e = date
          BY <4>1, <5>1 DEF Pivots!Official
        <5>2. CASE e # date /\ d = date
          <6>1. series[s][e] = "none"
            BY <1>2, <3>1, <4>4, <5>2, DailyFacts DEF KeptTo
          <6>. QED  BY <4>1, <5>2, <6>1 DEF Pivots!Official
        <5>3. CASE e # date /\ d # date
          BY <3>1, <4>1, <4>4, <5>3 DEF KeptTo
        <5>. QED  BY <5>1, <5>2, <5>3
      <4>. QED  BY <3>3, <4>2, <4>3, <4>4 DEF KeptTo
    <3>. QED  BY <1>1, <2>3, <3>2, <3>3 DEF Pivots!Closing
  <2>5. ASSUME NEW s \in Pivots!Names
        PROVE  KeptTo(date', traded[s], file[s]) /\ Cached(file[s])
    BY <1>1, <2>2, StaysKept DEF Official, WellKept
  <2>6. series' \in [Pivots!Names -> [Pivots!Days -> BarKinds]]
    <3>1. \A s \in Pivots!Names : series'[s] \in [Pivots!Days -> BarKinds]
      BY <2>4 DEF KeptTo
    <3>2. series' = [s \in Pivots!Names |-> series'[s]]
      BY <1>1, <2>3 DEF Official
    <3>. QED  BY <3>1, <3>2
  <2>7. LevelsAreTheBrokers'
    BY <1>1, <2>1 DEF Official, LevelsAreTheBrokers, Pivots!LevelsAreTheBrokers, Pivots!Official, Pivots!Names
  <2>. QED  BY <1>1, <2>1, <2>2, <2>4, <2>5, <2>6, <2>7 DEF Official, WellKept, Pivots!Days, Pivots!Names
<1>4. CASE Pivots!FetchAnswers
  <2>. DEFINE s == Head(job.todo)
              rows == Pivots!Candles(s, job.end)
              bars == Pivots!Seed(series[s], rows)
  <2>1. UNCHANGED <<date, traded>> /\ DOMAIN job' = {"kind", "todo", "end"} /\ job'.end \in Int
    BY <1>2, <1>4 DEF Pivots!FetchAnswers, Pivots!clock
  <2>2. CASE UNCHANGED <<series, file, zone>>
    BY <1>1, <2>1, <2>2, KeepsBars
  <2>3. CASE /\ series' = [series EXCEPT ![s] = bars]
             /\ file' = [file EXCEPT ![s] = Pivots!Saved(s, bars)]
             /\ zone' = [zone EXCEPT ![s] = Nothing]
    <3>1. ASSUME NEW n \in Pivots!Names
          PROVE  WellKept(n, series'[n]) /\ WellKept(n, file'[n]) /\ Cached(file'[n])
      <4>1. WellKept(n, series[n]) /\ WellKept(n, file[n]) /\ Cached(file[n])
        BY <1>1 DEF Official
      <4>2. CASE n # s
        BY <1>1, <2>3, <4>1, <4>2 DEF Official
      <4>3. CASE n = s
        <5>1. WellKept(n, bars)
          BY <1>1, <1>2, <4>1, <4>3, SeededIsKept DEF Official
        <5>. HIDE DEF bars, rows
        <5>2. series'[n] = bars /\ file'[n] = Pivots!Saved(s, bars)
          BY <1>1, <2>3, <4>3 DEF Official
        <5>. DEFINE kept == [d \in Pivots!Days |-> IF Pivots!Official(bars[d]) THEN bars[d] ELSE "none"]
        <5>3. Pivots!Saved(s, bars) \in {file[n], kept}
          BY <4>3 DEF Pivots!Saved
        <5>4. WellKept(n, kept) /\ Cached(kept)
          BY <5>1 DEF WellKept, KeptTo, Cached, BarKinds, Pivots!Official
        <5>. HIDE DEF kept
        <5>. QED  BY <4>1, <5>1, <5>2, <5>3, <5>4
      <4>. QED  BY <4>2, <4>3
    <3>2. series' \in [Pivots!Names -> [Pivots!Days -> BarKinds]] /\ file' \in [Pivots!Names -> [Pivots!Days -> BarKinds]]
      <4>1. DOMAIN series' = Pivots!Names /\ DOMAIN file' = Pivots!Names
        BY <1>1, <2>3 DEF Official
      <4>2. series' = [n \in Pivots!Names |-> series'[n]] /\ file' = [n \in Pivots!Names |-> file'[n]]
        BY <1>1, <2>3, <4>1 DEF Official
      <4>. QED  BY <3>1, <4>2 DEF WellKept, KeptTo
    <3>3. DOMAIN zone' = Pivots!Names /\ \A n \in Pivots!Names : zone'[n] # Nothing => zone'[n] = zone[n]
      BY <1>1, <2>3 DEF Official
    <3>4. LevelsAreTheBrokers'
      BY <1>1, <3>3 DEF Official, LevelsAreTheBrokers, Pivots!LevelsAreTheBrokers, Pivots!Official, Pivots!Names
    <3>. QED  BY <1>1, <2>1, <3>1, <3>2, <3>3, <3>4 DEF Official, WellKept, KeptTo, Cached, Pivots!Days, Pivots!Names, Pivots!Official
  <2>. QED  BY <1>4, <2>2, <2>3 DEF Pivots!FetchAnswers
<1>5. CASE Pivots!Boot
  <2>1. UNCHANGED <<date, traded, file, zone>> /\ series' = file /\ job'.end = date /\ DOMAIN job' = {"kind", "todo", "end"}
    BY <1>5 DEF Pivots!Boot, Pivots!clock
  <2>. QED  BY <1>1, <1>2, <2>1 DEF Official, WellKept, KeptTo, Cached, Pivots!Days, Pivots!Names, Pivots!Official, LevelsAreTheBrokers, Pivots!LevelsAreTheBrokers
<1>6. CASE Pivots!Stop
  <2>1. UNCHANGED <<date, traded, file>> /\ job'.end = 0 /\ DOMAIN job' = {"kind", "todo", "end"}
        /\ series' = [s \in Pivots!Names |-> Pivots!NoBars] /\ zone' = [s \in Pivots!Names |-> Nothing]
    BY <1>6 DEF Pivots!Stop, Pivots!clock, Pivots!Idle
  <2>2. ASSUME NEW s \in Pivots!Names PROVE WellKept(s, series'[s])
    BY <2>1 DEF WellKept, KeptTo, BarKinds, Pivots!NoBars
  <2>3. series' \in [Pivots!Names -> [Pivots!Days -> BarKinds]]
    BY <2>1 DEF BarKinds, Pivots!NoBars
  <2>4. LevelsAreTheBrokers'
    BY <2>1 DEF LevelsAreTheBrokers, Pivots!LevelsAreTheBrokers, Pivots!Names
  <2>. QED  BY <1>1, <2>1, <2>2, <2>3, <2>4 DEF Official, WellKept, KeptTo, Cached, Pivots!Days, Pivots!Names, Pivots!Official
<1>7. ASSUME NEW elapsed \in BOOLEAN, Pivots!Housekeep(elapsed)
      PROVE  Official'
  <2>1. UNCHANGED <<date, traded, series, file>> /\ zone' \in {zone, [s \in Pivots!Names |-> Nothing]}
    BY <1>7 DEF Pivots!Housekeep, Pivots!clock
  <2>2. DOMAIN job' = {"kind", "todo", "end"} /\ job'.end \in Int
    BY <1>2, <1>7 DEF Pivots!Housekeep, Pivots!Idle
  <2>3. CASE zone' = zone
    BY <1>1, <2>1, <2>2, <2>3, KeepsBars
  <2>4. CASE zone' = [s \in Pivots!Names |-> Nothing]
    <3>1. LevelsAreTheBrokers'
      BY <2>4 DEF LevelsAreTheBrokers, Pivots!LevelsAreTheBrokers, Pivots!Names
    <3>. QED  BY <1>1, <2>1, <2>2, <2>4, <3>1 DEF Official, WellKept, KeptTo, Cached, Pivots!Days, Pivots!Names, Pivots!Official
  <2>. QED  BY <2>1, <2>3, <2>4
<1>8. ASSUME NEW s \in Watched, Pivots!ZonesFor(s)
      PROVE  Official'
  <2>1. UNCHANGED <<date, traded, series, file, job>> /\ Pivots!Usable(s) /\ zone' = [zone EXCEPT ![s] = Pivots!LevelsOf(s)]
    BY <1>8 DEF Pivots!ZonesFor, Pivots!clock, Pivots!house
  <2>2. DOMAIN zone' = Pivots!Names /\ \A n \in Pivots!Names : zone'[n] = IF n = s THEN Pivots!LevelsOf(s) ELSE zone[n]
    BY <1>1, <2>1 DEF Official
  <2>3. ASSUME NEW n \in Pivots!Names, zone'[n] # Nothing
        PROVE  Pivots!Official(zone'[n].bar[2]) /\ \A b \in zone'[n].week : Pivots!Official(b[2])
    <3>1. CASE n = s
      BY <1>1, <2>1, <2>2, <3>1, LevelsAreOfficial
    <3>2. CASE n # s
      BY <1>1, <2>2, <2>3, <3>2 DEF Official, LevelsAreTheBrokers, Pivots!LevelsAreTheBrokers
    <3>. QED  BY <3>1, <3>2
  <2>4. LevelsAreTheBrokers'
    BY <2>3 DEF LevelsAreTheBrokers, Pivots!LevelsAreTheBrokers, Pivots!Official, Pivots!Names
  <2>. QED  BY <1>1, <2>1, <2>2, <2>4 DEF Official, WellKept, KeptTo, Cached, Pivots!Days, Pivots!Names, Pivots!Official
<1>9. CASE Pivots!Booted \/ Pivots!FetchRaises \/ Pivots!Repair \/ UNCHANGED Pivots!vars
  <2>1. UNCHANGED <<date, traded, series, file, zone>>
    BY <1>9 DEF Pivots!Booted, Pivots!FetchRaises, Pivots!Repair, Pivots!FullRefetch, Pivots!Audit, Pivots!RepairEnds,
                Pivots!vars, Pivots!clock, Pivots!daily
  <2>2. DOMAIN job' = {"kind", "todo", "end"} /\ job'.end \in Int
    BY <1>2, <1>9 DEF Pivots!Booted, Pivots!FetchRaises, Pivots!Repair, Pivots!FullRefetch, Pivots!Audit, Pivots!RepairEnds,
                      Pivots!vars, Pivots!Idle
  <2>. QED  BY <1>1, <2>1, <2>2, KeepsBars
<1>. QED  BY <1>1, <1>3, <1>4, <1>5, <1>6, <1>7, <1>8, <1>9 DEF Pivots!Next, Pivots!Fetch

\* No level a strategy reads was built from our own ticks, for any names, days, holidays, refused
\* calls and restarts (Engine.zones_for, is_official, previous_complete).
THEOREM LevelsAreTheBrokersHolds == Pivots!Spec => []LevelsAreTheBrokers
<1>1. Official => LevelsAreTheBrokers
  BY DEF Official
<1>. QED  BY <1>1, OfficialInit, OfficialNext, PTL DEF Pivots!Spec

=============================================================================
