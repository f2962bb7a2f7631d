------------------------------ MODULE Session ------------------------------
(* The broker session (venue/fivepaisa/auth.py) and the calls that use it      *)
(* (rest.py _post): one-time codes that the broker takes once per window, a    *)
(* lock under which callers log in, and an error path that may drop a session. *)
(* An action is what runs between two awaits.                                  *)
EXTENDS Integers, FiniteSets

CONSTANTS
  Callers,      \* tasks that call the broker
  Window,       \* length of a code's window; its first and last unit are the edges
  MinAge,       \* MIN_SESSION_AGE_S
  Day,          \* every token of a day dies at its end
  Fallback,     \* what a token without a readable expiry is given
  Horizon,      \* bound: the last time
  MaxTroubles,  \* bound: refusals, lost answers and failed requests
  None

SessionAssumptions ==
  /\ {Window, MinAge, Day, Fallback, Horizon, MaxTroubles} \subseteq Nat
  /\ Window > 2 /\ Day > 0 /\ MinAge > Window
  /\ None \notin Callers /\ None \notin Nat

VARIABLES
  now,
  session,   \* Authenticator.session
  holder,    \* who holds Authenticator._lock
  task,      \* caller -> where it is, and the token it calls with
  login,     \* what the login under way has chosen
  used,      \* _window_used
  ipKnown,   \* _public_ip is set
  taken,     \* the codes the broker has accepted
  troubles,
  excused    \* ghost: codes whose acceptance the login could not know

vars == <<now, session, holder, task, login, used, ipKnown, taken, troubles, excused>>

Stages == {"idle", "lock", "window", "ip", "totp", "access", "call"}

WindowOf(t) == t \div Window

\* Neither edge: the code was just issued, or would be late.
AtEdge(t) == t % Window \in {0, Window - 1}

Usable(s) == s # None /\ now < s.exp

Idle == [at |-> "idle", retry |-> TRUE, with |-> None]

Goes(c, stage) == task' = [task EXCEPT ![c].at = stage]

\* A call that raises: `async with self._lock` lets go.
Raises(c) ==
  /\ task' = [task EXCEPT ![c] = Idle]
  /\ holder' = IF holder = c THEN None ELSE holder

Trouble == troubles < MaxTroubles /\ troubles' = troubles + 1

-----------------------------------------------------------------------------
(* Authenticator.token *)

Ask(c) ==
  /\ task[c].at = "idle"
  /\ Goes(c, "lock")
  /\ UNCHANGED <<now, session, holder, login, used, ipKnown, taken, troubles, excused>>

\* The lock is free: the session there is, or a login.
Enter(c) ==
  /\ task[c].at = "lock" /\ holder = None
  /\ IF Usable(session)
       THEN /\ task' = [task EXCEPT ![c].at = "call", ![c].with = session]
            /\ UNCHANGED holder
       ELSE Goes(c, "window") /\ holder' = c
  /\ UNCHANGED <<now, session, login, used, ipKnown, taken, troubles, excused>>

\* Mutant: the window is not compared with the one used last.
MayUseAny(t) == ~AtEdge(t)

MayUse(t) == ~AtEdge(t) /\ used # WindowOf(t)

\* _wait_for_fresh_window, and with a known address straight on to the code.
ChooseWindow(c) ==
  /\ task[c].at = "window" /\ MayUse(now)
  /\ login' = [window |-> WindowOf(now), code |-> WindowOf(now), since |-> now]
  /\ Goes(c, IF ipKnown THEN "totp" ELSE "ip")
  /\ UNCHANGED <<now, session, holder, used, ipKnown, taken, troubles, excused>>

\* public_ip answered; the code is the one of this moment.
LearnIp(c) ==
  /\ task[c].at = "ip"
  /\ ipKnown' = TRUE
  /\ login' = [login EXCEPT !.code = WindowOf(now), !.since = now]
  /\ Goes(c, "totp")
  /\ UNCHANGED <<now, session, holder, used, taken, troubles, excused>>

IpFails(c) ==
  /\ task[c].at = "ip" /\ Trouble /\ Raises(c)
  /\ UNCHANGED <<now, session, login, used, ipKnown, taken, excused>>

\* The broker takes a code in its window, once.
Acceptable == WindowOf(now) = login.code /\ login.code \notin taken

TotpAccepted(c) ==
  /\ task[c].at = "totp" /\ Acceptable
  /\ taken' = taken \union {login.code}
  /\ used' = login.window
  /\ excused' = IF login.window = login.code THEN excused ELSE excused \union {login.code}
  /\ login' = [login EXCEPT !.since = now]
  /\ Goes(c, "access")
  /\ UNCHANGED <<now, session, holder, ipKnown, troubles>>

\* Refused, or the request never arrived: the window is not marked as used.
TotpRefused(c) ==
  /\ task[c].at = "totp" /\ Trouble /\ Raises(c)
  /\ UNCHANGED <<now, session, login, used, ipKnown, taken, excused>>

\* Accepted, and the answer is lost.
TotpLost(c) ==
  /\ task[c].at = "totp" /\ Acceptable /\ Trouble /\ Raises(c)
  /\ taken' = taken \union {login.code}
  /\ excused' = excused \union {login.code}
  /\ UNCHANGED <<now, session, login, used, ipKnown>>

EndOfDay(t) == (t \div Day + 1) * Day

\* A session from the token the broker minted at some time since it was asked.
Minted(at) ==
  LET exp == EndOfDay(at) IN
  [minted |-> now, dies |-> exp, exp |-> IF exp > now THEN exp ELSE now + Fallback]

AccessGranted(c) ==
  /\ task[c].at = "access"
  /\ \E at \in login.since..now :
       /\ session' = Minted(at)
       /\ task' = [task EXCEPT ![c].at = "call", ![c].with = Minted(at)]
  /\ holder' = None
  /\ UNCHANGED <<now, login, used, ipKnown, taken, troubles, excused>>

AccessFails(c) ==
  /\ task[c].at = "access" /\ Trouble /\ Raises(c)
  /\ UNCHANGED <<now, session, login, used, ipKnown, taken, excused>>

-----------------------------------------------------------------------------
(* RestClient._post *)

CallAnswered(c) ==
  /\ task[c].at = "call"
  /\ now < task[c].with.dies
  /\ task' = [task EXCEPT ![c] = Idle]
  /\ UNCHANGED <<now, session, holder, login, used, ipKnown, taken, troubles, excused>>

\* Authenticator.invalidate: a session this young is not why the call failed.
TooYoung == session # None /\ now - session.minted < MinAge

\* head.status = 1: a dead session, or an account without a row to return.
CallRejected(c) ==
  /\ task[c].at = "call"
  /\ now < task[c].with.dies => Trouble
  /\ now >= task[c].with.dies => UNCHANGED troubles
  /\ IF task[c].retry /\ ~TooYoung
       THEN session' = None /\ task' = [task EXCEPT ![c] = [at |-> "lock", retry |-> FALSE, with |-> None]]
       ELSE task' = [task EXCEPT ![c] = Idle] /\ UNCHANGED session
  /\ UNCHANGED <<now, holder, login, used, ipKnown, taken, excused>>

-----------------------------------------------------------------------------

Tick ==
  /\ now < Horizon
  /\ now' = now + 1
  /\ UNCHANGED <<session, holder, task, login, used, ipKnown, taken, troubles, excused>>

Init ==
  /\ now = 1 /\ session = None /\ holder = None
  /\ task = [c \in Callers |-> Idle]
  /\ login = [window |-> 0, code |-> 0, since |-> 0]
  /\ used = None /\ ipKnown \in BOOLEAN
  /\ taken = {} /\ troubles = 0 /\ excused = {}

Next ==
  \/ \E c \in Callers :
       \/ Ask(c) \/ Enter(c)
       \/ ChooseWindow(c) \/ LearnIp(c) \/ IpFails(c)
       \/ TotpAccepted(c) \/ TotpRefused(c) \/ TotpLost(c)
       \/ AccessGranted(c) \/ AccessFails(c)
       \/ CallAnswered(c) \/ CallRejected(c)
  \/ Tick

Spec == Init /\ [][Next]_vars

-----------------------------------------------------------------------------

\* "One TOTP per 30-second window" (auth.py): no login presents a code the broker
\* has taken, unless the answer that said so was lost or the lookup of the public
\* address ran into the next window.
CodeNotReplayed ==
  \A c \in Callers :
    task[c].at = "totp" /\ login.code \in taken => login.code \in excused

=============================================================================
