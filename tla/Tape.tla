-------------------------------- MODULE Tape --------------------------------
(* The tick tape (ops/tape.py) and the archive it is kept in (ops/archive.py), for    *)
(* one underlying: which contracts are recorded each second, which rows are written,  *)
(* and how a day's rows reach their file and outlive the window of their stream.      *)
(* A flush runs in a worker thread beside the clock that records.                     *)
EXTENDS Integers, FiniteSets

CONSTANTS
  Options,    \* contracts of the underlying
  Legs,       \* its equity and its front future (legs_for)
  Quotes,     \* what a code's quote can be: price, sides and the broker's time
  Secs, Days, \* bound: seconds of a day, and days
  CandidateTtl, AfterClose, \* CANDIDATE_TTL_S, AFTER_CLOSE_S
  FlushEvery, \* archive_flush_s
  Keep,       \* keep_sessions: day files of the tape kept
  MaxTroubles,\* bound: writes that fail, rows lost to a race, crashes
  None

Codes == Options \union Legs

\* A row of tape.
Row == [ts : Nat, code : Codes, quote : Quotes, held : BOOLEAN]

TapeAssumptions ==
  /\ {Secs, Days, CandidateTtl, AfterClose, FlushEvery, Keep, MaxTroubles} \subseteq Nat
  /\ Keep > 0 /\ FlushEvery > 0 /\ Secs > 0 /\ Days > 0 /\ Quotes # {}
  /\ None \notin [quote : Quotes, day : Int, held : BOOLEAN]
  /\ None \notin [rows : SUBSET Row, began : Nat, fine : BOOLEAN]

\* math.inf, which a held contract's watch is pinned to: later than any second of the model.
Held == Secs * Days + CandidateTtl + AfterClose + 1

VARIABLES
  clock, quote, \* the second, and each code's quote
  open,       \* contracts of open positions
  watch,      \* Tape._watch: None or [until, held]
  last,       \* Tape._last: None or the key of the last row written
  buffer,     \* DailyArchive._rows["quotes"]: rows
  flush,      \* the worker: None, or the days left, the rows it has taken and whether all went well
  flushed,    \* when the worker was last sent out
  file, aside,\* the day files of quotes and of quotes_held: rows
  troubles,
  due,        \* ghost: what the exits saw of a held symbol: [ts, code, quote]
  torn,       \* ghost: codes whose last row was lost to a race
  saved       \* ghost: the second before which every row has reached its file

vars == <<clock, quote, open, watch, last, buffer, flush, flushed, file, aside, troubles, due, torn, saved>>

DayOf(ts) == ts \div Secs
Today == DayOf(clock)
Max2(a, b) == IF a > b THEN a ELSE b

-----------------------------------------------------------------------------
(* The tape *)

\* Tape.follow: a candidate lives ttl seconds from its last look; a held one is not shortened.
Follow(c) ==
  /\ watch' = [watch EXCEPT ![c] =
       IF @ = None THEN [until |-> clock + CandidateTtl, held |-> 0 - 1]
       ELSE [@ EXCEPT !.until = Max2(@, clock + CandidateTtl)]]
  /\ watch' # watch
  /\ UNCHANGED <<clock, quote, open, last, buffer, flush, flushed, file, aside, troubles, due, torn, saved>>

Opens(c) ==
  /\ c \notin open
  /\ open' = open \union {c}
  /\ UNCHANGED <<clock, quote, watch, last, buffer, flush, flushed, file, aside, troubles, due, torn, saved>>

Closes(c) ==
  /\ c \in open
  /\ open' = open \ {c}
  /\ UNCHANGED <<clock, quote, watch, last, buffer, flush, flushed, file, aside, troubles, due, torn, saved>>

\* sample's first half: what is held is pinned, what was held gets its grace once, and what has
\* lapsed goes.
Pinned(c) ==
  IF c \in open THEN [until |-> Held, held |-> Held]
  ELSE IF watch[c] = None THEN None
  ELSE LET w == IF watch[c].held = Held
                THEN [until |-> clock + AfterClose, held |-> clock + AfterClose] ELSE watch[c]
       IN  IF w.until < clock THEN None ELSE w

IsHeld(w) == w # None /\ clock <= w.held

\* What must change for a row to be written: the quote with its time, which is of today for
\* whatever is held, or that the symbol became held.
Key(c, held) == [quote |-> quote[c], day |-> Today, held |-> held]

\* Tape.sample: a second of tape. A row is lost when the worker takes the day's list between
\* _add's look-up of it and its append. Bounds: one code's quote moves in a second, and a day
\* ends with every position sold.
Sample(lost) ==
  LET w == [c \in Options |-> Pinned(c)]
      live == {c \in Options : w[c] # None}
      held == \E c \in live : IsHeld(w[c])
      seen == live \union (IF live = {} THEN {} ELSE Legs)
      kept == [c \in Codes |-> IF c \in Options /\ w[c] = None THEN None ELSE last[c]]
      fresh == {c \in seen : kept[c] # Key(c, held)}
      rows == {[ts |-> clock, code |-> c, quote |-> quote[c], held |-> held] : c \in fresh \ lost}
  IN  /\ lost \subseteq fresh
      /\ lost # {} => troubles < MaxTroubles /\ flush # None /\ DayOf(flush.began) = Today
      /\ troubles' = IF lost = {} THEN troubles ELSE troubles + 1
      /\ watch' = w
      /\ last' = [c \in Codes |-> IF c \in fresh THEN Key(c, held) ELSE kept[c]]
      /\ buffer' = buffer \union rows
      /\ torn' = (torn \ fresh) \union lost
      /\ due' = due \union {[ts |-> clock, code |-> c, quote |-> quote[c]] :
                  c \in {d \in seen \ torn' : held /\ (d \in Options => IsHeld(w[d]))}}
      /\ clock < Secs * Days - 1
      /\ clock' = clock + 1
      /\ quote' \in {q \in [Codes -> Quotes] : Cardinality({c \in Codes : q[c] # quote[c]}) <= 1}
      /\ open' = IF DayOf(clock') = Today THEN open ELSE {}
      /\ UNCHANGED <<flush, flushed, file, aside, saved>>

-----------------------------------------------------------------------------
(* The archive *)

FilesOf(rows) == {DayOf(r.ts) : r \in rows}

\* DailyArchive.flush begins: the worker takes every buffered day's rows.
FlushBegins ==
  /\ flush = None /\ clock - flushed >= FlushEvery
  /\ flushed' = clock
  /\ flush' = [rows |-> buffer, began |-> clock, fine |-> TRUE]
  /\ buffer' = {}
  /\ UNCHANGED <<clock, quote, open, watch, last, file, aside, troubles, due, torn, saved>>

\* Mutant: the rows of a failed write are gone.
DropsRows(rows) == buffer

\* "keep them for the next attempt".
PutBack(rows) == buffer \union rows

\* _write: the day's file is read, merged and replaced; or the rows go back to the buffer.
DayWritten(d, fine) ==
  LET rows == {r \in flush.rows : DayOf(r.ts) = d}
  IN  /\ flush # None /\ rows # {}
      /\ fine \/ troubles < MaxTroubles
      /\ troubles' = IF fine THEN troubles ELSE troubles + 1
      /\ file' = IF fine THEN file \union rows ELSE file
      /\ buffer' = IF fine THEN buffer ELSE PutBack(rows)
      /\ flush' = [flush EXCEPT !.rows = @ \ rows, !.fine = @ /\ fine]
      /\ UNCHANGED <<clock, quote, open, watch, last, flushed, aside, due, torn, saved>>

\* _set_aside: every row of a code that was held at any point of the day.
SetAside(d) ==
  {r \in file : DayOf(r.ts) = d /\ \E h \in file : h.code = r.code /\ DayOf(h.ts) = d /\ h.held}

\* prune: the oldest day files past the window go, each after its held rows were set aside; a
\* day whose rows could not be moved stays for the next flush.
FlushEnds(kept) ==
  LET days == FilesOf(file)
      old == {d \in days : Cardinality({e \in days : e > d}) >= Keep}
  IN  /\ flush # None /\ flush.rows = {}
      /\ kept \subseteq {d \in old : SetAside(d) # {}}
      /\ kept # {} => troubles < MaxTroubles
      /\ troubles' = IF kept = {} THEN troubles ELSE troubles + 1
      /\ aside' = aside \union UNION {SetAside(d) : d \in old \ kept}
      /\ file' = {r \in file : DayOf(r.ts) \notin old \ kept}
      /\ saved' = IF flush.fine THEN flush.began ELSE saved
      /\ flush' = None
      /\ UNCHANGED <<clock, quote, open, watch, last, buffer, flushed, due, torn>>

\* The process dies, perhaps between two writes of a flush, and starts again: the position is
\* recovered, the watches are not.
Crash ==
  /\ troubles < MaxTroubles
  /\ troubles' = troubles + 1
  /\ buffer' = {} /\ flush' = None
  /\ watch' = [c \in Options |-> None] /\ last' = [c \in Codes |-> None]
  /\ due' = {x \in due : x.ts < saved} /\ torn' = {}
  /\ UNCHANGED <<clock, quote, open, flushed, file, aside, saved>>

Init ==
  /\ clock = 0 /\ quote = [c \in Codes |-> CHOOSE q \in Quotes : TRUE] /\ open = {}
  /\ watch = [c \in Options |-> None] /\ last = [c \in Codes |-> None]
  /\ buffer = {} /\ flush = None /\ flushed = 0 /\ file = {} /\ aside = {}
  /\ troubles = 0 /\ due = {} /\ torn = {} /\ saved = 0

Next ==
  \/ \E c \in Options : Follow(c) \/ Opens(c) \/ Closes(c)
  \/ \E lost \in SUBSET Codes : Sample(lost)
  \/ FlushBegins
  \/ \E d \in 0..Days, fine \in BOOLEAN : DayWritten(d, fine)
  \/ \E kept \in SUBSET (0..Days) : FlushEnds(kept)
  \/ Crash

Spec == Init /\ [][Next]_vars

-----------------------------------------------------------------------------

\* read_day and Series.at: the last row of the day at or before the second, wherever it is.
At(rows, code, ts) ==
  LET before == {r \in rows : r.code = code /\ DayOf(r.ts) = DayOf(ts) /\ r.ts <= ts}
  IN  {r.quote : r \in {x \in before : \A y \in before : y.ts <= x.ts}}

\* "a trade stays replayable": for every second a contract was held, its tape and its legs'
\* answer with the quote the exits saw - from the file, from what was set aside when the file
\* left its window, or from rows still on their way - whatever write failed and whenever the
\* process died, except for rows that had not been flushed when it did.
EveryHoldIsReplayable ==
  LET rows == buffer \union file \union aside \union (IF flush = None THEN {} ELSE flush.rows)
  IN  \A x \in due : At(rows, x.code, x.ts) = {x.quote}

=============================================================================
