------------------------------- MODULE Universe -------------------------------
(* Which contracts the engine knows, picks and is subscribed to: the scrip master *)
(* and its cache (instrument/catalogue.py), the futures and the hand of strikes   *)
(* of every name (instrument/universe.py), and what the engine does with them at  *)
(* the boot, at midnight, at 09:20 and when it trades (engine.py).  A segment     *)
(* holds one name without a cash leg, and of its options the calls.  How a        *)
(* subscription reaches the broker is Feed's; the wider band of strikes that is   *)
(* subscribed to open interest alone is left out.                                 *)
EXTENDS Naturals, Sequences, FiniteSets

CONSTANTS
    SegmentList,   \* Settings.segment_list
    Contracts,
    Kind, Segment, Strike, ExpiresOn,   \* of a contract; ExpiresOn is a day
    ListedAt,        \* the moment a contract enters the broker's master
    Close,         \* day -> the previous close the strikes are picked around
    FuturesCount,  \* UniversePolicy.futures_count
    PerSide,       \* UniversePolicy.strikes_per_side
    Band,          \* UniversePolicy.band_pct, as a distance
    MinDays,       \* UniversePolicy.min_days_to_expiry
    KeptFiles,     \* the newest files of a segment that stay on disk
    LastDay, MaxFailures, MaxStops, MaxBuys,   \* bounds
    None

Segments == {SegmentList[i] : i \in DOMAIN SegmentList}

\* A day has two moments: the night, and the morning from 09:20 on.
Moments == 0..(2 * LastDay + 1)
DayOf(m) == m \div 2

UniverseAssumptions ==
    /\ IsFiniteSet(Contracts) /\ LastDay \in Nat
    /\ Kind \in [Contracts -> {"FUTURE", "OPTION"}] /\ Segment \in [Contracts -> Segments]
    /\ {Strike[c] : c \in Contracts} \union {ExpiresOn[c] : c \in Contracts} \subseteq Nat
    /\ ListedAt \in [Contracts -> Moments] /\ Close \in [0..LastDay -> Nat]
    /\ None \notin Moments

VARIABLES
    moment,
    files,      \* segment -> the days on disk, each with the moment its master was fetched
    catalogue,  \* CatalogueLoader.catalogue: its day and, of each segment, which master it holds
    load,       \* CatalogueLoader._load under way
    engine,     \* "down", "boot" or "up"
    groups,     \* segment -> futures and options of its ScripGroup
    mf, oi,     \* the contracts the feed is asked for, of prices and of open interest
    held,       \* contracts of the open positions, in the ledger too
    rolled,     \* _housekeeping's last_day
    rebuilt,    \* _intraday_rebuild_day
    failures, stops, buys

vars == <<moment, files, catalogue, load, engine, groups, mf, oi, held, rolled, rebuilt,
          failures, stops, buys>>

Today == DayOf(moment)

-----------------------------------------------------------------------------
(* The catalogue.                                                               *)

\* A master lists what was listed by then and has not expired.
Master(s, m) ==
    {c \in Contracts : Segment[c] = s /\ m # None /\ ListedAt[c] <= m /\ ExpiresOn[c] >= DayOf(m)}

Known(kind, s, of) == {c \in Master(s, of[s]) : Kind[c] = kind}

Blank == [day |-> None, of |-> [s \in Segments |-> None]]

NoLoad == [why |-> None, day |-> None, todo |-> <<>>, of |-> Blank.of]

\* ensure: a catalogue of the day is not loaded again unless the load is forced, and a forced
\* load forgets the day's files first.
Ensures(why, force) ==
    IF catalogue.day = Today /\ ~force
      THEN UNCHANGED <<files, load>>
      ELSE /\ load' = [why |-> why, day |-> Today, todo |-> SegmentList, of |-> Blank.of]
           /\ files' = IF force THEN [s \in Segments |-> [files[s] EXCEPT ![Today] = None]] ELSE files

DaysOnDisk(s) == {d \in DOMAIN files[s] : files[s][d] # None}

\* _newest_cached.
Newest(s) ==
    IF DaysOnDisk(s) = {} THEN None
    ELSE files[s][CHOOSE d \in DaysOnDisk(s) : \A e \in DaysOnDisk(s) : e <= d]

\* The day's file is written, and the oldest are deleted.
Written(s) ==
    LET all == DaysOnDisk(s) \union {load.day}
    IN  [d \in 0..LastDay |-> IF d = load.day THEN moment
                              ELSE IF Cardinality({e \in all : e > d}) >= KeptFiles THEN None
                              ELSE files[s][d]]

Read(s, m) == load' = [load EXCEPT !.todo = Tail(@), !.of[s] = m]

\* _text_for: the day's file, else the broker's answer, else the newest file there is.
Fetches(s) ==
    /\ load.todo # <<>> /\ s = Head(load.todo)
    /\ \/ /\ files[s][load.day] # None
          /\ Read(s, files[s][load.day]) /\ UNCHANGED <<files, failures>>
       \/ /\ files[s][load.day] = None
          /\ Read(s, moment) /\ files' = [files EXCEPT ![s] = Written(s)] /\ UNCHANGED failures
       \/ /\ files[s][load.day] = None /\ failures < MaxFailures
          /\ failures' = failures + 1
          /\ Read(s, Newest(s)) /\ UNCHANGED files
    /\ UNCHANGED <<moment, catalogue, engine, groups, mf, oi, held, rolled, rebuilt, stops, buys>>

\* The load is done: its catalogue replaces the one before it.
Replaces(why) ==
    /\ load.why = why /\ load.todo = <<>>
    /\ catalogue' = [day |-> load.day, of |-> load.of]
    /\ load' = NoLoad

-----------------------------------------------------------------------------
(* The groups.                                                                  *)

\* The n of a set that rank lowest.
Lowest(S, rank, n) == {c \in S : Cardinality({e \in S : rank[e] < rank[c]}) < n}

Away == [c \in Contracts |-> IF Strike[c] < Close[Today] THEN Close[Today] - Strike[c] ELSE Strike[c] - Close[Today]]

Live(kind, s, of) == {c \in Known(kind, s, of) : ExpiresOn[c] >= Today}

\* Mutant: the front future only.
FrontOf(s, of) == Lowest(Live("FUTURE", s, of), ExpiresOn, 1)

\* _unexpired_futures: the front month's and the next.
FuturesOf(s, of) == Lowest(Live("FUTURE", s, of), ExpiresOn, FuturesCount)

\* select_strikes: the strikes of the nearest expiry worth trading, closest to the close.
OptionsOf(s, of) ==
    LET far == {c \in Known("OPTION", s, of) : ExpiresOn[c] >= Today + MinDays}
        near == {c \in far : \A e \in far : ExpiresOn[c] <= ExpiresOn[e]}
    IN  Lowest({c \in near : Away[c] <= Band}, Away, PerSide)

Group(s, of) == [futures |-> FuturesOf(s, of), options |-> OptionsOf(s, of)]

\* build_underlyings: a name whose segment the master does not have is not in the universe.
Built(of) ==
    [s \in Segments |-> IF FuturesOf(s, of) = {} THEN None ELSE Group(s, of)]

\* select_all: the strikes are picked again; who is in the universe, and its futures, are not.
Repicked(of) ==
    [s \in Segments |-> IF groups[s] = None THEN None
                        ELSE [groups[s] EXCEPT !.options = OptionsOf(s, of)]]

Hand(gs) == UNION {gs[s].options : s \in {x \in Segments : gs[x] # None}}
Futures(gs) == UNION {gs[s].futures : s \in {x \in Segments : gs[x] # None}}

-----------------------------------------------------------------------------
(* The engine.                                                                  *)

Init ==
    /\ moment = 0 /\ engine = "down"
    /\ files = [s \in Segments |-> [d \in 0..LastDay |-> None]]
    /\ catalogue = Blank /\ load = NoLoad
    /\ groups = [s \in Segments |-> None]
    /\ mf = {} /\ oi = {} /\ held = {}
    /\ rolled = None /\ rebuilt = None
    /\ failures = 0 /\ stops = 0 /\ buys = 0

Passes ==
    /\ moment + 1 \in Moments
    /\ moment' = moment + 1
    /\ UNCHANGED <<files, catalogue, load, engine, groups, mf, oi, held, rolled, rebuilt,
                   failures, stops, buys>>

\* _boot_market begins.
Boots ==
    /\ engine = "down"
    /\ engine' = "boot"
    /\ Ensures("boot", FALSE)
    /\ UNCHANGED <<moment, catalogue, groups, mf, oi, held, rolled, rebuilt, failures, stops, buys>>

\* Mutant: only what the hand holds today is subscribed.
BootedWithTheHandOnly ==
    /\ Replaces("boot")
    /\ groups' = Built(load.of)
    /\ mf' = Hand(groups') \union Futures(groups')
    /\ oi' = Hand(groups') \union Futures(groups')
    /\ engine' = "up" /\ rolled' = Today
    /\ UNCHANGED <<moment, files, held, rebuilt, failures, stops, buys>>

\* It ends: groups, strikes, subscriptions, and those of the positions the ledger brought back.
Booted ==
    /\ Replaces("boot")
    /\ groups' = Built(load.of)
    /\ mf' = Hand(groups') \union Futures(groups') \union held
    /\ oi' = mf'
    /\ engine' = "up" /\ rolled' = Today
    /\ UNCHANGED <<moment, files, held, rebuilt, failures, stops, buys>>

\* Midnight, as _housekeeping finds it: whatever the load brings, the day is done with.
Rolls ==
    /\ engine = "up" /\ load = NoLoad /\ rolled # Today
    /\ rolled' = Today
    /\ Ensures("roll", FALSE)
    /\ UNCHANGED <<moment, catalogue, engine, groups, mf, oi, held, rebuilt, failures, stops, buys>>

Rolled ==
    /\ Replaces("roll")
    /\ UNCHANGED <<moment, files, engine, groups, mf, oi, held, rolled, rebuilt, failures, stops, buys>>

\* _intraday_universe_rebuild, once a day from 09:20, in a task of its own.
Rebuilds ==
    /\ engine = "up" /\ load = NoLoad /\ rolled = Today
    /\ moment % 2 = 1 /\ rebuilt # Today
    /\ rebuilt' = Today
    /\ Ensures("rebuild", TRUE)
    /\ UNCHANGED <<moment, catalogue, engine, groups, mf, oi, held, rolled, failures, stops, buys>>

\* Only what the hand did not hold before is asked for; nothing is handed back.
Repicks ==
    /\ Replaces("rebuild")
    /\ groups' = Repicked(load.of)
    /\ LET fresh == Hand(groups') \ Hand(groups)
       IN  mf' = mf \union fresh /\ oi' = oi \union fresh
    /\ UNCHANGED <<moment, files, engine, held, rolled, rebuilt, failures, stops, buys>>

\* _select_instrument: a strike of the master's chain, quoted and so followed; or the front
\* future, if it has a quote.
Quoted(s) == Live("OPTION", s, catalogue.of) \union (Lowest(Live("FUTURE", s, catalogue.of), ExpiresOn, 1) \intersect mf)

Buys(s, c) ==
    /\ engine = "up" /\ groups[s] # None /\ buys < MaxBuys
    /\ c \in Quoted(s)
    /\ buys' = buys + 1
    /\ held' = held \union {c} /\ mf' = mf \union {c}
    /\ UNCHANGED <<moment, files, catalogue, load, engine, groups, oi, rolled, rebuilt, failures, stops>>

Sells(c) ==
    /\ engine = "up" /\ held' = held \ {c}
    /\ UNCHANGED <<moment, files, catalogue, load, engine, groups, mf, oi, rolled, rebuilt,
                   failures, stops, buys>>

\* The process ends, also in the middle of a load; the files and the positions stay.
Stops ==
    /\ engine # "down" /\ stops < MaxStops
    /\ stops' = stops + 1 /\ engine' = "down"
    /\ catalogue' = Blank /\ load' = NoLoad
    /\ groups' = [s \in Segments |-> None] /\ mf' = {} /\ oi' = {}
    /\ rolled' = None /\ rebuilt' = None
    /\ UNCHANGED <<moment, files, held, failures, buys>>

Next ==
    \/ Passes \/ Boots \/ Booted \/ Rolls \/ Rolled \/ Rebuilds \/ Repicks \/ Stops
    \/ \E s \in Segments : Fetches(s) \/ \E c \in Contracts : Buys(s, c)
    \/ \E c \in held : Sells(c)

Spec == Init /\ [][Next]_vars

-----------------------------------------------------------------------------
(* Whatever the engine picks its trades from, or holds, it is asked prices of:  *)
(* through midnights, rebuilds on an older master, restarts and positions of    *)
(* yesterday's strikes (engine.py, _subscribe_open_positions: "subscribed       *)
(* whether or not today's strike shortlist still contains it").                 *)
UniverseIsPriced ==
    engine = "up" =>
        /\ Hand(groups) \union Futures(groups) \subseteq mf \intersect oi
        /\ held \subseteq mf

(* "A rollover never leaves the OI source empty" (UniversePolicy.futures_count), *)
(* in a process that has seen one expiry.                                        *)
OiSourceSurvivesRoll ==
    engine = "up" =>
        \A s \in Segments : groups[s] # None =>
            \E c \in oi : Segment[c] = s /\ Kind[c] = "FUTURE" /\ ExpiresOn[c] >= Today

=============================================================================
