-------------------------------- MODULE MCDesk --------------------------------
(* What becomes of one trigger, a question at a time: who enters it and which      *)
(* cards show it (Trigger), whether it is faded (Counter), and which contract is      *)
(* bought (Strikes); and from which contracts there is to choose (Universe). A       *)
(* behaviour asks one of them; the variables of the others stand still, mostly at    *)
(* None.                                                                             *)
EXTENDS Universe, Integers

CONSTANTS Slots, Bars, Operators, MaxTakes, MaxBoots,
          Rupee, TickSize, Atr, Tolerance, FutureGaps,
          Spot, Atrs, Targets, Kinds, Expiries

VARIABLES part,
          now, task, today, seen, positions, signals, rows, events, takes, boots,
          dir, flipped, equity, future, route, fade,
          stage, sig, quotes,
          asked, stale, taken, outcome

\* A rupee is sixty units; x is in tenths of a rupee.
R(x) == x * 6
Dailies == {<<R(1016), R(1000), R(1008)>>, <<R(1020), R(984), R(1014)>>, <<R(1008), R(996), R(999)>>}
Weeklies == {<<R(1016), R(996), R(1004)>>, <<R(1012), R(970), R(990)>>}
Closes == {R(x) : x \in {1004, 1008}}
Candles == {<<R(1), R(1)>>, <<R(6), R(2)>>, <<R(2), R(6)>>}

Chain == {970, 985, 1015, 1030, 1045}
Liq(f) == [k \in Chain |-> f[(IF k < Spot THEN Spot - k ELSE k - Spot) \div 15]]
Liquidities ==
  {Liq(f) : f \in {<< <<0, 0>>, <<0, 0>>, <<0, 0>> >>, << <<2, 2>>, <<2, 2>>, <<4, 4>> >>, << <<2, 2>>, <<3, 2>>, <<2, 3>> >>,
                   << <<2, 2>>, <<3, 3>>, <<0, 3>> >>}}
OldQuotes == {-2, -9}

\* A name whose front future expires on the first day, whose strikes are listed as it goes, and
\* a commodity.
Future(s, expiry) == [kind |-> "FUTURE", segment |-> s, strike |-> 0, listed |-> 0, expiry |-> expiry]
Option(k, listed) == [kind |-> "OPTION", segment |-> "NSE_FO", strike |-> k, listed |-> listed, expiry |-> 9]
Scrips == <<Future("NSE_FO", 0), Future("NSE_FO", 9), Option(100, 0), Option(110, 3),
            Future("MCX_FO", 9)>>
MCSegments == <<"NSE_FO", "MCX_FO">>
MCContracts == DOMAIN Scrips
MCKind == [c \in MCContracts |-> Scrips[c].kind]
MCSegment == [c \in MCContracts |-> Scrips[c].segment]
MCStrike == [c \in MCContracts |-> Scrips[c].strike]
MCExpiry == [c \in MCContracts |-> Scrips[c].expiry]
MCListed == [c \in MCContracts |-> Scrips[c].listed]
MCClose == [d \in 0..LastDay |-> IF d = 1 THEN 108 ELSE 96]

Enter == INSTANCE Trigger
Fade == INSTANCE Counter
Pick == INSTANCE Strikes

ASSUME DeskAssumption ==
  UniverseAssumptions /\ Enter!TriggerAssumption /\ Fade!CounterAssumption
  /\ Pick!StrikesAssumption

enterVars == <<task, today, seen, positions, signals, rows, events, takes, boots>>
fadeVars == <<dir, flipped, equity, future, route, fade>>
pickVars == <<asked, stale, taken, outcome>>

NoTrigger ==
  /\ signals = <<>> /\ rows = <<>>
  /\ task = None /\ today = None /\ seen = None /\ positions = None
  /\ events = None /\ takes = None /\ boots = None

NoFade == dir = None /\ flipped = None /\ equity = None /\ future = None /\ route = None /\ fade = None

NoPick == asked = None /\ stale = None /\ taken = None /\ outcome = None

NoSignal == sig = None /\ quotes = None

\* Bounds: a signal of FUKAA sees no liquidity.
MCInit ==
  /\ Init
  /\ \/ part = "universe" /\ now = None /\ stage = None /\ NoSignal /\ NoTrigger /\ NoFade /\ NoPick
     \/ part = "trigger" /\ Enter!Init /\ stage = None /\ NoSignal /\ NoFade /\ NoPick
     \/ part = "fade" /\ Fade!Init /\ now = None /\ NoSignal /\ NoTrigger /\ NoPick
     \/ part = "pick" /\ Pick!Init /\ (sig.book = "FUKAA" => sig.liq = Pick!NoLiquidity) /\ NoTrigger /\ NoFade

MCNext ==
  /\ UNCHANGED part
  /\ \/ part = "universe" /\ Next
          /\ UNCHANGED <<now, enterVars, stage, sig, quotes, fadeVars, pickVars>>
     \/ part = "trigger" /\ Enter!Next /\ UNCHANGED <<vars, stage, sig, quotes, fadeVars, pickVars>>
     \/ part = "fade" /\ Fade!Next /\ UNCHANGED <<vars, now, enterVars, sig, quotes, pickVars>>
     \/ part = "pick" /\ Pick!Next /\ UNCHANGED <<vars, enterVars, fadeVars>>

MCSpec == MCInit /\ [][MCNext]_<<part, vars, now, enterVars, stage, sig, quotes, fadeVars, pickVars>>

\* Of Trigger, Counter and Strikes, each of its own behaviours.
OneEntryPerSignal == part = "trigger" => Enter!OneEntryPerSignal
EntriesAreShown == part = "trigger" => Enter!EntriesAreShown
PlansAreSound == part = "fade" => Fade!PlansAreSound
AgeIsBounded == part = "pick" => Pick!AgeIsBounded

===============================================================================
