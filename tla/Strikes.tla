------------------------------- MODULE Strikes -------------------------------
(* Which contract a signal is traded in: Engine._handle_signal down to the order, *)
(* Engine._select_instrument and the rules of instrument/select.py.  One signal    *)
(* on one name.  Strikes are rupees, time goes in tens of seconds, deltas in       *)
(* thousandths.  A quote is an instant and a kind: "good", "cheap" (below the      *)
(* premium floor) or "thin" (one-sided, or a spread too wide).                     *)
EXTENDS Integers, FiniteSets, FiniteSetsExt

CONSTANTS Spot, Chain, Atrs, Targets,
          Liquidities, \* strike -> <<volume, open interest>>
          OldQuotes,   \* instants of the quotes held when the signal comes
          Kinds,       \* what the broker's rows are
          Expiries,    \* days to the expiries that are listed
          None

MaxQuoteAge == 3   \* SelectionPolicy.max_quote_age_s
RefreshAge == 2    \* _ensure_quotes asks for what is older
RestTimeout == 3   \* the broker client's timeout
SocketWait == 1    \* bound: a subscription leaves within ten seconds
MinDelta == 200
MinDaysToExpiry == 2
Future == 0        \* the front future is no strike

StrikesAssumption ==
  /\ Spot \in Nat \ {0} /\ Chain \subseteq Nat \ {Future, Spot} /\ IsFiniteSet(Chain)
  /\ Atrs \subseteq Nat /\ Targets \subseteq Nat \union {None} /\ OldQuotes \subseteq Int

VARIABLES now, stage,
          sig,     \* the signal and what is known of its name
          quotes,  \* Engine.quotes
          asked,   \* the clock _select_instrument read first
          stale,   \* the strikes the broker was asked for
          taken,   \* the contract chosen
          outcome  \* the decision in the ledger

vars == <<now, stage, sig, quotes, asked, stale, taken, outcome>>

Bullish == sig.dir = "BULLISH"
Dist(a, b) == IF a < b THEN b - a ELSE a - b

\* StrategyKeys: the family that trades cheap contracts, and one that does not.
NoPremiumFloor == {"FUDKII", "RT_X"}

\* SEGMENT_BOOKS: commodities are the MCX book's, the rest everybody else's.
BookTrades(book, segment) == (book = "RT_MCX") <=> (segment = "MCX")

OutOfTheMoney == {k \in Chain : IF Bullish THEN k > Spot ELSE k < Spot}
Pool == IF OutOfTheMoney = {} THEN Chain ELSE OutOfTheMoney

\* What of the name this signal can be traded in.
Listed == IF sig.segment = "MCX" THEN {Future} ELSE Pool

NoLiquidity == [k \in Chain |-> <<0, 0>>]

Signals ==
  [segment : {"NSE", "MCX"}, dir : {"BULLISH", "BEARISH"}, book : {"FUDKII", "FUKAA", "RT_MCX"},
   target : Targets, atr : Atrs, liq : Liquidities, funded : BOOLEAN]

\* What fires a signal: the two strategies; the operator, for the book he takes it for. Without
\* an average range there is no watch, and nobody looks at liquidity.
Init ==
  /\ now = 0 /\ stage = "start" /\ asked = 0 /\ stale = {} /\ taken = None /\ outcome = None
  /\ sig \in Signals
  /\ IF sig.segment = "MCX" THEN sig.target = None /\ sig.atr = 0 /\ sig.liq = NoLiquidity
                           ELSE sig.book # "RT_MCX" /\ sig.funded /\ (sig.atr = 0 => sig.liq = NoLiquidity)
  /\ quotes \in [Listed -> {None} \union [ts : OldQuotes, kind : {"good"}]]

-----------------------------------------------------------------------------
(* instrument/select.py                                                           *)

\* choose_expiry: the nearest that is not about to lapse.
Expiry == {d \in Expiries : d >= MinDaysToExpiry}

\* min over a list in rising order: the first of two that are as near.
Nearest(S, level) ==
  CHOOSE k \in S : \A j \in S : Dist(k, level) < Dist(j, level) \/ (Dist(k, level) = Dist(j, level) /\ k <= j)

\* estimate_delta
Delta(strike) ==
  LET off == ((IF Bullish THEN strike - Spot ELSE Spot - strike) * 1000) \div Spot
  IN  IF off <= 0 THEN Min({850, 500 - off * 6}) ELSE Max({150, 500 - off * 8})

\* otm_strike_anchor: never behind the spot.
Anchor ==
  IF sig.target = None \/ (Bullish /\ sig.target < Spot) \/ (~Bullish /\ sig.target > Spot)
    THEN Spot ELSE sig.target

OneAtrOut == IF Bullish THEN Spot + sig.atr ELSE Spot - sig.atr

\* Engine._strike_watch: the two candidates and what lies between them and the spot.
Watch ==
  IF sig.atr = 0 \/ OutOfTheMoney = {} THEN {}
  ELSE LET levels == {OneAtrOut} \union ({sig.target} \ {None})
           edges == {Nearest(OutOfTheMoney, l) : l \in levels} \union {Spot}
       IN  {k \in OutOfTheMoney : Min(edges) <= k /\ k <= Max(edges)}

\* Engine.liquidity_for knows the watch alone.
Liquidity(k) == IF k \in Watch THEN sig.liq[k] ELSE <<0, 0>>

Measures == {1, 2}

\* beats_on_liquidity: by half as much again, on every measure either of them has.
Beats(b, a) ==
  LET known == {i \in Measures : Liquidity(a)[i] > 0 \/ Liquidity(b)[i] > 0}
  IN  known # {} /\ \A i \in known : 2 * Liquidity(b)[i] >= 3 * Liquidity(a)[i]

A == Nearest(Pool, OneAtrOut)
B == IF sig.target = None THEN A ELSE Nearest(Pool, sig.target)

\* strike_candidates: best first.
Picks ==
  LET live == {k \in {A, B} : Delta(k) >= MinDelta}
  IN  IF A = B THEN <<A>>
      ELSE IF live = {} THEN <<>>
      ELSE IF Cardinality(live) = 1 THEN <<CHOOSE k \in live : TRUE>>
      ELSE IF Beats(B, A) THEN <<B, A>> ELSE <<A, B>>

\* rank_by_liquidity: the ranks on the two measures together, then the nearer to the anchor.
RankAmong(S, k) ==
  LET places(i) == Cardinality({Liquidity(j)[i] : j \in {x \in S : Liquidity(x)[i] > Liquidity(k)[i]}})
  IN  places(1) + places(2)

\* The strikes in the order select_option walks them: a strike's place is what it sorts by.
TwoCandidates == Watch # {}
Order ==
  LET picks == IF TwoCandidates THEN Picks ELSE <<>>
      rest == Pool \ {picks[i] : i \in DOMAIN picks}
      anchor == IF picks = <<>> THEN Anchor ELSE picks[1]
  IN  [k \in Pool |->
         IF k \in rest
           THEN <<1, IF TwoCandidates THEN RankAmong(rest, k) ELSE 0, Dist(k, anchor), k>>
           ELSE <<0, CHOOSE i \in DOMAIN picks : picks[i] = k, 0, 0>>]

Before(p, q) == \E i \in 1..4 : p[i] < q[i] /\ \A j \in 1..(i - 1) : p[j] = q[j]

\* Mutant: a quote of any age will do.
AnyAge(c) ==
  /\ quotes[c] # None
  /\ quotes[c].kind = "good" \/ (quotes[c].kind = "cheap" /\ sig.book \in NoPremiumFloor)

\* Fresh by the clock that was read before the broker was asked, two-sided and in the band.
Tradeable(c) ==
  /\ quotes[c] # None /\ asked - quotes[c].ts <= MaxQuoteAge
  /\ quotes[c].kind = "good" \/ (quotes[c].kind = "cheap" /\ sig.book \in NoPremiumFloor)

\* select_option: the first tradeable strike of the walk.
SelectOption ==
  LET order == Order
      good == {k \in Pool : Tradeable(k)}
  IN  IF good = {} THEN None ELSE CHOOSE k \in good : \A j \in good \ {k} : Before(order[k], order[j])

\* select_future: a fresh quote, of whatever kind.
SelectFuture == IF quotes[Future] # None /\ asked - quotes[Future].ts <= MaxQuoteAge THEN Future ELSE None

-----------------------------------------------------------------------------
(* Engine._handle_signal                                                          *)

Chooses(contract) ==
  /\ taken' = contract
  /\ IF contract = None THEN stage' = "done" /\ outcome' = "NO_INSTRUMENT"
                        ELSE stage' = "subscribe" /\ UNCHANGED outcome

Begins ==
  /\ stage = "start" /\ asked' = now
  /\ IF sig.segment = "MCX"
       THEN Chooses(SelectFuture)
       ELSE IF Expiry = {} THEN stage' = "done" /\ outcome' = "NO_INSTRUMENT" /\ UNCHANGED taken
       ELSE stage' = "depth" /\ UNCHANGED <<taken, outcome>>
  /\ UNCHANGED <<now, sig, quotes, stale>>

\* _ensure_quotes: the depth is followed first, then what is missing or old is asked for.
Old == {k \in Pool : quotes[k] = None \/ now' - quotes[k].ts > RefreshAge}

Followed ==
  /\ stage = "depth" /\ now' \in asked..(asked + SocketWait)
  /\ stale' = Old
  /\ IF Old = {} THEN Chooses(SelectOption) ELSE stage' = "rest" /\ UNCHANGED <<taken, outcome>>
  /\ UNCHANGED <<sig, quotes, asked>>

Answered == now' \in now..(asked + SocketWait + RestTimeout)

\* The rows that come back are stamped when they come.
Refreshes ==
  /\ stage = "rest" /\ Answered /\ stage' = "choose"
  /\ \E rows \in [stale -> Kinds \union {None}] :
       quotes' = [c \in DOMAIN quotes |->
                    IF c \in stale /\ rows[c] # None THEN [ts |-> now', kind |-> rows[c]] ELSE quotes[c]]
  /\ UNCHANGED <<sig, asked, stale, taken, outcome>>

RefreshFails ==
  /\ stage = "rest" /\ Answered /\ stage' = "choose"
  /\ UNCHANGED <<sig, quotes, asked, stale, taken, outcome>>

Selects ==
  /\ stage = "choose" /\ Chooses(SelectOption)
  /\ UNCHANGED <<now, sig, quotes, asked, stale>>

\* A strike ticks while the answer is awaited (bound: one of them, once).
Ticks ==
  /\ stage = "rest" /\ \A k \in Pool : quotes[k] # None => quotes[k].ts < asked
  /\ \E k \in Pool, kind \in {"good", "cheap", "thin"} :
       /\ quotes[k] # None
       /\ quotes' = [quotes EXCEPT ![k] = [ts |-> now, kind |-> kind]]
  /\ UNCHANGED <<now, stage, sig, asked, stale, taken, outcome>>

\* The contract is subscribed; then every check, down to the order. funded stands for the
\* purse, the sizing, the exposure and the fill (EntryPath).
Orders ==
  /\ stage = "subscribe" /\ stage' = "done"
  /\ outcome' = IF ~BookTrades(sig.book, sig.segment) THEN "WRONG_SEGMENT"
                ELSE IF sig.funded THEN "FILLED" ELSE "DECLINED"
  /\ UNCHANGED <<now, sig, quotes, asked, stale, taken>>

Next ==
  \/ Begins \/ Followed \/ Refreshes \/ RefreshFails \/ Selects \/ Ticks \/ Orders

Spec == Init /\ [][Next]_vars

-----------------------------------------------------------------------------

\* A contract is chosen off a quote that is never older than the policy's age and the waits
\* between the clock it is judged by and the choice (engine.py:1937, select.py:56).
AgeIsBounded ==
  taken # None => now - quotes[taken].ts <= MaxQuoteAge + SocketWait + RestTimeout

=============================================================================
