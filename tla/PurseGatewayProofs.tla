------------------------ MODULE PurseGatewayProofs -------------------------
(***************************************************************************)
(* What the operations of a purse and of the gateway's bookkeeping         *)
(* preserve, for every purse and every gateway, and what a sum over a      *)
(* finite set is: the lemmas the proofs about entries and exits rest on.   *)
(*                                                                         *)
(* A sum is a recursive function on the subsets of its set, so a fact of   *)
(* it needs an induction.  It is had from a minimal counterexample: a      *)
(* non-empty set of subsets of a finite set has a smallest member (WFMin). *)
(***************************************************************************)
EXTENDS Wallet, Gateway, Functions, FiniteSetTheorems, WellFoundedInduction, TLAPS

LEMMA LargerNat == ASSUME NEW a \in Int PROVE Larger(0, a) \in Nat
  BY DEF Larger

LEMMA LargerInt == ASSUME NEW a \in Int, NEW b \in Int PROVE Larger(a, b) \in Int
  BY DEF Larger

LEMMA NewPurseType == ASSUME NEW initial \in Int PROVE NewPurse(initial) \in Purse
  BY DEF NewPurse, Purse, Halts

LEMMA DeployType ==
  ASSUME NEW w \in Purse, NEW amount \in Nat
  PROVE  Deploy(w, amount) \in Purse
  BY DEF Deploy, Purse

LEMMA ReleaseType ==
  ASSUME NEW w \in Purse, NEW amount \in Nat
  PROVE  Release(w, amount) \in Purse
<1>1. Larger(0, w.deployed - amount) \in Nat
  BY LargerNat DEF Purse
<1> QED
  BY <1>1 DEF Release, Purse

LEMMA ApplyChargesType ==
  ASSUME NEW w \in Purse, NEW amount \in Nat
  PROVE  ApplyCharges(w, amount) \in Purse
<1>1. w.balance - amount \in Int /\ w.charges_paid + amount \in Nat
  BY DEF Purse
<1>2. [w EXCEPT !.balance = w.balance - amount] \in Purse
  BY <1>1 DEF Purse
<1> QED
  BY <1>1, <1>2 DEF ApplyCharges, Purse

LEMMA ApplyCloseType ==
  ASSUME NEW w \in Purse, NEW pnl \in Int
  PROVE  ApplyClose(w, pnl) \in Purse
<1>0. w.peak \in Int /\ w.balance + pnl \in Int
  BY DEF Purse
<1>1. Larger(w.peak, w.balance + pnl) \in Int /\ w.balance + pnl \in Int
  BY <1>0, LargerInt
<1>2. [w EXCEPT !.balance = w.balance + pnl] \in Purse
  BY <1>1 DEF Purse
<1> QED
  BY <1>1, <1>2 DEF ApplyClose, Purse

LEMMA CheckBreakersType ==
  ASSUME NEW w \in Purse
  PROVE  CheckBreakers(w) \in Purse
  BY DEF CheckBreakers, Purse, Halts

\* What is deployed changes with a deploy and a release alone, and a release of
\* no more than is deployed is exact.
LEMMA DeployedAfter ==
  ASSUME NEW w \in Purse, NEW amount \in Nat, NEW pnl \in Int
  PROVE  /\ Deploy(w, amount).deployed = w.deployed + amount
         /\ amount <= w.deployed => Release(w, amount).deployed = w.deployed - amount
         /\ ApplyCharges(w, amount).deployed = w.deployed
         /\ ApplyClose(w, pnl).deployed = w.deployed
         /\ CheckBreakers(w).deployed = w.deployed
<1>1. Deploy(w, amount).deployed = w.deployed + amount
  BY DEF Deploy, Purse
<1>2. amount <= w.deployed => Release(w, amount).deployed = w.deployed - amount
  <2>1. w.deployed \in Nat /\ Release(w, amount).deployed = Larger(0, w.deployed - amount)
    BY DEF Release, Purse
  <2> QED
    BY <2>1 DEF Larger
<1>3. ApplyCharges(w, amount).deployed = w.deployed
  BY DEF ApplyCharges, Purse
<1>4. ApplyClose(w, pnl).deployed = w.deployed
  BY DEF ApplyClose, Purse
<1>5. CheckBreakers(w).deployed = w.deployed
  BY DEF CheckBreakers, Purse
<1> QED
  BY <1>1, <1>2, <1>3, <1>4, <1>5

\* The rupees a purse has had: its balance, and the charges it paid.
Had(w) == w.balance + w.charges_paid

LEMMA HadAfter ==
  ASSUME NEW w \in Purse, NEW amount \in Nat, NEW pnl \in Int
  PROVE  /\ Had(w) \in Int
         /\ Had(Deploy(w, amount)) = Had(w) /\ Had(Release(w, amount)) = Had(w)
         /\ Had(ApplyCharges(w, amount)) = Had(w)
         /\ Had(ApplyClose(w, pnl)) = Had(w) + pnl
         /\ Had(CheckBreakers(w)) = Had(w)
<1>1. w.balance \in Int /\ w.charges_paid \in Nat
  BY DEF Purse
<1>2. Had(Deploy(w, amount)) = Had(w) /\ Had(Release(w, amount)) = Had(w)
  BY DEF Deploy, Release, Purse, Had
<1>3. Had(ApplyCharges(w, amount)) = Had(w)
  <2>1. /\ ApplyCharges(w, amount).balance = w.balance - amount
        /\ ApplyCharges(w, amount).charges_paid = w.charges_paid + amount
    BY DEF ApplyCharges, Purse
  <2> QED
    BY <1>1, <2>1 DEF Had
<1>4. Had(ApplyClose(w, pnl)) = Had(w) + pnl
  <2>1. /\ ApplyClose(w, pnl).balance = w.balance + pnl
        /\ ApplyClose(w, pnl).charges_paid = w.charges_paid
    BY DEF ApplyClose, Purse
  <2> QED
    BY <1>1, <2>1 DEF Had
<1>5. Had(CheckBreakers(w)) = Had(w)
  BY DEF CheckBreakers, Purse, Had
<1> QED
  BY <1>1, <1>2, <1>3, <1>4, <1>5 DEF Had

\* An operation on the bookkeeping leaves a gateway with the same ids.
LEMMA GatewayTypes ==
  ASSUME NEW Ids, NEW g \in GatewayState(Ids), NEW id \in Ids
  PROVE  /\ See(g, id) \in GatewayState(Ids)
         /\ Reject(g) \in GatewayState(Ids)
         /\ Filled(g) \in GatewayState(Ids)
         /\ ShadowOk(g) \in GatewayState(Ids)
         /\ ResetBreaker(g) \in GatewayState(Ids)
<1>1. See(g, id) \in GatewayState(Ids)
  BY DEF See, GatewayState
<1>2. Reject(g) \in GatewayState(Ids)
  <2>1. g.consecutive_rejects + 1 \in Nat
    BY DEF GatewayState
  <2>2. (g.breaker_tripped \/ g.consecutive_rejects + 1 >= BreakerCap) \in BOOLEAN
    OBVIOUS
  <2>3. [g EXCEPT !.consecutive_rejects = g.consecutive_rejects + 1]
            \in GatewayState(Ids)
    BY <2>1 DEF GatewayState
  <2> QED
    BY <2>2, <2>3 DEF Reject, GatewayState
<1>3. Filled(g) \in GatewayState(Ids) /\ ShadowOk(g) \in GatewayState(Ids)
  <2>1. g.orders_today + 1 \in Nat
    BY DEF GatewayState
  <2>2. ShadowOk(g) \in GatewayState(Ids)
    BY DEF ShadowOk, GatewayState
  <2>3. Filled(g) = [ShadowOk(g) EXCEPT !.orders_today = g.orders_today + 1]
    BY DEF Filled, ShadowOk, GatewayState
  <2> QED
    BY <2>1, <2>2, <2>3 DEF GatewayState
<1>4. ResetBreaker(g) \in GatewayState(Ids)
  BY DEF ResetBreaker, GatewayState
<1> QED
  BY <1>1, <1>2, <1>3, <1>4

LEMMA RebootedType ==
  ASSUME NEW Ids, NEW ids \in SUBSET Ids
  PROVE  Rebooted(ids) \in GatewayState(Ids)
  BY DEF Rebooted, GatewayState

\* Nothing but a reboot makes the gateway forget an id.
LEMMA GatewayRemembers ==
  ASSUME NEW Ids, NEW g \in GatewayState(Ids), NEW id
  PROVE  /\ See(g, id).seen = g.seen \cup {id}
         /\ Reject(g).seen = g.seen
         /\ Filled(g).seen = g.seen
         /\ ShadowOk(g).seen = g.seen
         /\ ResetBreaker(g).seen = g.seen
  BY DEF See, Reject, Filled, ShadowOk, ResetBreaker, GatewayState

-----------------------------------------------------------------------------
(* Sums over a finite set *)

\* A set of natural numbers has a least member.
LEMMA LeastNumber ==
  ASSUME NEW T, T \subseteq Nat, T # {}
  PROVE  \E n \in T : n - 1 \notin T
<1>1. PICK n \in T : \A m \in T : ~(<<m, n>> \in OpToRel(<, Nat))
  BY NatLessThanWellFounded, WFMin
<1>2. \A m \in T : ~(m < n)
  BY <1>1 DEF OpToRel
<1> QED
  BY <1>2

\* A set of subsets of a finite set has a minimal member.
LEMMA SmallestSet ==
  ASSUME NEW S, IsFiniteSet(S), NEW T, T \subseteq SUBSET S, T # {}
  PROVE  \E s \in T : \A r \in SUBSET s : r # s => r \notin T
<1>1. IsWellFoundedOn(StrictSubsetOrdering(S), SUBSET S)
  BY FS_StrictSubsetOrderingWellFounded, FS_FiniteSubsetsOfFinite
<1>2. PICK s \in T : \A r \in T : ~(<<r, s>> \in StrictSubsetOrdering(S))
  BY <1>1, WFMin
<1> QED
  BY <1>2 DEF StrictSubsetOrdering

Some(s) == CHOOSE x \in s : TRUE

Rest(s) == s \ {Some(s)}

LEMMA SomeIsOne == \A s : s # {} => Some(s) \in s
  BY DEF Some

\* iter adds up f over the subsets of S, one element at a time.
Adds(iter, f, S) ==
  iter = [s \in SUBSET S |-> IF s = {} THEN 0 ELSE f[Some(s)] + iter[Rest(s)]]

LEMMA AddsAtEach ==
  ASSUME NEW f, NEW S, NEW iter, Adds(iter, f, S), NEW s \in SUBSET S
  PROVE  iter[s] = IF s = {} THEN 0 ELSE f[Some(s)] + iter[Rest(s)]
  BY DEF Adds

\* The sum is what the function that adds up comes to at the whole set.
LEMMA SumUnfolds ==
  ASSUME NEW f, NEW S
  PROVE  SumFunctionOnSet(f, S) = (CHOOSE iter : Adds(iter, f, S))[S]
  BY DEF SumFunctionOnSet, FoldFunctionOnSet, MapThenFoldSet, Adds, Some, Rest

\* The sums up to a size can be taken a step further.
LEMMA AddsExists ==
  ASSUME NEW f, NEW S, IsFiniteSet(S)
  PROVE  \E iter : Adds(iter, f, S)
<1> DEFINE By(g, r) == IF r = {} THEN 0 ELSE f[Some(r)] + g[Rest(r)]
           Upto(g, n) == \A r \in SUBSET S : Cardinality(r) <= n => g[r] = By(g, r)
           T == {n \in Nat : ~ \E g : Upto(g, n)}
<1>1. \A r \in SUBSET S : IsFiniteSet(r) /\ Cardinality(r) \in Nat
  BY FS_Subset, FS_CardinalityType
<1>2. \A r \in SUBSET S : r # {} => /\ Rest(r) \in SUBSET S
                                     /\ Cardinality(Rest(r)) = Cardinality(r) - 1
  BY <1>1, SomeIsOne, FS_RemoveElement DEF Rest
<1>3. \A r \in SUBSET S : Cardinality(r) <= 0 => r = {}
  BY <1>1, FS_EmptySet
<1>4. Upto([r \in SUBSET S |-> 0], 0)
  BY <1>3
<1>5. ASSUME NEW n \in Nat, NEW g, Upto(g, n)
      PROVE  Upto([r \in SUBSET S |-> By(g, r)], n + 1)
  <2> DEFINE h == [r \in SUBSET S |-> By(g, r)]
  <2> SUFFICES ASSUME NEW r \in SUBSET S, Cardinality(r) <= n + 1
               PROVE  h[r] = By(h, r)
    OBVIOUS
  <2>1. h[r] = By(g, r)
    OBVIOUS
  <2>2. CASE r = {}
    BY <2>1, <2>2
  <2>3. CASE r # {}
    <3>1. Rest(r) \in SUBSET S /\ Cardinality(Rest(r)) <= n
      BY <1>1, <1>2, <2>3
    <3>2. g[Rest(r)] = By(g, Rest(r))
      BY <3>1, <1>5
    <3>3. h[Rest(r)] = By(g, Rest(r))
      BY <3>1
    <3> QED
      BY <2>1, <2>3, <3>2, <3>3
  <2> QED
    BY <2>2, <2>3
<1>6. T = {}
  <2> SUFFICES ASSUME T # {} PROVE FALSE
    OBVIOUS
  <2>1. PICK n \in T : n - 1 \notin T
    BY LeastNumber
  <2>2. n # 0
    BY <1>4, <2>1
  <2>3. n - 1 \in Nat /\ (n - 1) + 1 = n
    BY <2>2
  <2>4. PICK g : Upto(g, n - 1)
    BY <2>1, <2>3
  <2>5. Upto([r \in SUBSET S |-> By(g, r)], n)
    <3> HIDE DEF Upto, By
    <3>1. Upto([r \in SUBSET S |-> By(g, r)], (n - 1) + 1)
      BY <1>5, <2>3, <2>4
    <3> QED
      BY <2>3, <3>1
  <2> QED
    BY <2>1, <2>5
<1>7. PICK g : Upto(g, Cardinality(S))
  BY <1>1, <1>6
<1>8. \A r \in SUBSET S : g[r] = By(g, r)
  BY <1>1, <1>7, FS_Subset
<1>9. Adds([r \in SUBSET S |-> g[r]], f, S)
  <2> DEFINE h == [r \in SUBSET S |-> g[r]]
  <2>1. \A r \in SUBSET S : r # {} => h[Rest(r)] = g[Rest(r)]
    BY DEF Rest
  <2>2. \A r \in SUBSET S : h[r] = By(h, r)
    BY <1>8, <2>1
  <2> QED
    BY <2>2 DEF Adds
<1> QED
  BY <1>9

\* Adding up over a set gives the sums of its subsets too.
LEMMA AddsAgree ==
  ASSUME NEW f, NEW S, IsFiniteSet(S), NEW g, Adds(g, f, S), NEW R \in SUBSET S, NEW h, Adds(h, f, R)
  PROVE  g[R] = h[R]
<1> DEFINE T == {s \in SUBSET R : g[s] # h[s]}
<1> SUFFICES ASSUME T # {} PROVE FALSE
  OBVIOUS
<1>1. PICK s \in T : \A r \in SUBSET s : r # s => r \notin T
  <2>1. IsFiniteSet(R) /\ T \subseteq SUBSET R
    BY FS_Subset
  <2> HIDE DEF T
  <2> QED
    BY <2>1, SmallestSet
<1>2. s # {}
  BY <1>1, AddsAtEach
<1>3. Rest(s) \in SUBSET s /\ Rest(s) # s
  BY <1>2, SomeIsOne DEF Rest
<1>4. g[Rest(s)] = h[Rest(s)]
  BY <1>1, <1>3
<1>5. g[s] = f[Some(s)] + g[Rest(s)] /\ h[s] = f[Some(s)] + h[Rest(s)]
  BY <1>1, <1>2, AddsAtEach
<1> QED
  BY <1>1, <1>4, <1>5

LEMMA SumStep ==
  ASSUME NEW f, NEW S, IsFiniteSet(S)
  PROVE  SumFunctionOnSet(f, S) = IF S = {} THEN 0
                                  ELSE f[Some(S)] + SumFunctionOnSet(f, Rest(S))
<1> DEFINE g == CHOOSE iter : Adds(iter, f, S)
           h == CHOOSE iter : Adds(iter, f, Rest(S))
<1>1. IsFiniteSet(Rest(S)) /\ Rest(S) \in SUBSET S
  BY FS_Subset DEF Rest
<1>2. Adds(g, f, S) /\ Adds(h, f, Rest(S))
  BY <1>1, AddsExists
<1>3. SumFunctionOnSet(f, S) = g[S] /\ SumFunctionOnSet(f, Rest(S)) = h[Rest(S)]
  BY SumUnfolds
<1>4. g[Rest(S)] = h[Rest(S)]
  BY <1>1, <1>2, AddsAgree
<1>5. g[S] = IF S = {} THEN 0 ELSE f[Some(S)] + g[Rest(S)]
  BY <1>2, AddsAtEach
<1> QED
  BY <1>3, <1>4, <1>5

LEMMA SumOfNone ==
  ASSUME NEW f
  PROVE  SumFunctionOnSet(f, {}) = 0
  BY SumStep, FS_EmptySet

LEMMA SumType ==
  ASSUME NEW S, IsFiniteSet(S), NEW f, \A x \in S : f[x] \in Int
  PROVE  SumFunctionOnSet(f, S) \in Int
<1> DEFINE T == {s \in SUBSET S : SumFunctionOnSet(f, s) \notin Int}
<1> SUFFICES ASSUME T # {} PROVE FALSE
  OBVIOUS
<1>1. PICK s \in T : \A r \in SUBSET s : r # s => r \notin T
  <2>1. T \subseteq SUBSET S
    OBVIOUS
  <2> HIDE DEF T
  <2> QED
    BY <2>1, SmallestSet
<1>2. IsFiniteSet(s)
  BY FS_Subset
<1>3. s # {}
  <2> SUFFICES ASSUME s = {} PROVE SumFunctionOnSet(f, s) \in Int
    BY <1>1
  <2> QED
    BY SumOfNone
<1>4. Rest(s) \in SUBSET s /\ Rest(s) # s /\ Some(s) \in S
  BY <1>3, SomeIsOne DEF Rest
<1>5. SumFunctionOnSet(f, Rest(s)) \in Int
  BY <1>1, <1>4
<1> QED
  BY <1>1, <1>2, <1>3, <1>4, <1>5, SumStep

\* The order in which the elements are taken does not matter.
LEMMA SumWithout ==
  ASSUME NEW S, IsFiniteSet(S), NEW f, \A x \in S : f[x] \in Int, NEW x \in S
  PROVE  SumFunctionOnSet(f, S) = f[x] + SumFunctionOnSet(f, S \ {x})
<1> DEFINE Sum(s) == SumFunctionOnSet(f, s)
           T == {s \in SUBSET S : \E y \in s : Sum(s) # f[y] + Sum(s \ {y})}
<1> SUFFICES ASSUME T # {} PROVE FALSE
  OBVIOUS
<1>0. \A s \in SUBSET S : IsFiniteSet(s) /\ Sum(s) \in Int
  BY FS_Subset, SumType
<1>1. PICK s \in T : \A r \in SUBSET s : r # s => r \notin T
  <2>1. T \subseteq SUBSET S
    OBVIOUS
  <2> HIDE DEF T
  <2> QED
    BY <2>1, SmallestSet
<1>2. PICK y \in s : Sum(s) # f[y] + Sum(s \ {y})
  BY <1>1
<1>3. Some(s) \in s /\ Sum(s) = f[Some(s)] + Sum(Rest(s))
  BY <1>0, <1>2, SomeIsOne, SumStep
<1>4. y # Some(s)
  BY <1>2, <1>3 DEF Rest
<1>5. Sum(Rest(s)) = f[y] + Sum(Rest(s) \ {y})
  <2>1. Rest(s) \in SUBSET s /\ Rest(s) # s /\ y \in Rest(s)
    BY <1>3, <1>4 DEF Rest
  <2> QED
    BY <1>1, <2>1
<1>6. Sum(s \ {y}) = f[Some(s)] + Sum((s \ {y}) \ {Some(s)})
  <2>1. s \ {y} \in SUBSET s /\ s \ {y} # s /\ Some(s) \in s \ {y}
    BY <1>3, <1>4
  <2> QED
    BY <1>1, <2>1
<1>7. Rest(s) \ {y} = (s \ {y}) \ {Some(s)}
  BY DEF Rest
<1>8. f[y] \in Int /\ f[Some(s)] \in Int /\ Sum(Rest(s) \ {y}) \in Int
  BY <1>0, <1>3 DEF Rest
<1>9. Sum(Rest(s)) = f[y] + Sum((s \ {y}) \ {Some(s)})
  BY <1>5, <1>7
<1>10. Sum((s \ {y}) \ {Some(s)}) \in Int
  BY <1>7, <1>8
<1> HIDE DEF Sum
<1> QED
  BY <1>2, <1>3, <1>6, <1>8, <1>9, <1>10

LEMMA SumOfSame ==
  ASSUME NEW S, IsFiniteSet(S), NEW f, NEW g, \A x \in S : f[x] = g[x]
  PROVE  SumFunctionOnSet(f, S) = SumFunctionOnSet(g, S)
<1> DEFINE T == {s \in SUBSET S : SumFunctionOnSet(f, s) # SumFunctionOnSet(g, s)}
<1> SUFFICES ASSUME T # {} PROVE FALSE
  OBVIOUS
<1>1. PICK s \in T : \A r \in SUBSET s : r # s => r \notin T
  <2>1. T \subseteq SUBSET S
    OBVIOUS
  <2> HIDE DEF T
  <2> QED
    BY <2>1, SmallestSet
<1>2. IsFiniteSet(s)
  BY FS_Subset
<1>3. s # {}
  BY <1>1, SumOfNone
<1>4. Rest(s) \in SUBSET s /\ Rest(s) # s /\ Some(s) \in S
  BY <1>3, SomeIsOne DEF Rest
<1>5. SumFunctionOnSet(f, Rest(s)) = SumFunctionOnSet(g, Rest(s))
  BY <1>1, <1>4
<1> QED
  BY <1>1, <1>2, <1>3, <1>4, <1>5, SumStep

\* A sum of natural numbers is one, and no smaller than any of them.
LEMMA SumOfZeros ==
  ASSUME NEW S, IsFiniteSet(S), NEW f, \A x \in S : f[x] = 0
  PROVE  SumFunctionOnSet(f, S) = 0
<1> DEFINE T == {s \in SUBSET S : SumFunctionOnSet(f, s) # 0}
<1> SUFFICES ASSUME T # {} PROVE FALSE
  OBVIOUS
<1>1. PICK s \in T : \A r \in SUBSET s : r # s => r \notin T
  <2>1. T \subseteq SUBSET S
    OBVIOUS
  <2> HIDE DEF T
  <2> QED
    BY <2>1, SmallestSet
<1>2. IsFiniteSet(s)
  BY FS_Subset
<1>3. s # {}
  BY <1>1, SumOfNone
<1>4. Rest(s) \in SUBSET s /\ Rest(s) # s /\ Some(s) \in S
  BY <1>3, SomeIsOne DEF Rest
<1>5. SumFunctionOnSet(f, Rest(s)) = 0
  BY <1>1, <1>4
<1> QED
  BY <1>1, <1>2, <1>3, <1>4, <1>5, SumStep

LEMMA SumNat ==
  ASSUME NEW S, IsFiniteSet(S), NEW f, \A x \in S : f[x] \in Nat
  PROVE  /\ SumFunctionOnSet(f, S) \in Nat
         /\ \A x \in S : f[x] <= SumFunctionOnSet(f, S)
<1> DEFINE T == {s \in SUBSET S : SumFunctionOnSet(f, s) \notin Nat}
<1>1. T = {}
  <2> SUFFICES ASSUME T # {} PROVE FALSE
    OBVIOUS
  <2>1. PICK s \in T : \A r \in SUBSET s : r # s => r \notin T
    <3>1. T \subseteq SUBSET S
      OBVIOUS
    <3> HIDE DEF T
    <3> QED
      BY <3>1, SmallestSet
  <2>2. IsFiniteSet(s)
    BY FS_Subset
  <2>3. s # {}
    <3> SUFFICES ASSUME s = {} PROVE SumFunctionOnSet(f, s) \in Nat
      BY <2>1
    <3> QED
      BY SumOfNone
  <2>4. Rest(s) \in SUBSET s /\ Rest(s) # s /\ Some(s) \in S
    BY <2>3, SomeIsOne DEF Rest
  <2>5. SumFunctionOnSet(f, Rest(s)) \in Nat
    BY <2>1, <2>4
  <2> QED
    BY <2>1, <2>2, <2>3, <2>4, <2>5, SumStep
<1>2. \A s \in SUBSET S : SumFunctionOnSet(f, s) \in Nat
  BY <1>1
<1>3. ASSUME NEW x \in S PROVE f[x] <= SumFunctionOnSet(f, S)
  <2>1. SumFunctionOnSet(f, S) = f[x] + SumFunctionOnSet(f, S \ {x})
    BY SumWithout
  <2>2. SumFunctionOnSet(f, S \ {x}) \in Nat /\ f[x] \in Nat
    BY <1>2
  <2> HIDE DEF T
  <2> QED
    BY <2>1, <2>2
<1> QED
  BY <1>2, <1>3

\* A sum in which one term has changed.
LEMMA SumChanged ==
  ASSUME NEW S, IsFiniteSet(S), NEW x \in S, NEW f, NEW g,
         \A y \in S : f[y] \in Int /\ g[y] \in Int,
         \A y \in S : y # x => g[y] = f[y]
  PROVE  SumFunctionOnSet(g, S) = SumFunctionOnSet(f, S) - f[x] + g[x]
<1>1. IsFiniteSet(S \ {x})
  BY FS_Subset
<1>2. SumFunctionOnSet(g, S \ {x}) = SumFunctionOnSet(f, S \ {x})
  BY <1>1, SumOfSame
<1>3. SumFunctionOnSet(f, S) = f[x] + SumFunctionOnSet(f, S \ {x})
  BY SumWithout
<1>4. SumFunctionOnSet(g, S) = g[x] + SumFunctionOnSet(g, S \ {x})
  BY SumWithout
<1>5. SumFunctionOnSet(f, S \ {x}) \in Int
  BY <1>1, SumType
<1> QED
  BY <1>2, <1>3, <1>4, <1>5

=============================================================================
