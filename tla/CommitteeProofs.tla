---------------------------- MODULE CommitteeProofs ----------------------------
(* The budget and the locks of the committee, for any number of coroutines,        *)
(* subjects and days.  A review is counted when its answer comes, long after it    *)
(* was admitted, so the count alone is no invariant: the argument adds to what the *)
(* day's processes asked the reviews that are still waiting, and keeps the sum     *)
(* under a cap and the coroutines for every process.  That a lock is taken away by *)
(* its own review only needs that no two reviews hold the same subject.            *)
(* Then the other books that watch the trading: the living signals, the tape of    *)
(* what was held, and the backtester beside the exit environment.                  *)
EXTENDS MCBooks, FiniteSetTheorems, TLAPS

\* A coroutine has a subject and a place.
TasksOK ==
  /\ task = [t \in Tasks |-> task[t]]
  /\ \A t \in Tasks : task[t] # None => {"ref", "step"} \subseteq DOMAIN task[t]

At(t, step) == task[t] # None /\ task[t].step = step

\* What a number of processes may ask of a day that began with some reviews under way.
Allowed(lives, carried) == lives * (Cap + Cardinality(Tasks) - 1) + carried

BudgetOK ==
  /\ spent \in [runs : Nat, today : BOOLEAN] /\ asked \in [runs : Nat, lives : Nat \ {0}, carried : Nat]
  /\ asked.runs + Cardinality(Waiting) <= Allowed(asked.lives, asked.carried)
  /\ IF spent.today THEN asked.runs <= Allowed(asked.lives - 1, asked.carried) + spent.runs
     ELSE asked.runs + Cardinality(Waiting) <= Allowed(asked.lives - 1, asked.carried)

LocksOK ==
  /\ \A t, u \in Asking : task[t].ref = task[u].ref => t = u
  /\ \A t \in Asking : task[t].ref \in running

\* A step of t leaves the others where they are.
OnlyMoves(t) == \A u \in Tasks \ {t} : task'[u] = task[u]

-----------------------------------------------------------------------------
(* The sum under the cap.                                                        *)

LEMMA Finite ==
  /\ IsFiniteSet(Tasks) /\ Cardinality(Tasks) \in Nat /\ Cardinality(Tasks) > 0 /\ Cap \in Nat
  /\ IsFiniteSet(Waiting) /\ Cardinality(Waiting) \in Nat /\ Cardinality(Waiting) <= Cardinality(Tasks)
  /\ IsFiniteSet(Waiting') /\ Cardinality(Waiting') \in Nat /\ Cardinality(Waiting') <= Cardinality(Tasks)
<1>1. IsFiniteSet(Tasks) /\ Tasks # {} /\ Cap \in Nat
  BY CommitteeAssumptions
<1>2. Waiting \in SUBSET Tasks /\ Waiting' \in SUBSET Tasks
  BY DEF Waiting, InFlight
<1>3. IsFiniteSet(Waiting) /\ Cardinality(Waiting) <= Cardinality(Tasks)
  BY <1>1, <1>2, FS_Subset
<1>4. IsFiniteSet(Waiting') /\ Cardinality(Waiting') <= Cardinality(Tasks)
  BY <1>1, <1>2, FS_Subset
<1>5. Cardinality(Tasks) \in Nat /\ Cardinality(Tasks) # 0
  BY <1>1, FS_CardinalityType, FS_EmptySet
<1>6. Cardinality(Waiting) \in Nat /\ Cardinality(Waiting') \in Nat
  BY <1>3, <1>4, FS_CardinalityType
<1>. QED  BY <1>1, <1>3, <1>4, <1>5, <1>6

\* Nobody else waits.
LEMMA NoneMoreWaits ==
  ASSUME Waiting' \subseteq Waiting
  PROVE  Cardinality(Waiting') <= Cardinality(Waiting)
<1>1. IsFiniteSet(Waiting)
  BY Finite
<1>2. Waiting' \in SUBSET Waiting
  OBVIOUS
<1>. QED  BY <1>1, <1>2, FS_Subset

LEMMA OneLessWaits ==
  ASSUME NEW t \in Waiting, Waiting' \subseteq Waiting \ {t}
  PROVE  Cardinality(Waiting') <= Cardinality(Waiting) - 1
<1>1. IsFiniteSet(Waiting)
  BY Finite
<1>2. IsFiniteSet(Waiting \ {t}) /\ Cardinality(Waiting \ {t}) = Cardinality(Waiting) - 1
  BY <1>1, FS_RemoveElement
<1>3. Waiting' \in SUBSET (Waiting \ {t})
  OBVIOUS
<1>. QED  BY <1>2, <1>3, FS_Subset

\* A process more is a cap and the coroutines more.
LEMMA AllowedMore ==
  ASSUME NEW m \in Nat, NEW c \in Nat
  PROVE  Allowed(m, c) \in Int /\ Allowed(m + 1, c) = Allowed(m, c) + Cap + Cardinality(Tasks) - 1
<1>1. PICK k : k = Cap + Cardinality(Tasks) - 1
  OBVIOUS
<1>2. k \in Nat /\ k + 1 = Cap + Cardinality(Tasks)
  BY <1>1, Finite
<1>3. (m + 1) * k = m * k + k /\ m * k \in Nat
  BY <1>2
<1>. QED  BY <1>1, <1>2, <1>3, Finite DEF Allowed

LEMMA LivesAllowed ==
  ASSUME BudgetOK
  PROVE  LET at(lives) == Allowed(lives, asked.carried)
         IN  /\ {at(asked.lives), at(asked.lives - 1), at(asked.lives + 1)} \subseteq Int
             /\ at(asked.lives) = at(asked.lives - 1) + Cap + Cardinality(Tasks) - 1
             /\ at(asked.lives + 1) = at(asked.lives) + Cap + Cardinality(Tasks) - 1
<1>1. PICK m \in Nat : asked.lives = m + 1
  BY DEF BudgetOK
<1>2. asked.lives - 1 = m /\ asked.lives \in Nat /\ asked.carried \in Nat
  BY <1>1 DEF BudgetOK
<1>. QED  BY <1>1, <1>2, AllowedMore

\* A coroutine is admitted under the cap, whoever waits.
LEMMA AdmittedUnderTheCap ==
  ASSUME BudgetOK, Admits, asked' = asked
  PROVE  BudgetOK'
<1>1. Budget \in Nat /\ Budget < Cap
  BY DEF BudgetOK, Budget, Admits
<1>2. spent' \in [runs : Nat, today : BOOLEAN] /\ spent'.today /\ spent'.runs = Budget
  BY <1>1 DEF Admits
<1>3. asked.runs \in Nat /\ asked.runs <= Allowed(asked.lives - 1, asked.carried) + Budget
  BY LivesAllowed, Finite DEF BudgetOK, Budget
<1>4. asked.runs + Cardinality(Waiting') <= Allowed(asked.lives, asked.carried)
  BY <1>1, <1>3, LivesAllowed, Finite
<1>. QED  BY <1>2, <1>3, <1>4 DEF BudgetOK

\* An answer is counted, and one waits no longer.
LEMMA CountedOnce ==
  ASSUME BudgetOK, NEW t \in Waiting, Waiting' \subseteq Waiting \ {t},
         spent' = [spent EXCEPT !.runs = spent.runs + 1], asked' = [asked EXCEPT !.runs = asked.runs + 1]
  PROVE  BudgetOK'
<1>1. Cardinality(Waiting') <= Cardinality(Waiting) - 1
  BY OneLessWaits
<1>2. /\ spent' \in [runs : Nat, today : BOOLEAN]
      /\ spent'.runs = spent.runs + 1 /\ spent'.today = spent.today
  BY DEF BudgetOK
<1>3. /\ asked' \in [runs : Nat, lives : Nat \ {0}, carried : Nat]
      /\ asked'.runs = asked.runs + 1 /\ asked'.lives = asked.lives /\ asked'.carried = asked.carried
  BY DEF BudgetOK
<1>4. PICK k : k = Allowed(asked.lives, asked.carried)
  OBVIOUS
<1>5. PICK l : l = Allowed(asked.lives - 1, asked.carried)
  OBVIOUS
<1>6. /\ asked.runs + 1 + Cardinality(Waiting') <= k
      /\ IF spent.today THEN asked.runs + 1 <= l + (spent.runs + 1)
         ELSE asked.runs + 1 + Cardinality(Waiting') <= l
  BY <1>1, <1>4, <1>5, LivesAllowed, Finite DEF BudgetOK
<1>. QED  BY <1>2, <1>3, <1>4, <1>5, <1>6 DEF BudgetOK

\* Nothing is asked and nobody more waits.
LEMMA NotAsked ==
  ASSUME BudgetOK, Waiting' \subseteq Waiting, asked' = asked, spent' = spent
  PROVE  BudgetOK'
<1>1. Cardinality(Waiting') <= Cardinality(Waiting)
  BY NoneMoreWaits
<1>2. PICK k : k = Allowed(asked.lives, asked.carried)
  OBVIOUS
<1>3. PICK l : l = Allowed(asked.lives - 1, asked.carried)
  OBVIOUS
<1>4. /\ asked.runs + Cardinality(Waiting') <= k
      /\ ~spent.today => asked.runs + Cardinality(Waiting') <= l
  BY <1>1, <1>2, <1>3, LivesAllowed, Finite DEF BudgetOK
<1>. QED  BY <1>2, <1>3, <1>4 DEF BudgetOK

\* The budget is looked at and found empty, or is yesterday's.
LEMMA Renewed ==
  ASSUME BudgetOK, Waiting' \subseteq Waiting, asked' = asked, spent' = [runs |-> Budget, today |-> TRUE]
  PROVE  BudgetOK'
<1>1. Cardinality(Waiting') <= Cardinality(Waiting)
  BY NoneMoreWaits
<1>2. Budget \in Nat /\ asked.runs <= Allowed(asked.lives - 1, asked.carried) + Budget
  BY LivesAllowed, Finite DEF BudgetOK, Budget
<1>3. asked.runs + Cardinality(Waiting') <= Allowed(asked.lives, asked.carried)
  BY <1>1, LivesAllowed, Finite DEF BudgetOK
<1>4. spent' \in [runs : Nat, today : BOOLEAN] /\ spent'.runs = Budget /\ spent'.today
  BY <1>2
<1>. QED  BY <1>2, <1>3, <1>4 DEF BudgetOK

\* The day begins with the reviews that are under way.
LEMMA NewDay ==
  ASSUME BudgetOK, Waiting' = Waiting, Midnight
  PROVE  BudgetOK'
<1>1. PICK c : c = Cardinality(Waiting)
  OBVIOUS
<1>2. spent' \in [runs : Nat, today : BOOLEAN] /\ ~spent'.today
  BY DEF Midnight, BudgetOK
<1>3. /\ asked' \in [runs : Nat, lives : Nat \ {0}, carried : Nat]
      /\ asked'.runs = 0 /\ asked'.lives = 1 /\ asked'.carried = c
  BY <1>1, Finite DEF Midnight
<1>4. Allowed(0, c) = c
  BY <1>1, Finite DEF Allowed
<1>5. Allowed(0 + 1, c) = Allowed(0, c) + Cap + Cardinality(Tasks) - 1
  BY <1>1, Finite, AllowedMore
<1>6. Cardinality(Waiting') = c /\ c <= Allowed(0, c) /\ c <= Allowed(1, c)
  BY <1>1, <1>4, <1>5, Finite
<1>7. asked'.lives - 1 = 0
  BY <1>3
<1>. QED  BY <1>1, <1>2, <1>3, <1>6, <1>7, Finite DEF BudgetOK

\* A new process has a budget of its own; what was being asked is paid for.
LEMMA NewLife ==
  ASSUME BudgetOK, Waiting' = {}, Restart
  PROVE  BudgetOK'
<1>1. spent' \in [runs : Nat, today : BOOLEAN] /\ spent'.today /\ spent'.runs = 0
  BY DEF Restart
<1>2. Asking \subseteq Waiting
  BY DEF Asking, Waiting, InFlight
<1>3. IsFiniteSet(Asking) /\ Cardinality(Asking) <= Cardinality(Waiting) /\ Cardinality(Asking) \in Nat
  BY <1>2, Finite, FS_Subset, FS_CardinalityType
<1>4. /\ asked' \in [runs : Nat, lives : Nat \ {0}, carried : Nat]
      /\ asked'.runs = asked.runs + Cardinality(Asking) /\ asked'.lives = asked.lives + 1
      /\ asked'.carried = asked.carried
  <2>1. PICK a \in Nat : a = Cardinality(Asking)
    BY <1>3
  <2>2. asked' = [runs |-> asked.runs + a, lives |-> asked.lives + 1, carried |-> asked.carried]
    BY <2>1 DEF Restart
  <2>3. asked.runs \in Nat /\ asked.lives \in Nat \ {0} /\ asked.carried \in Nat
    BY DEF BudgetOK
  <2>. QED  BY <2>1, <2>2, <2>3
<1>5. PICK a : a = Allowed(asked.lives, asked.carried)
  OBVIOUS
<1>6. PICK b : b = Allowed(asked.lives + 1, asked.carried)
  OBVIOUS
<1>7. asked'.runs <= a /\ a \in Int
  BY <1>3, <1>4, <1>5, LivesAllowed, Finite DEF BudgetOK
<1>8. a <= b
  BY <1>5, <1>6, <1>7, LivesAllowed, Finite
<1>9. Cardinality(Waiting') = 0
  BY FS_EmptySet
<1>10. asked'.lives - 1 = asked.lives
  BY <1>4 DEF BudgetOK
<1>. QED  BY <1>1, <1>4, <1>5, <1>6, <1>7, <1>8, <1>9, <1>10, LivesAllowed, Finite DEF BudgetOK

-----------------------------------------------------------------------------
(* The locks.                                                                    *)

\* A step of one that neither was asking nor asks now.
LEMMA LocksUntouched ==
  ASSUME LocksOK, NEW t \in Tasks, OnlyMoves(t), ~At(t, "asking"), ~At(t, "asking")', running' = running
  PROVE  LocksOK'
<1>1. \A u \in Tasks : u \in Asking' <=> u \in Asking
  BY DEF Asking, InFlight, At, OnlyMoves
<1>2. Asking' = Asking /\ \A u \in Asking : task'[u] = task[u]
  BY <1>1 DEF Asking, InFlight, OnlyMoves, At
<1>. QED  BY <1>2 DEF LocksOK

LEMMA LockTaken ==
  ASSUME LocksOK, NEW t \in Tasks, OnlyMoves(t), ~At(t, "asking"), NEW ref, ref \notin running,
         At(t, "asking")' => task'[t].ref = ref, running' = running \union {ref}
  PROVE  LocksOK'
<1>1. t \notin Asking
  BY DEF Asking, InFlight, At
<1>2. \A u \in Tasks : u \in Asking' => u \in Asking \union {t}
  BY DEF Asking, InFlight, At, OnlyMoves
<1>3. Asking' \subseteq Asking \union {t}
  BY <1>2 DEF Asking, InFlight
<1>4. \A u \in Asking : task'[u] = task[u] /\ task[u].ref # ref
  BY <1>1 DEF Asking, InFlight, OnlyMoves, LocksOK
<1>5. t \in Asking' => task'[t].ref = ref
  BY DEF Asking, InFlight, At
<1>. QED  BY <1>3, <1>4, <1>5 DEF LocksOK

LEMMA LockGivenBack ==
  ASSUME LocksOK, NEW t \in Tasks, OnlyMoves(t), At(t, "asking"), ~At(t, "asking")',
         running' = running \ {task[t].ref}
  PROVE  LocksOK'
<1>1. t \in Asking
  BY DEF Asking, InFlight, At
<1>2. \A u \in Tasks : u \in Asking' <=> u \in Asking \ {t}
  BY DEF Asking, InFlight, At, OnlyMoves
<1>3. Asking' = Asking \ {t}
  BY <1>2 DEF Asking, InFlight
<1>4. \A u \in Asking \ {t} : task'[u] = task[u] /\ task[u].ref # task[t].ref
  BY <1>1 DEF Asking, InFlight, OnlyMoves, LocksOK
<1>. QED  BY <1>1, <1>3, <1>4 DEF LocksOK

-----------------------------------------------------------------------------
(* The steps.                                                                    *)

CommitteeInv == TasksOK /\ BudgetOK /\ LocksOK

LEMMA InvInit == Init => CommitteeInv
<1>1. SUFFICES ASSUME Init PROVE CommitteeInv
  OBVIOUS
<1>2. TasksOK
  BY <1>1 DEF Init, TasksOK
<1>3. Waiting = {} /\ Asking = {}
  BY <1>1 DEF Init, Waiting, Asking, InFlight, At
<1>4. LocksOK
  BY <1>1, <1>3 DEF Init, LocksOK
<1>5. Cardinality(Waiting) = 0
  BY <1>3, FS_EmptySet
<1>6. 0 <= Allowed(1, 0)
  <2>1. Allowed(0, 0) = 0 /\ Allowed(0 + 1, 0) = Allowed(0, 0) + Cap + Cardinality(Tasks) - 1
    BY AllowedMore, Finite DEF Allowed
  <2>. QED  BY <2>1, Finite
<1>7. BudgetOK
  <2>1. spent \in [runs : Nat, today : BOOLEAN] /\ spent.today /\ spent.runs = 0
    BY <1>1 DEF Init
  <2>2. /\ asked \in [runs : Nat, lives : Nat \ {0}, carried : Nat]
        /\ asked.runs = 0 /\ asked.lives = 1 /\ asked.carried = 0
    BY <1>1 DEF Init
  <2>3. Allowed(1 - 1, 0) = 0
    BY Finite DEF Allowed
  <2>. QED  BY <1>5, <1>6, <2>1, <2>2, <2>3 DEF BudgetOK
<1>. QED  BY <1>2, <1>4, <1>7 DEF CommitteeInv

\* A step that sets one coroutine.
LEMMA Sets ==
  ASSUME TasksOK, NEW t \in Tasks, NEW w, task' = [task EXCEPT ![t] = w],
         w = None \/ {"ref", "step"} \subseteq DOMAIN w
  PROVE  TasksOK' /\ OnlyMoves(t) /\ task'[t] = w
<1>1. task'[t] = w /\ \A u \in Tasks \ {t} : task'[u] = task[u]
  BY DEF TasksOK
<1>2. task' = [u \in Tasks |-> task'[u]]
  BY DEF TasksOK
<1>. QED  BY <1>1, <1>2 DEF TasksOK, OnlyMoves

LEMMA BeginsKeeps ==
  ASSUME CommitteeInv, NEW t \in Tasks, NEW w, w.step = "admitted", {"ref", "step"} \subseteq DOMAIN w,
         task[t] = None, Admits, task' = [task EXCEPT ![t] = w], UNCHANGED <<running, asked>>
  PROVE  CommitteeInv'
<1>1. TasksOK' /\ OnlyMoves(t) /\ task'[t] = w
  BY Sets DEF CommitteeInv
<1>2. BudgetOK'
  BY AdmittedUnderTheCap DEF CommitteeInv
<1>3. LocksOK'
  BY <1>1, LocksUntouched DEF CommitteeInv, At
<1>. QED  BY <1>1, <1>2, <1>3 DEF CommitteeInv

\* The subject of work is locked: what that does to the coroutines and the locks.
LEMMA AsksKeeps ==
  ASSUME CommitteeInv, NEW t \in Tasks, NEW work, {"ref", "step"} \subseteq DOMAIN work, Asks(t, work),
         task[t] = None \/ task[t] = work
  PROVE  TasksOK' /\ LocksOK' /\ OnlyMoves(t)
<1>1. PICK w : w = [work EXCEPT !.step = "asking"]
  OBVIOUS
<1>2. {"ref", "step"} \subseteq DOMAIN w /\ w.step = "asking" /\ w.ref = work.ref
  BY <1>1
<1>3. task' = [task EXCEPT ![t] = w] /\ running' = running \union {work.ref} /\ work.ref \notin running
  BY <1>1 DEF Asks
<1>4. TasksOK' /\ OnlyMoves(t) /\ task'[t] = w
  BY <1>2, <1>3, Sets DEF CommitteeInv
<1>5. ~At(t, "asking")
  <2>1. SUFFICES ASSUME At(t, "asking") PROVE FALSE
    OBVIOUS
  <2>2. t \in Asking /\ task[t] = work
    BY <2>1 DEF Asking, InFlight, At
  <2>. QED  BY <1>3, <2>2 DEF CommitteeInv, LocksOK
<1>6. At(t, "asking")' => task'[t].ref = work.ref
  BY <1>2, <1>4
<1>7. LocksOK'
  BY <1>3, <1>4, <1>5, <1>6, LockTaken DEF CommitteeInv
<1>. QED  BY <1>4, <1>7

LEMMA AnswerKeeps ==
  ASSUME CommitteeInv, NEW t \in Tasks, NEW w, NEW keys, NEW reported,
         w = None \/ ({"ref", "step"} \subseteq DOMAIN w /\ w.step = "choosing"),
         Recorded(t, keys, reported), task' = [task EXCEPT ![t] = w]
  PROVE  CommitteeInv'
<1>1. TasksOK' /\ OnlyMoves(t) /\ task'[t] = w
  BY Sets DEF CommitteeInv
<1>2. At(t, "asking") /\ ~At(t, "asking")' /\ ~At(t, "admitted")'
  BY <1>1 DEF Recorded, At
<1>3. LocksOK'
  BY <1>1, <1>2, LockGivenBack DEF CommitteeInv, Recorded
<1>4. t \in Waiting /\ Waiting' \subseteq Waiting \ {t}
  BY <1>1, <1>2 DEF Waiting, InFlight, OnlyMoves, At
<1>5. BudgetOK'
  BY <1>4, CountedOnce DEF CommitteeInv, Recorded, Counted
<1>. QED  BY <1>1, <1>3, <1>5 DEF CommitteeInv

\* A step that neither asks nor takes a lock: experiments, refusals, errors.
LEMMA MovesOn ==
  ASSUME CommitteeInv, NEW t \in Tasks, NEW w,
         w = None \/ ({"ref", "step"} \subseteq DOMAIN w /\ w.step \in {"choosing", "testing"}),
         task' = [task EXCEPT ![t] = w], ~At(t, "asking"), UNCHANGED <<running, spent, asked>>
  PROVE  CommitteeInv'
<1>1. TasksOK' /\ OnlyMoves(t) /\ task'[t] = w
  BY Sets DEF CommitteeInv
<1>2. ~At(t, "asking")' /\ ~At(t, "admitted")'
  BY <1>1 DEF At
<1>3. LocksOK'
  BY <1>1, <1>2, LocksUntouched DEF CommitteeInv
<1>4. Waiting' \subseteq Waiting
  BY <1>1, <1>2 DEF Waiting, InFlight, OnlyMoves, At
<1>5. BudgetOK'
  BY <1>4, NotAsked DEF CommitteeInv
<1>. QED  BY <1>1, <1>3, <1>5 DEF CommitteeInv

LEMMA AskCohortKeeps ==
  ASSUME CommitteeInv, NEW t \in Tasks, AskCohort(t)
  PROVE  CommitteeInv'
<1>1. PICK work : work = [Work EXCEPT !.kind = "cohort", !.ref = "cohort"]
  OBVIOUS
<1>2. {"ref", "step"} \subseteq DOMAIN work /\ Asks(t, work) /\ task[t] = None /\ Admits /\ asked' = asked
  BY <1>1 DEF Work, AskCohort
<1>3. TasksOK' /\ LocksOK'
  BY <1>2, AsksKeeps
<1>4. BudgetOK'
  BY <1>2, AdmittedUnderTheCap DEF CommitteeInv
<1>. QED  BY <1>3, <1>4 DEF CommitteeInv

LEMMA ClaimKeeps ==
  ASSUME CommitteeInv, NEW t \in Tasks, Claim(t)
  PROVE  CommitteeInv'
<1>1. At(t, "admitted") /\ asked' = asked /\ Asks(t, task[t]) /\ (Admits \/ spent' = spent)
  BY DEF Claim, At
<1>2. {"ref", "step"} \subseteq DOMAIN task[t]
  BY <1>1 DEF CommitteeInv, TasksOK, At
<1>3. TasksOK' /\ LocksOK' /\ OnlyMoves(t)
  BY <1>1, <1>2, AsksKeeps
<1>4. Waiting' \subseteq Waiting
  BY <1>1, <1>3 DEF Waiting, InFlight, OnlyMoves, At
<1>5. BudgetOK'
  BY <1>1, <1>4, AdmittedUnderTheCap, NotAsked DEF CommitteeInv
<1>. QED  BY <1>3, <1>5 DEF CommitteeInv

LEMMA TurnedAwayKeeps ==
  ASSUME CommitteeInv, NEW t \in Tasks, TurnedAway(t)
  PROVE  CommitteeInv'
<1>1. /\ At(t, "admitted") /\ task' = [task EXCEPT ![t] = None] /\ UNCHANGED <<running, asked>>
      /\ spent' = [runs |-> Budget, today |-> TRUE] \/ spent' = spent
  BY DEF TurnedAway, At
<1>2. TasksOK' /\ OnlyMoves(t) /\ task'[t] = None
  BY <1>1, Sets DEF CommitteeInv
<1>3. LocksOK'
  BY <1>1, <1>2, LocksUntouched DEF CommitteeInv, At
<1>4. Waiting' \subseteq Waiting
  BY <1>2 DEF Waiting, InFlight, OnlyMoves, At
<1>5. BudgetOK'
  BY <1>1, <1>4, Renewed, NotAsked DEF CommitteeInv
<1>. QED  BY <1>2, <1>3, <1>5 DEF CommitteeInv

\* Choose, StartExperiment, Grade, Failed and Raised set a coroutine that does not wait.
LEMMA StartKeeps ==
  ASSUME CommitteeInv, NEW t \in Tasks, NEW h, NEW work, {"ref", "step"} \subseteq DOMAIN work,
         Starts(t, h, work), ~At(t, "asking"), UNCHANGED <<running, spent, asked>>
  PROVE  CommitteeInv'
<1>1. PICK w : w = [work EXCEPT !.step = "testing", !.h = h,
                                !.divisor = Tested([hyps EXCEPT ![h].status = "running"])]
  OBVIOUS
<1>2. {"ref", "step"} \subseteq DOMAIN w /\ w.step = "testing"
  BY <1>1
<1>3. task' = [task EXCEPT ![t] = w]
  BY <1>1 DEF Starts
<1>. QED  BY <1>2, <1>3, MovesOn

LEMMA ChooseKeeps ==
  ASSUME CommitteeInv, NEW t \in Tasks, Choose(t)
  PROVE  CommitteeInv'
<1>1. PICK w : w = task[t]
  OBVIOUS
<1>2. PICK next : next = [w EXCEPT !.todo = Tail(@)]
  OBVIOUS
<1>3. w # None /\ w.step = "choosing" /\ UNCHANGED <<running, spent, asked>>
  BY <1>1 DEF Choose
<1>4. {"ref", "step"} \subseteq DOMAIN w
  BY <1>1, <1>3 DEF CommitteeInv, TasksOK
<1>5. {"ref", "step"} \subseteq DOMAIN next /\ next.step = "choosing" /\ ~At(t, "asking")
  BY <1>1, <1>2, <1>3, <1>4 DEF At
<1>6. PICK h : h = Head(w.todo)
  OBVIOUS
<1>7. \/ task' = [task EXCEPT ![t] = None]
      \/ task' = [task EXCEPT ![t] = next]
      \/ Starts(t, h, next)
  BY <1>1, <1>2, <1>6 DEF Choose
<1>. QED  BY <1>3, <1>5, <1>7, MovesOn, StartKeeps

LEMMA TestedKeeps ==
  ASSUME CommitteeInv, NEW t \in Tasks, At(t, "testing"), UNCHANGED <<running, spent, asked>>,
         task' = [task EXCEPT ![t] = After(task[t])]
  PROVE  CommitteeInv'
<1>1. PICK w : w = After(task[t])
  OBVIOUS
<1>2. {"ref", "step"} \subseteq DOMAIN task[t]
  BY DEF CommitteeInv, TasksOK, At
<1>3. w = None \/ ({"ref", "step"} \subseteq DOMAIN w /\ w.step = "choosing")
  BY <1>1, <1>2 DEF After
<1>4. ~At(t, "asking") /\ task' = [task EXCEPT ![t] = w]
  BY <1>1 DEF At
<1>. QED  BY <1>3, <1>4, MovesOn

LEMMA RaisedKeeps ==
  ASSUME CommitteeInv, NEW t \in Tasks, Raised(t)
  PROVE  CommitteeInv'
<1>1. task' = [task EXCEPT ![t] = None] /\ UNCHANGED <<spent, asked>>
  BY DEF Raised
<1>2. CASE At(t, "asking")
  <2>1. TasksOK' /\ OnlyMoves(t) /\ task'[t] = None
    BY <1>1, Sets DEF CommitteeInv
  <2>2. ~At(t, "asking")' /\ ~At(t, "admitted")' /\ running' = running \ {task[t].ref}
    BY <1>2, <2>1 DEF At, Raised
  <2>3. LocksOK'
    BY <1>2, <2>1, <2>2, LockGivenBack DEF CommitteeInv
  <2>4. Waiting' \subseteq Waiting
    BY <2>1, <2>2 DEF Waiting, InFlight, OnlyMoves, At
  <2>5. BudgetOK'
    BY <1>1, <2>4, NotAsked DEF CommitteeInv
  <2>. QED  BY <2>1, <2>3, <2>5 DEF CommitteeInv
<1>3. CASE ~At(t, "asking")
  <2>1. UNCHANGED running
    BY <1>3 DEF Raised, At
  <2>. QED  BY <1>1, <1>3, <2>1, MovesOn
<1>. QED  BY <1>2, <1>3

LEMMA AnsweredKeeps ==
  ASSUME CommitteeInv, NEW t \in Tasks, NEW keys, NEW reported,
         CaseAnswered(t, keys, reported) \/ CohortAnswered(t, keys, reported)
  PROVE  CommitteeInv'
<1>1. Recorded(t, keys, reported) /\ {"ref", "step"} \subseteq DOMAIN task[t]
  BY DEF CaseAnswered, CohortAnswered, Recorded, CommitteeInv, TasksOK
<1>2. PICK w : w = [task[t] EXCEPT !.step = "choosing", !.todo = [i \in DOMAIN keys |-> Len(hyps) + i]]
  OBVIOUS
<1>3. {"ref", "step"} \subseteq DOMAIN w /\ w.step = "choosing"
  BY <1>1, <1>2
<1>4. task' = [task EXCEPT ![t] = None] \/ task' = [task EXCEPT ![t] = w]
  BY <1>2 DEF CaseAnswered, CohortAnswered
<1>. QED  BY <1>1, <1>3, <1>4, AnswerKeeps

LEMMA InvNext == CommitteeInv /\ [Next]_vars => CommitteeInv'
<1>1. SUFFICES ASSUME CommitteeInv, [Next]_vars
               PROVE  CommitteeInv'
  OBVIOUS
<1>2. ASSUME NEW t \in Tasks, NEW ref \in Refs, AskCase(t, ref)
      PROVE  CommitteeInv'
  BY <1>1, <1>2, BeginsKeeps DEF AskCase, Work
<1>3. ASSUME NEW t \in Tasks, Nightfall(t)
      PROVE  CommitteeInv'
  BY <1>1, <1>3, BeginsKeeps DEF Nightfall, Work
<1>4. ASSUME NEW t \in Tasks, AskCohort(t) \/ Claim(t) \/ TurnedAway(t) \/ Raised(t) \/ Choose(t)
      PROVE  CommitteeInv'
  BY <1>1, <1>4, AskCohortKeeps, ClaimKeeps, TurnedAwayKeeps, RaisedKeeps, ChooseKeeps
<1>5. ASSUME NEW t \in Tasks, Failed(t) \/ (\E x \in Samples : Grade(t, x))
      PROVE  CommitteeInv'
  <2>1. At(t, "testing") /\ UNCHANGED <<running, spent, asked>> /\ task' = [task EXCEPT ![t] = After(task[t])]
    BY <1>5 DEF Failed, Grade, At
  <2>. QED  BY <1>1, <2>1, TestedKeeps
<1>6. ASSUME NEW t \in Tasks, NEW keys, NEW reported,
             CaseAnswered(t, keys, reported) \/ CohortAnswered(t, keys, reported)
      PROVE  CommitteeInv'
  BY <1>1, <1>6, AnsweredKeeps
<1>7. ASSUME NEW t \in Tasks, NEW h \in Numbers, StartExperiment(t, h)
      PROVE  CommitteeInv'
  <2>1. PICK work : work = [Work EXCEPT !.kind = "test"]
    OBVIOUS
  <2>2. {"ref", "step"} \subseteq DOMAIN work /\ ~At(t, "asking")
    BY <1>7, <2>1 DEF Work, StartExperiment, At
  <2>3. Starts(t, h, work) /\ UNCHANGED <<running, spent, asked>>
    BY <1>7, <2>1 DEF StartExperiment
  <2>. QED  BY <1>1, <2>2, <2>3, StartKeeps
<1>8. ASSUME (\E key \in Keys : Propose(key)) \/ UNCHANGED vars
      PROVE  CommitteeInv'
  <2>1. task' = task /\ running' = running /\ asked' = asked /\ spent' = spent
    BY <1>8 DEF Propose, vars
  <2>2. TasksOK' /\ LocksOK' /\ Waiting' = Waiting
    BY <1>1, <2>1 DEF CommitteeInv, TasksOK, LocksOK, Waiting, Asking, InFlight, At
  <2>. QED  BY <1>1, <2>1, <2>2, NotAsked DEF CommitteeInv
<1>9. ASSUME Midnight
      PROVE  CommitteeInv'
  <2>1. task' = task /\ running' = running
    BY <1>9 DEF Midnight
  <2>2. TasksOK' /\ LocksOK' /\ Waiting' = Waiting
    BY <1>1, <2>1 DEF CommitteeInv, TasksOK, LocksOK, Waiting, Asking, InFlight, At
  <2>. QED  BY <1>1, <1>9, <2>2, NewDay DEF CommitteeInv
<1>10. ASSUME Restart
       PROVE  CommitteeInv'
  <2>1. TasksOK'
    BY <1>10 DEF Restart, TasksOK
  <2>2. Waiting' = {} /\ Asking' = {}
    BY <1>10 DEF Restart, Waiting, Asking, InFlight, At
  <2>3. LocksOK'
    BY <2>2 DEF LocksOK
  <2>. QED  BY <1>1, <1>10, <2>1, <2>2, <2>3, NewLife DEF CommitteeInv
<1>. QED  BY <1>1, <1>2, <1>3, <1>4, <1>5, <1>6, <1>7, <1>8, <1>9, <1>10 DEF Next

-----------------------------------------------------------------------------
(* What a day's reviews come to is the cap and what is under way for every process *)
(* the day saw, and what was under way at midnight (service.py, _budget and          *)
(* _review_case): however many coroutines there are, whatever fails, and through     *)
(* any midnights and restarts.                                                       *)
THEOREM SpendIsBoundedHolds == Spec => []SpendIsBounded
<1>1. CommitteeInv => SpendIsBounded
  BY LivesAllowed, Finite DEF CommitteeInv, BudgetOK, SpendIsBounded, Allowed
<1>. QED  BY <1>1, InvInit, InvNext, PTL DEF Spec

(* A subject is under one review at a time (service.py, CommitteeService.running). *)
THEOREM OneReviewEachHolds == Spec => []OneReviewEach
<1>1. CommitteeInv => OneReviewEach
  BY DEF CommitteeInv, LocksOK, Asking, At, OneReviewEach, InFlight
<1>. QED  BY <1>1, InvInit, InvNext, PTL DEF Spec

-----------------------------------------------------------------------------
(* The living signals.                                                           *)

AgeMarks == [born : Nat, reeval : Nat]

\* The ring is its three parts, and the rows of the living signals one of them.
RingIsWhole ==
  /\ ring = [row |-> ring.row, fired |-> ring.fired, said |-> ring.said]
  /\ ring.row = [i \in Ids |-> ring.row[i]]

AdviceTypes ==
  /\ now \in Nat \ {0}
  /\ living \in [Ids -> {None} \union AgeMarks]
  /\ RingIsWhole

Announced == AdviceTypes /\ Advice!RetirementIsAnnounced

\* What is living, what was last said of it and what was muted do not change.
LEMMA LivingUntouched ==
  ASSUME Announced, now' \in Nat \ {0}, UNCHANGED <<living, muted>>, RingIsWhole', ring'.row = ring.row
  PROVE  Announced'
BY DEF Announced, AdviceTypes, Advice!RetirementIsAnnounced

LEMMA AnnouncedInit == Advice!Init => Announced
<1>1. Frame \in Nat \ {0}
  BY BooksAssumption DEF Advice!AlertAssumptions
<1>. QED
  BY <1>1 DEF Advice!Init, Advice!Fresh, Announced, AdviceTypes, RingIsWhole, Advice!RetirementIsAnnounced

LEMMA AdoptKeeps ==
  ASSUME Announced, NEW i \in Ids, NEW carded \in BOOLEAN, Advice!Adopt(i, carded)
  PROVE  Announced'
<1>1. PICK marks : marks = [born |-> now, reeval |-> now]
  OBVIOUS
<1>2. marks \in AgeMarks /\ marks # None
  BY <1>1, BooksAssumption DEF Announced, AdviceTypes, AgeMarks, Advice!AlertAssumptions
<1>3. living' = [living EXCEPT ![i] = marks] /\ now' = now
  BY <1>1 DEF Advice!Adopt
<1>4. living' \in [Ids -> {None} \union AgeMarks] /\ living'[i] = marks
      /\ \A j \in Ids \ {i} : living'[j] = living[j]
  BY <1>2, <1>3 DEF Announced, AdviceTypes
<1>5. CASE carded
  <2>1. ring' = [ring EXCEPT !.row[i] = "ENTRY"] /\ muted' = muted \ {i}
    BY <1>5 DEF Advice!Adopt
  <2>2. RingIsWhole' /\ ring'.row = [ring.row EXCEPT ![i] = "ENTRY"]
    BY <2>1 DEF Announced, AdviceTypes, RingIsWhole
  <2>3. ring'.row[i] = "ENTRY" /\ \A j \in Ids \ {i} : ring'.row[j] = ring.row[j]
    BY <2>2 DEF Announced, AdviceTypes, RingIsWhole
  <2>. QED
    BY <1>2, <1>3, <1>4, <2>1, <2>2, <2>3 DEF Announced, AdviceTypes, Advice!RetirementIsAnnounced
<1>6. CASE ~carded
  <2>1. ring' = ring /\ muted' = muted \union {i}
    BY <1>6 DEF Advice!Adopt
  <2>. QED
    BY <1>3, <1>4, <2>1 DEF Announced, AdviceTypes, RingIsWhole, Advice!RetirementIsAnnounced
<1>. QED  BY <1>5, <1>6

LEMMA MinuteKeeps ==
  ASSUME Announced, NEW price \in Prices, NEW carded \in SUBSET Ids, Advice!MinuteClosed(price, carded)
  PROVE  Announced'
<1>1. PICK verdict : verdict = [i \in Ids |-> Advice!Says(i, now - 1, price)]
  OBVIOUS
<1>2. PICK speaking : speaking = {i \in Ids : verdict[i] \in {"EXPIRED", "KEEPALIVE"}}
  OBVIOUS
<1>3. /\ carded \subseteq speaking /\ now' = now /\ muted' = muted \union (speaking \ carded)
      /\ living' = [i \in Ids |->
           CASE verdict[i] \in {"EXPIRED", "gone"} -> None
             [] verdict[i] = "KEEPALIVE" -> [living[i] EXCEPT !.reeval = now - 1]
             [] OTHER -> living[i]]
      /\ ring' = [ring EXCEPT !.row = [i \in Ids |-> IF i \in carded THEN verdict[i] ELSE @[i]]]
  BY <1>1, <1>2 DEF Advice!MinuteClosed
<1>4. RingIsWhole' /\ \A i \in Ids : ring'.row[i] = IF i \in carded THEN verdict[i] ELSE ring.row[i]
  BY <1>3 DEF Announced, AdviceTypes, RingIsWhole
<1>5. \A i \in Ids : /\ verdict[i] \in {"silent", "EXPIRED", "KEEPALIVE"}
                     /\ verdict[i] = "KEEPALIVE" => living[i] # None
  BY <1>1 DEF Advice!Says
<1>6. now - 1 \in Nat
  BY DEF Announced, AdviceTypes
<1>7. ASSUME NEW i \in Ids
      PROVE  /\ living'[i] \in {None} \union AgeMarks
             /\ verdict[i] = "EXPIRED" => living'[i] = None
             /\ verdict[i] = "KEEPALIVE" => living'[i] # None
             /\ verdict[i] = "silent" => living'[i] = living[i]
  <2>1. living[i] \in {None} \union AgeMarks
    BY DEF Announced, AdviceTypes
  <2>2. CASE verdict[i] = "EXPIRED"
    BY <1>3, <2>2
  <2>3. CASE verdict[i] = "silent"
    BY <1>3, <2>1, <2>3
  <2>4. CASE verdict[i] = "KEEPALIVE"
    <3>1. living'[i] = [living[i] EXCEPT !.reeval = now - 1]
      BY <1>3, <2>4
    <3>2. living'[i] \in AgeMarks
      BY <1>5, <1>6, <2>1, <2>4, <3>1 DEF AgeMarks
    <3>3. None \notin AgeMarks
      BY BooksAssumption DEF AgeMarks, Advice!AlertAssumptions
    <3>. QED  BY <2>4, <3>2, <3>3
  <2>. QED  BY <1>5, <2>2, <2>3, <2>4
<1>8. living' \in [Ids -> {None} \union AgeMarks]
  BY <1>3, <1>7
<1>9. ASSUME NEW i \in Ids \ muted', ring'.row[i] # None
      PROVE  living'[i] = None <=> ring'.row[i] = "EXPIRED"
  <2>1. CASE i \in carded
    BY <1>2, <1>3, <1>4, <1>7, <2>1
  <2>2. CASE i \notin carded
    <3>1. i \notin muted /\ verdict[i] = "silent"
      BY <1>2, <1>3, <1>5, <1>9, <2>2
    <3>. QED
      BY <1>4, <1>7, <1>9, <2>2, <3>1 DEF Announced, Advice!RetirementIsAnnounced
  <2>. QED  BY <2>1, <2>2
<1>. QED
  BY <1>3, <1>4, <1>8, <1>9 DEF Announced, AdviceTypes, Advice!RetirementIsAnnounced

LEMMA AnnouncedNext == Announced /\ [Advice!Next]_(Advice!vars) => Announced'
<1>1. SUFFICES ASSUME Announced, [Advice!Next]_(Advice!vars)
               PROVE  Announced'
  OBVIOUS
<1>2. ASSUME NEW f \in Advice!Facts, NEW broken, Advice!FrameClosed(f, broken)
      PROVE  Announced'
  <2>1. UNCHANGED <<now, living, muted>>
    BY <1>2 DEF Advice!FrameClosed
  <2>2. RingIsWhole' /\ ring'.row = ring.row
    BY <1>1, <1>2 DEF Advice!FrameClosed, Announced, AdviceTypes, RingIsWhole
  <2>. QED  BY <1>1, <2>1, <2>2, LivingUntouched DEF Announced, AdviceTypes
<1>3. ASSUME \/ \E f \in Advice!Facts : Advice!Reconciled(f)
             \/ Advice!EmittedAgain
             \/ \E traded \in BOOLEAN : Advice!Tick(traded)
             \/ UNCHANGED Advice!vars
      PROVE  Announced'
  <2>1. UNCHANGED <<living, ring, muted>> /\ now' \in {now, now + 1}
    BY <1>3 DEF Advice!Reconciled, Advice!EmittedAgain, Advice!Tick, Advice!vars
  <2>. QED  BY <1>1, <2>1, LivingUntouched DEF Announced, AdviceTypes, RingIsWhole
<1>4. ASSUME NEW i \in Ids, NEW carded \in BOOLEAN, Advice!Adopt(i, carded)
      PROVE  Announced'
  BY <1>1, <1>4, AdoptKeeps
<1>5. ASSUME NEW price \in Prices, NEW carded \in SUBSET Ids, Advice!MinuteClosed(price, carded)
      PROVE  Announced'
  BY <1>1, <1>5, MinuteKeeps
<1>6. ASSUME Advice!ResetDay
      PROVE  Announced'
  <2>1. ring' = Advice!Fresh.ring /\ living' = Advice!Fresh.living /\ now' = now
    BY <1>6 DEF Advice!ResetDay
  <2>. QED
    BY <1>1, <2>1 DEF Advice!Fresh, Announced, AdviceTypes, RingIsWhole, Advice!RetirementIsAnnounced
<1>. QED  BY <1>1, <1>2, <1>3, <1>4, <1>5, <1>6 DEF Advice!Next

\* A living signal that is gone was announced as expired, and one announced as expired is gone
\* until it is adopted again, unless the card of a row could not be built - for any signals,
\* prices, lifetimes and resets (FudkiiRtDetector, AlertEngine).
THEOREM RetirementIsAnnouncedHolds == Advice!Spec => []RetirementIsAnnounced
<1>1. Announced => RetirementIsAnnounced
  BY DEF Announced, RetirementIsAnnounced
<1>. QED  BY <1>1, AnnouncedInit, AnnouncedNext, PTL DEF Advice!Spec

-----------------------------------------------------------------------------
(* The tape.  What a held second is answered with may lie in the buffer, with    *)
(* the worker, in its day file or aside.  No step moves a held row out of all     *)
(* four but a death, and that loses only what is younger than the last flush.     *)

Taken == IF flush = None THEN {} ELSE flush.rows

OnTape == buffer \union file \union aside \union Taken

TapeTypes ==
  /\ clock \in Nat /\ saved \in Nat /\ saved <= clock
  /\ quote \in [Record!Codes -> Quotes]
  /\ OnTape \subseteq Record!Row
  /\ flush # None => flush \in [rows : SUBSET Record!Row, began : Nat, fine : BOOLEAN] /\ flush.began <= clock

\* A code has one row a second, of a second that is over.
OneASecond ==
  /\ \A r \in OnTape : r.ts < clock
  /\ \A r, s \in OnTape : r.code = s.code /\ r.ts = s.ts => r = s

\* What has not reached its file is no older than the last flush that went well, nor than the
\* one that is going well so far.
Unflushed ==
  /\ \A r \in buffer \union Taken : saved <= r.ts
  /\ flush # None /\ flush.fine => \A r \in buffer : flush.began <= r.ts

\* r is the held row that a second of c is answered with.
Answers(r, c, ts, q) ==
  /\ r.held /\ r.code = c /\ r.quote = q /\ r.ts <= ts
  /\ \A s \in OnTape : s.code = c /\ s.ts <= ts => s.ts <= r.ts

Answered ==
  \A x \in due :
    /\ x.ts \in Nat /\ x.ts < clock
    /\ \E r \in OnTape : Answers(r, x.code, x.ts, x.quote) /\ Record!DayOf(r.ts) = Record!DayOf(x.ts)

\* The row that will answer for c as long as nothing of it changes.
StillAnswers(c) ==
  \E r \in OnTape : /\ Record!DayOf(r.ts) = last[c].day /\ r.held /\ r.code = c /\ r.quote = last[c].quote
                    /\ \A s \in OnTape : s.code = c => s.ts <= r.ts

Remembered == \A c \in Record!Codes \ torn : last[c] # None /\ last[c].held => StillAnswers(c)

Replayable == TapeTypes /\ OneASecond /\ Unflushed /\ Answered /\ Remembered

LEMMA ReplayableImplies == Replayable => EveryHoldIsReplayable
<1>1. SUFFICES ASSUME Replayable, NEW x \in due
               PROVE  Record!At(OnTape, x.code, x.ts) = {x.quote}
  BY DEF EveryHoldIsReplayable, Record!EveryHoldIsReplayable, OnTape, Taken
<1>2. PICK r \in OnTape : Answers(r, x.code, x.ts, x.quote) /\ Record!DayOf(r.ts) = Record!DayOf(x.ts)
  BY <1>1 DEF Replayable, Answered
<1>3. PICK before : before = {s \in OnTape : s.code = x.code /\ Record!DayOf(s.ts) = Record!DayOf(x.ts) /\ s.ts <= x.ts}
  OBVIOUS
<1>4. r \in before /\ \A s \in before : s.ts <= r.ts
  BY <1>2, <1>3 DEF Answers
<1>5. ASSUME NEW s \in before, \A y \in before : y.ts <= s.ts
      PROVE  s = r
  <2>1. s \in OnTape /\ s.ts \in Nat /\ r.ts \in Nat
    BY <1>1, <1>3 DEF Replayable, TapeTypes, Record!Row
  <2>2. s.ts = r.ts /\ s.code = r.code
    BY <1>2, <1>3, <1>4, <1>5, <2>1 DEF Answers
  <2>. QED  BY <1>1, <2>1, <2>2 DEF Replayable, OneASecond
<1>6. {s \in before : \A y \in before : y.ts <= s.ts} = {r}
  BY <1>4, <1>5
<1>7. Record!At(OnTape, x.code, x.ts) = {s.quote : s \in {r}}
  BY <1>3, <1>6 DEF Record!At
<1>. QED  BY <1>2, <1>7 DEF Answers

\* A step that loses no held row and writes none keeps every answer.
LEMMA NoHeldRowLost ==
  ASSUME Replayable, OnTape' \subseteq OnTape, \A r \in OnTape : r.held => r \in OnTape',
         due' = due, last' = last, torn' = torn, clock' = clock
  PROVE  OneASecond' /\ Answered' /\ Remembered'
<1>1. OneASecond'
  BY DEF Replayable, OneASecond
<1>2. Answered'
  BY DEF Replayable, Answered, Answers
<1>3. Remembered'
  BY DEF Replayable, Remembered, StillAnswers
<1>. QED  BY <1>1, <1>2, <1>3

LEMMA SampleKeeps ==
  ASSUME Replayable, NEW lost \in SUBSET Record!Codes, Record!Sample(lost)
  PROVE  Replayable'
<1>. DEFINE w == [c \in Options |-> Record!Pinned(c)]
            live == {c \in Options : w[c] # None}
            held == \E c \in live : Record!IsHeld(w[c])
            seen == live \union (IF live = {} THEN {} ELSE Legs)
            kept == [c \in Record!Codes |-> IF c \in Options /\ w[c] = None THEN None ELSE last[c]]
            fresh == {c \in seen : kept[c] # Record!Key(c, held)}
            rows == {[ts |-> clock, code |-> c, quote |-> quote[c], held |-> held] : c \in fresh \ lost}
<1>1. /\ held \in BOOLEAN
      /\ fresh = {c \in seen : kept[c] # Record!Key(c, held)}
      /\ \A c \in Record!Codes : kept[c] = None \/ kept[c] = last[c]
      /\ seen \subseteq Record!Codes
      /\ rows = {[ts |-> clock, code |-> c, quote |-> quote[c], held |-> held] : c \in fresh \ lost}
      /\ last' = [c \in Record!Codes |-> IF c \in fresh THEN Record!Key(c, held) ELSE kept[c]]
      /\ buffer' = buffer \union rows
      /\ torn' = (torn \ fresh) \union lost
      /\ \A x \in due' : x \in due \/ \E c \in seen \ torn' : held /\ x = [ts |-> clock, code |-> c, quote |-> quote[c]]
      /\ lost \subseteq fresh
      /\ clock' = clock + 1
      /\ quote' \in [Record!Codes -> Quotes]
      /\ UNCHANGED <<flush, file, aside, saved>>
  <2>1. /\ lost \subseteq fresh
        /\ last' = [c \in Record!Codes |-> IF c \in fresh THEN Record!Key(c, held) ELSE kept[c]]
        /\ buffer' = buffer \union rows
        /\ torn' = (torn \ fresh) \union lost
        /\ due' = due \union {[ts |-> clock, code |-> c, quote |-> quote[c]] :
                    c \in {d \in seen \ torn' : held /\ (d \in Options => Record!IsHeld(w[d]))}}
        /\ clock' = clock + 1
        /\ quote' \in [Record!Codes -> Quotes]
        /\ UNCHANGED <<flush, file, aside, saved>>
    BY DEF Record!Sample
  <2>2. seen \subseteq Record!Codes /\ held \in BOOLEAN
        /\ \A c \in Record!Codes : kept[c] = None \/ kept[c] = last[c]
    BY DEF Record!Codes
  <2>3. \A x \in due' : x \in due \/ \E c \in seen \ torn' : held /\ x = [ts |-> clock, code |-> c, quote |-> quote[c]]
    BY <2>1
  <2>. QED  BY <2>1, <2>2, <2>3
<1>. HIDE DEF w, live, held, seen, kept, fresh, rows
<1>2. OnTape' = OnTape \union rows /\ Taken' = Taken
  BY <1>1 DEF OnTape, Taken
<1>3. \A c \in fresh : c \in Record!Codes /\ quote[c] \in Quotes
  BY <1>1 DEF Replayable, TapeTypes
<1>4. \A r \in rows : r \in Record!Row /\ r.ts = clock /\ r.code \in fresh
  BY <1>1, <1>3 DEF Replayable, TapeTypes, Record!Row
<1>5. \A r \in OnTape : r.ts \in Nat /\ r.ts < clock
  BY DEF Replayable, TapeTypes, OneASecond, Record!Row
<1>6. clock \in Nat /\ clock' = clock + 1 /\ saved' = saved /\ flush' = flush
  BY <1>1 DEF Replayable, TapeTypes
<1>7. TapeTypes'
  BY <1>1, <1>2, <1>4, <1>6 DEF Replayable, TapeTypes
<1>8. OneASecond'
  <2>1. \A r, s \in rows : r.code = s.code => r = s
    BY <1>1
  <2>. QED  BY <1>2, <1>4, <1>5, <1>6, <2>1 DEF Replayable, OneASecond
<1>9. Unflushed'
  BY <1>1, <1>2, <1>4, <1>6 DEF Replayable, Unflushed, TapeTypes
\* A code that changed has the row of this second, unless that was lost.
<1>10. ASSUME NEW c \in fresh \ lost, held
       PROVE  \E r \in OnTape' : /\ r.ts = clock /\ r.held /\ r.code = c /\ r.quote = quote[c]
                                 /\ \A s \in OnTape' : s.ts <= r.ts
  <2>1. PICK r : r = [ts |-> clock, code |-> c, quote |-> quote[c], held |-> held]
    OBVIOUS
  <2>2. r \in OnTape' /\ r.ts = clock /\ r.held /\ r.code = c /\ r.quote = quote[c]
    BY <1>1, <1>2, <1>10, <2>1
  <2>3. \A s \in OnTape' : s.ts <= clock
    BY <1>2, <1>4, <1>5, <1>6
  <2>. QED  BY <2>2, <2>3
\* One that did not change has no row of this second, and the row it had.
<1>11. ASSUME NEW c \in Record!Codes \ (fresh \union torn'), last'[c] # None, last'[c].held
       PROVE  /\ last'[c] = last[c]
              /\ \E r \in OnTape' : /\ Record!DayOf(r.ts) = last[c].day /\ r.held /\ r.code = c /\ r.quote = last[c].quote
                                    /\ r.ts < clock /\ \A s \in OnTape' : s.code = c => s.ts <= r.ts
  <2>1. last'[c] = last[c] /\ c \notin torn
    BY <1>1, <1>11
  <2>2. StillAnswers(c)
    BY <1>11, <2>1 DEF Replayable, Remembered
  <2>3. \A s \in OnTape' : s.code = c => s \in OnTape
    BY <1>2, <1>4, <1>11
  <2>. QED  BY <1>2, <1>5, <2>1, <2>2, <2>3 DEF StillAnswers
<1>12. Answered'
  <2>1. SUFFICES ASSUME NEW x \in due'
                 PROVE  /\ x.ts \in Nat /\ x.ts < clock'
                        /\ (\E r \in OnTape : Answers(r, x.code, x.ts, x.quote) /\ Record!DayOf(r.ts) = Record!DayOf(x.ts))'
    BY DEF Answered
  <2>2. CASE x \in due
    <3>1. x.ts \in Nat /\ x.ts < clock
      BY <2>2 DEF Replayable, Answered
    <3>2. PICK r \in OnTape : Answers(r, x.code, x.ts, x.quote) /\ Record!DayOf(r.ts) = Record!DayOf(x.ts)
      BY <2>2 DEF Replayable, Answered
    <3>3. r \in OnTape' /\ \A s \in OnTape' : s.ts <= x.ts => s \in OnTape
      BY <1>2, <1>4, <1>6, <3>1
    <3>4. (Answers(r, x.code, x.ts, x.quote))'
      BY <3>2, <3>3 DEF Answers
    <3>. QED  BY <1>6, <3>1, <3>2, <3>3, <3>4 DEF Record!DayOf
  <2>3. CASE x \notin due
    <3>1. PICK c \in seen \ torn' : held /\ x = [ts |-> clock, code |-> c, quote |-> quote[c]]
      BY <1>1, <2>3
    <3>2. \E r \in OnTape' : /\ Record!DayOf(r.ts) = Record!DayOf(clock) /\ r.held /\ r.code = c /\ r.quote = quote[c] /\ r.ts <= clock
                             /\ \A s \in OnTape' : s.code = c /\ s.ts <= clock => s.ts <= r.ts
      <4>1. CASE c \in fresh
        <5>1. c \notin lost
          BY <1>1, <3>1
        <5>. QED  BY <1>6, <1>10, <3>1, <4>1, <5>1
      <4>2. CASE c \notin fresh
        <5>1. last'[c] = Record!Key(c, held)
          BY <1>1, <3>1, <4>2
        <5>2. quote[c] \in Quotes /\ Record!Today \in Int
          <6>1. Secs \in Nat \ {0}
            BY BooksAssumption DEF Record!TapeAssumptions
          <6>. QED  BY <1>1, <1>6, <3>1, <6>1 DEF Replayable, TapeTypes, Record!Today, Record!DayOf
        <5>3. last'[c] = [quote |-> quote[c], day |-> Record!Today, held |-> TRUE]
          BY <3>1, <5>1 DEF Record!Key
        <5>4. last'[c] # None
          <6>1. last'[c] \in [quote : Quotes, day : Int, held : BOOLEAN]
            BY <5>2, <5>3
          <6>. QED  BY <6>1, BooksAssumption DEF Record!TapeAssumptions
        <5>5. last'[c].quote = quote[c] /\ last'[c].day = Record!DayOf(clock) /\ last'[c].held
          BY <5>3 DEF Record!Today
        <5>6. c \in Record!Codes \ (fresh \union torn')
          BY <1>1, <3>1, <4>2
        <5>7. /\ last'[c] = last[c]
              /\ \E r \in OnTape' : /\ Record!DayOf(r.ts) = last[c].day /\ r.held /\ r.code = c /\ r.quote = last[c].quote
                                    /\ r.ts < clock /\ \A s \in OnTape' : s.code = c => s.ts <= r.ts
          BY <1>11, <5>4, <5>5, <5>6
        <5>8. PICK r \in OnTape' : /\ Record!DayOf(r.ts) = last[c].day /\ r.held /\ r.code = c /\ r.quote = last[c].quote
                                   /\ r.ts < clock /\ \A s \in OnTape' : s.code = c => s.ts <= r.ts
          BY <5>7
        <5>9. r.ts \in Nat
          BY <1>7 DEF TapeTypes, Record!Row
        <5>10. r.ts <= clock /\ r.quote = quote[c] /\ Record!DayOf(r.ts) = Record!DayOf(clock)
          BY <1>6, <5>5, <5>7, <5>8, <5>9
        <5>. QED  BY <5>8, <5>10
      <4>. QED  BY <4>1, <4>2
    <3>3. x.ts = clock /\ x.code = c /\ x.quote = quote[c]
      BY <3>1
    <3>. QED  BY <1>6, <3>2, <3>3 DEF Answers, Record!DayOf
  <2>. QED  BY <2>2, <2>3
<1>13. Remembered'
  <2>1. SUFFICES ASSUME NEW c \in Record!Codes \ torn', last'[c] # None, last'[c].held
                 PROVE  StillAnswers(c)'
    BY DEF Remembered
  <2>2. CASE c \in fresh
    <3>1. last'[c] = [quote |-> quote[c], day |-> Record!Today, held |-> held]
      BY <1>1, <2>1, <2>2 DEF Record!Key
    <3>2. last'[c].quote = quote[c] /\ last'[c].day = Record!DayOf(clock) /\ held
      BY <2>1, <3>1 DEF Record!Today
    <3>3. c \in fresh \ lost
      BY <1>1, <2>1, <2>2
    <3>. QED  BY <1>10, <3>2, <3>3 DEF StillAnswers, Record!DayOf
  <2>3. CASE c \notin fresh
    BY <1>11, <2>1, <2>3 DEF StillAnswers, Record!DayOf
  <2>. QED  BY <2>2, <2>3
<1>. QED  BY <1>7, <1>8, <1>9, <1>12, <1>13 DEF Replayable

LEMMA FlushBeginsKeeps ==
  ASSUME Replayable, Record!FlushBegins
  PROVE  Replayable'
<1>1. /\ flush = None /\ buffer' = {} /\ flush' = [rows |-> buffer, began |-> clock, fine |-> TRUE]
      /\ UNCHANGED <<clock, quote, last, file, aside, due, torn, saved>>
  BY DEF Record!FlushBegins
<1>2. flush' \in [rows : SUBSET Record!Row, began : Nat, fine : BOOLEAN] /\ flush'.rows = buffer /\ flush'.began = clock
  BY <1>1 DEF Replayable, TapeTypes, OnTape
<1>3. flush' # None
  BY <1>2, BooksAssumption DEF Record!TapeAssumptions
<1>4. Taken = {} /\ Taken' = buffer /\ OnTape' = OnTape
  BY <1>1, <1>2, <1>3 DEF Taken, OnTape
<1>5. TapeTypes'
  BY <1>1, <1>2, <1>4 DEF Replayable, TapeTypes
<1>6. Unflushed'
  BY <1>1, <1>4 DEF Replayable, Unflushed
<1>. QED  BY <1>1, <1>4, <1>5, <1>6, NoHeldRowLost DEF Replayable

LEMMA DayWrittenKeeps ==
  ASSUME Replayable, NEW d \in 0..Days, NEW fine \in BOOLEAN, Record!DayWritten(d, fine)
  PROVE  Replayable'
<1>1. PICK rows : rows = {r \in flush.rows : Record!DayOf(r.ts) = d}
  OBVIOUS
<1>2. /\ flush # None /\ rows \subseteq flush.rows
      /\ file' = IF fine THEN file \union rows ELSE file
      /\ buffer' = IF fine THEN buffer ELSE buffer \union rows
      /\ flush' = [flush EXCEPT !.rows = flush.rows \ rows, !.fine = flush.fine /\ fine]
      /\ UNCHANGED <<clock, quote, last, aside, due, torn, saved>>
  BY <1>1 DEF Record!DayWritten, Record!PutBack
<1>3. flush \in [rows : SUBSET Record!Row, began : Nat, fine : BOOLEAN] /\ flush.began <= clock
  BY <1>2 DEF Replayable, TapeTypes
<1>4. /\ flush' \in [rows : SUBSET Record!Row, began : Nat, fine : BOOLEAN]
      /\ flush'.rows = flush.rows \ rows /\ flush'.began = flush.began /\ flush'.fine = (flush.fine /\ fine)
  BY <1>2, <1>3
<1>5. flush' # None
  BY <1>4, BooksAssumption DEF Record!TapeAssumptions
<1>6. Taken = flush.rows /\ Taken' = flush.rows \ rows /\ OnTape' = OnTape
  BY <1>2, <1>4, <1>5 DEF Taken, OnTape
<1>7. TapeTypes'
  BY <1>2, <1>3, <1>4, <1>6 DEF Replayable, TapeTypes
<1>8. Unflushed'
  BY <1>2, <1>4, <1>6 DEF Replayable, Unflushed
<1>. QED  BY <1>2, <1>6, <1>7, <1>8, NoHeldRowLost DEF Replayable

\* A file goes only when the held rows in it were set aside.
LEMMA FlushEndsKeeps ==
  ASSUME Replayable, NEW kept, Record!FlushEnds(kept)
  PROVE  Replayable'
<1>1. PICK gone :
        /\ file' = {r \in file : Record!DayOf(r.ts) \notin gone}
        /\ aside' = aside \union UNION {Record!SetAside(d) : d \in gone}
  BY DEF Record!FlushEnds
<1>2. /\ flush # None /\ flush.rows = {} /\ flush' = None
      /\ saved' = IF flush.fine THEN flush.began ELSE saved
      /\ UNCHANGED <<clock, quote, last, buffer, due, torn>>
  BY DEF Record!FlushEnds
<1>3. Taken = {} /\ Taken' = {}
  BY <1>2 DEF Taken
<1>4. \A d \in gone : Record!SetAside(d) \subseteq file
  BY DEF Record!SetAside
<1>5. OnTape' \subseteq OnTape
  BY <1>1, <1>2, <1>3, <1>4 DEF OnTape
<1>6. ASSUME NEW r \in OnTape, r.held
      PROVE  r \in OnTape'
  <2>1. CASE r \in file /\ Record!DayOf(r.ts) \in gone
    <3>1. r \in Record!SetAside(Record!DayOf(r.ts))
      BY <1>6, <2>1 DEF Record!SetAside
    <3>2. r \in aside'
      BY <1>1, <2>1, <3>1
    <3>. QED  BY <3>2 DEF OnTape
  <2>2. CASE r \in file /\ Record!DayOf(r.ts) \notin gone
    BY <1>1, <2>2 DEF OnTape
  <2>3. CASE r \notin file
    BY <1>1, <1>2, <1>3, <1>6, <2>3 DEF OnTape
  <2>. QED  BY <2>1, <2>2, <2>3
<1>7. TapeTypes'
  BY <1>2, <1>5 DEF Replayable, TapeTypes
<1>8. Unflushed'
  BY <1>2, <1>3 DEF Replayable, Unflushed
<1>. QED  BY <1>2, <1>5, <1>6, <1>7, <1>8, NoHeldRowLost DEF Replayable

\* What answers for a second before the last good flush is in its file or aside.
LEMMA CrashKeeps ==
  ASSUME Replayable, Record!Crash
  PROVE  Replayable'
<1>1. /\ buffer' = {} /\ flush' = None /\ last' = [c \in Record!Codes |-> None]
      /\ due' = {x \in due : x.ts < saved} /\ UNCHANGED <<clock, quote, file, aside, saved>>
  BY DEF Record!Crash
<1>2. Taken' = {} /\ OnTape' = file \union aside /\ OnTape' \subseteq OnTape
  BY <1>1 DEF Taken, OnTape
<1>3. TapeTypes' /\ OneASecond' /\ Unflushed'
  BY <1>1, <1>2 DEF Replayable, TapeTypes, OneASecond, Unflushed
<1>4. Answered'
  <2>1. SUFFICES ASSUME NEW x \in due, x.ts < saved
                 PROVE  /\ x.ts \in Nat /\ x.ts < clock'
                        /\ (\E r \in OnTape : Answers(r, x.code, x.ts, x.quote) /\ Record!DayOf(r.ts) = Record!DayOf(x.ts))'
    BY <1>1 DEF Answered
  <2>2. PICK r \in OnTape : Answers(r, x.code, x.ts, x.quote) /\ Record!DayOf(r.ts) = Record!DayOf(x.ts)
    BY DEF Replayable, Answered
  <2>3. x.ts \in Nat /\ x.ts < clock /\ r.ts \in Nat /\ saved \in Nat /\ r.ts <= x.ts
    BY <2>2 DEF Replayable, Answered, TapeTypes, Record!Row, Answers
  <2>4. r \notin buffer \union Taken
    BY <2>1, <2>3 DEF Replayable, Unflushed
  <2>5. r \in OnTape'
    BY <1>2, <2>2, <2>4 DEF OnTape
  <2>6. (Answers(r, x.code, x.ts, x.quote))'
    BY <1>2, <2>2 DEF Answers
  <2>. QED  BY <1>1, <2>2, <2>3, <2>5, <2>6 DEF Record!DayOf
<1>5. Remembered'
  BY <1>1 DEF Remembered
<1>. QED  BY <1>3, <1>4, <1>5 DEF Replayable

LEMMA ReplayableInit == Record!Init => Replayable
<1>1. SUFFICES ASSUME Record!Init PROVE Replayable
  OBVIOUS
<1>2. Taken = {} /\ OnTape = {}
  BY <1>1 DEF Record!Init, Taken, OnTape
<1>3. quote \in [Record!Codes -> Quotes]
  <2>1. (CHOOSE q \in Quotes : TRUE) \in Quotes
    BY BooksAssumption DEF Record!TapeAssumptions
  <2>. QED  BY <1>1, <2>1 DEF Record!Init
<1>4. TapeTypes /\ OneASecond /\ Unflushed
  BY <1>1, <1>2, <1>3 DEF Record!Init, TapeTypes, OneASecond, Unflushed
<1>. QED  BY <1>1, <1>4 DEF Record!Init, Replayable, Answered, Remembered

LEMMA ReplayableNext == Replayable /\ [Record!Next]_(Record!vars) => Replayable'
<1>1. SUFFICES ASSUME Replayable, [Record!Next]_(Record!vars)
               PROVE  Replayable'
  OBVIOUS
<1>2. ASSUME NEW c \in Options, Record!Follow(c) \/ Record!Opens(c) \/ Record!Closes(c)
      PROVE  UNCHANGED <<clock, quote, last, buffer, flush, file, aside, due, torn, saved>>
  BY <1>2 DEF Record!Follow, Record!Opens, Record!Closes
<1>3. ASSUME UNCHANGED <<clock, quote, last, buffer, flush, file, aside, due, torn, saved>>
      PROVE  Replayable'
  <2>1. Taken' = Taken /\ OnTape' = OnTape
    BY <1>3 DEF Taken, OnTape
  <2>2. TapeTypes' /\ Unflushed'
    BY <1>1, <1>3, <2>1 DEF Replayable, TapeTypes, Unflushed
  <2>. QED  BY <1>1, <1>3, <2>1, <2>2, NoHeldRowLost DEF Replayable
<1>4. UNCHANGED Record!vars => UNCHANGED <<clock, quote, last, buffer, flush, file, aside, due, torn, saved>>
  BY DEF Record!vars
<1>. QED
  BY <1>1, <1>2, <1>3, <1>4, SampleKeeps, FlushBeginsKeeps, DayWrittenKeeps, FlushEndsKeeps, CrashKeeps
  DEF Record!Next

\* Every second a contract was held is answered by the tape with the quote the exits saw,
\* wherever its rows have got to - for any contracts, quotes, days, window of files, writes that
\* fail and deaths of the process (Tape.sample, DailyArchive).
THEOREM EveryHoldIsReplayableHolds == Record!Spec => []EveryHoldIsReplayable
BY ReplayableImplies, ReplayableInit, ReplayableNext, PTL DEF Record!Spec

-----------------------------------------------------------------------------
(* The backtester's trade and its episode, of Replay.  Side by side they have the  *)
(* same fill, peak, rung and bars held; what differs is when the stop moves: the   *)
(* backtester moves it with the rung, the policy before the next bar.  The policy  *)
(* only ever raises a stop and the backtester does not, so that the two come to    *)
(* the same rests on where a stop can be: behind the entry, or behind the trail.   *)

Ahead(d, x, y) == IF d = 1 THEN x > y ELSE x < y

NotBefore(d, x, y) == IF d = 1 THEN x >= y ELSE x <= y

IsTrade(t) ==
  /\ t \in [dir : {1, -1}, day : {t.day}, at : {t.at}, entry : Int, stop : Int, initial : Int,
            targets : {t.targets}, qty : {t.qty}, hit : Nat, peak : Int, held : Nat]
  /\ \/ t.targets \in Seq(Int) /\ Len(t.targets) = 1
     \/ t.targets \in Seq(Int) /\ Len(t.targets) = 2 /\ Ahead(t.dir, t.targets[2], t.targets[1])

\* Whatever its numbers are.
Shape(t) ==
  t \in [dir : {t.dir}, day : {t.day}, at : {t.at}, entry : {t.entry}, stop : {t.stop}, initial : {t.initial},
         targets : {t.targets}, qty : {t.qty}, hit : {t.hit}, peak : {t.peak}, held : {t.held}]

Same(t, u) == u.dir = t.dir /\ u.entry = t.entry /\ u.initial = t.initial /\ u.targets = t.targets

\* Where the trail of a trade stands once it is armed.
Behind(t) ==
  /\ NotBefore(t.dir, t.peak, t.entry)
  /\ \/ NotBefore(t.dir, t.entry, t.stop)
     \/ Backtest!Armed(t) /\ NotBefore(t.dir, Backtest!TrailLevel(t), t.stop)

\* The first target was reached when the first rung was taken, and the stop went to the entry.
Climbed(t) ==
  /\ t.hit < Len(t.targets)
  /\ t.hit = 0 <=> Ahead(t.dir, t.targets[1], t.peak)
  /\ t.hit > 0 /\ ~Backtest!Armed(t) => t.stop = t.entry

IsEpisode(e) ==
  e = [entry |-> e.entry, dir |-> e.dir, targets |-> e.targets, stop |-> e.stop, peak |-> e.peak,
       hit |-> e.hit, held |-> e.held, done |-> e.done, price |-> e.price]

\* The same trade, lived by both up to the bar they are at.
Alike(t, e) ==
  /\ IsEpisode(e) /\ e.stop \in Int
  /\ e.entry = t.entry /\ e.dir = t.dir /\ e.targets = t.targets
  /\ e.peak = t.peak /\ e.hit = t.hit /\ e.done = "no"

Twins(t, e) ==
  /\ Alike(t, e) /\ e.held = t.held
  /\ Backtest!StopAfter(e, Backtest!Act(e)) = t.stop
  /\ Behind(t) /\ Climbed(t)

IsPlan(p) ==
  /\ p \in [dir : {1, -1}, stop : Int, targets : {p.targets}]
  /\ \/ p.targets \in Seq(Int) /\ Len(p.targets) = 1
     \/ p.targets \in Seq(Int) /\ Len(p.targets) = 2 /\ Ahead(p.dir, p.targets[2], p.targets[1])

Replayed ==
  /\ pending # None => IsPlan(pending)
  /\ trade # None => Shape(trade.bt)
  /\ trade # None /\ Backtest!Clean(trade.bt) => IsTrade(trade.bt) /\ Twins(trade.bt, trade.rl)
  /\ ended # None /\ Backtest!Clean(ended.trade) =>
       /\ Backtest!SameReason(ended.reason, ended.rl.done)
       /\ ended.rl.done \in {"stop", "target"} => ended.rl.price = ended.exit
       /\ ended.rl.done # "no" => ended.trade.dir * (ended.rl.price - ended.exit) <= 0

LEMMA ReplayNumbers ==
  /\ Ticks \subseteq Int /\ Levels \subseteq Int /\ Slip \in Nat /\ Arm \in Nat /\ TimeStop \in Nat
  /\ Giveback \in Nat /\ Giveback <= 100
  BY BooksAssumption DEF Backtest!ReplayAssumptions

(* Either direction, as comparisons.                                              *)

LEMMA SignIs ==
  ASSUME NEW d \in {1, -1}, NEW x \in Int, NEW y \in Int
  PROVE  /\ (d * (x - y) >= 0) <=> NotBefore(d, x, y)
         /\ (d * (x - y) > 0) <=> Ahead(d, x, y)
         /\ (d * (x - y) <= 0) <=> NotBefore(d, y, x)
<1>1. CASE d = 1
  BY <1>1 DEF NotBefore, Ahead
<1>2. CASE d = -1
  <2>1. d * (x - y) = -(x - y)
    BY <1>2
  <2>. QED  BY <1>2, <2>1 DEF NotBefore, Ahead
<1>. QED  BY <1>1, <1>2

LEMMA FurtherIs ==
  ASSUME NEW d \in {1, -1}, NEW x \in Int, NEW y \in Int
  PROVE  Backtest!Further(d, x, y) = IF NotBefore(d, x, y) THEN x ELSE y
  BY SignIs DEF Backtest!Further

LEMMA InOrderOf ==
  ASSUME NEW d \in {1, -1}, NEW x \in Int, NEW y \in Int, NEW z \in Int, NotBefore(d, x, y), NotBefore(d, y, z)
  PROVE  NotBefore(d, x, z) /\ (Ahead(d, x, y) \/ Ahead(d, y, z) => Ahead(d, x, z))
  BY DEF NotBefore, Ahead

(* The trail: never behind the entry, and never back.                             *)

LEMMA SharesGrow ==
  ASSUME NEW g \in Nat, NEW h \in Nat, g <= h
  PROVE  /\ (g * Giveback) \div 100 \in Nat /\ (g * Giveback) \div 100 <= g
         /\ (h * Giveback) \div 100 - (g * Giveback) \div 100 <= h - g
<1>0. Giveback \in Nat /\ Giveback <= 100
  BY ReplayNumbers
<1>1. ASSUME NEW x \in Nat PROVE x * Giveback \in Nat /\ x * Giveback <= 100 * x
  BY <1>0, Z3
<1>2. h * Giveback = g * Giveback + (h - g) * Giveback
  BY <1>0, Z3
<1>3. PICK a : a = g * Giveback
  OBVIOUS
<1>4. PICK c : c = h * Giveback
  OBVIOUS
<1>5. a \in Nat /\ c \in Nat /\ a <= 100 * g /\ c <= a + 100 * (h - g)
  BY <1>1, <1>2, <1>3, <1>4
<1>6. a \div 100 \in Nat /\ a \div 100 <= g /\ c \div 100 - a \div 100 <= h - g
  BY <1>5
<1>. QED  BY <1>3, <1>4, <1>6

\* What is asked of a trade and of an episode alike.
Level(d, entry, peak) == peak - d * (((d * (peak - entry)) * Giveback) \div 100)

Arms(d, entry, peak) == d * (peak - entry) > 0 /\ (d * (peak - entry)) * 100 >= Arm * entry

LEMMA LevelsAre ==
  ASSUME NEW t
  PROVE  Backtest!TrailLevel(t) = Level(t.dir, t.entry, t.peak) /\ (Backtest!Armed(t) <=> Arms(t.dir, t.entry, t.peak))
  BY DEF Backtest!TrailLevel, Backtest!Armed, Backtest!PeakGain, Level, Arms

LEMMA LevelGrows ==
  ASSUME NEW d \in {1, -1}, NEW entry \in Int, NEW peak \in Int, NEW high \in Int,
         NotBefore(d, peak, entry), NotBefore(d, high, peak)
  PROVE  /\ Level(d, entry, peak) \in Int /\ NotBefore(d, Level(d, entry, peak), entry)
         /\ NotBefore(d, Level(d, entry, high), Level(d, entry, peak))
         /\ Level(d, entry, high) \in Int /\ NotBefore(d, Level(d, entry, high), entry)
         /\ Arms(d, entry, peak) => Arms(d, entry, high)
<1>. DEFINE g == d * (peak - entry)
            h == d * (high - entry)
<1>1. g \in Nat /\ h \in Nat /\ g <= h
  BY DEF NotBefore
<1>2. PICK x \in Nat : x = (g * Giveback) \div 100
  BY <1>1, SharesGrow
<1>3. PICK y \in Nat : y = (h * Giveback) \div 100
  BY <1>1, SharesGrow
<1>4. x <= g /\ y <= h /\ y - x <= h - g
  <2>. HIDE DEF g, h
  <2>. QED  BY <1>1, <1>2, <1>3, SharesGrow
<1>5. Level(d, entry, peak) = peak - d * x /\ Level(d, entry, high) = high - d * y
  BY <1>2, <1>3 DEF Level
<1>6. Arms(d, entry, peak) => Arms(d, entry, high)
  <2>1. Arm * entry \in Int
    BY ReplayNumbers
  <2>2. PICK z \in Int : z = Arm * entry
    BY <2>1
  <2>. QED  BY <1>1, <2>2 DEF Arms
<1>7. CASE d = 1
  BY <1>1, <1>4, <1>5, <1>6, <1>7 DEF NotBefore
<1>8. CASE d = -1
  <2>1. g = entry - peak /\ h = entry - high /\ d * x = -x /\ d * y = -y
    BY <1>8
  <2>. QED  BY <1>1, <1>4, <1>5, <1>6, <1>8, <2>1 DEF NotBefore
<1>. QED  BY <1>7, <1>8

(* One bar of both.                                                               *)

IsBar(b) ==
  /\ {b.open, b.high, b.low, b.close} \subseteq Int
  /\ b.low <= b.open /\ b.open <= b.high

LEMMA BarsAreBars == \A b \in Backtest!Bars : IsBar(b)
  BY ReplayNumbers DEF Backtest!Bars, IsBar

\* What the bar makes of the peak and the rung, before the stop is looked at again.
Seen(t, b) == [t EXCEPT !.held = @ + 1, !.peak = Backtest!Further(t.dir, @, Backtest!Best(t.dir, b))]

Rung(t, b) == [Seen(t, b) EXCEPT !.hit = @ + 1, !.stop = t.entry]

AfterBar(t, b) ==
  Backtest!Trailed(IF Backtest!TargetHit(t, b) THEN Rung(t, b) ELSE Seen(t, b), Backtest!TargetHit(t, b))

LEMMA TargetsAre ==
  ASSUME NEW t, IsTrade(t)
  PROVE  /\ Len(t.targets) \in {1, 2} /\ DOMAIN t.targets = 1..Len(t.targets) /\ t.targets # <<>>
         /\ \A i \in 1..Len(t.targets) : t.targets[i] \in Int /\ NotBefore(t.dir, t.targets[i], t.targets[1])
<1>1. PICK s : s = t.targets
  OBVIOUS
<1>2. s \in Seq(Int) /\ (Len(s) = 1 \/ Len(s) = 2)
  BY <1>1 DEF IsTrade
<1>3. DOMAIN s = 1..Len(s) /\ s # <<>> /\ \A i \in 1..Len(s) : s[i] \in Int
  BY <1>2
<1>4. Len(s) = 2 => s[2] \in Int /\ s[1] \in Int /\ NotBefore(t.dir, s[2], s[1])
  BY <1>1, <1>3 DEF IsTrade, Ahead, NotBefore
<1>5. ASSUME NEW i \in 1..Len(s) PROVE NotBefore(t.dir, s[i], s[1])
  <2>1. CASE i = 1
    BY <1>3, <2>1 DEF NotBefore
  <2>2. CASE i # 1
    <3>1. CASE Len(s) = 1
      BY <2>2, <3>1
    <3>2. CASE Len(s) = 2
      <4>1. i = 2
        BY <2>2, <3>2
      <4>. QED  BY <1>4, <3>2, <4>1
    <3>. QED  BY <1>2, <3>1, <3>2
  <2>. QED  BY <2>1, <2>2
<1>. QED  BY <1>1, <1>2, <1>3, <1>5

\* The numbers of a trade on a bar.
LEMMA OnABar ==
  ASSUME NEW t, IsTrade(t), NEW b, IsBar(b), Behind(t), Climbed(t)
  PROVE  LET best == Backtest!Best(t.dir, b)
             high == Seen(t, b).peak
         IN  /\ best \in Int /\ high \in Int /\ NotBefore(t.dir, high, t.peak) /\ NotBefore(t.dir, high, best)
             /\ high \in {t.peak, best}
             /\ NotBefore(t.dir, high, t.entry)
             /\ Seen(t, b) = [t EXCEPT !.held = t.held + 1, !.peak = high]
             /\ Backtest!TargetHit(t, b) <=> NotBefore(t.dir, best, t.targets[t.hit + 1])
             /\ t.targets[t.hit + 1] \in Int /\ NotBefore(t.dir, t.targets[t.hit + 1], t.targets[1])
             /\ t.targets[1] \in Int
<1>. DEFINE best == Backtest!Best(t.dir, b)
            high == Backtest!Further(t.dir, t.peak, best)
<1>1. /\ t.dir \in {1, -1} /\ t.entry \in Int /\ t.peak \in Int /\ t.hit \in Nat /\ t.hit < Len(t.targets)
      /\ t = [t EXCEPT !.peak = t.peak]
  BY DEF IsTrade, Climbed
<1>2. best \in Int
  BY DEF Backtest!Best, IsBar
<1>3. high = IF NotBefore(t.dir, t.peak, best) THEN t.peak ELSE best
  BY <1>1, <1>2, FurtherIs
<1>4. high \in Int /\ NotBefore(t.dir, high, t.peak) /\ NotBefore(t.dir, high, best) /\ high \in {t.peak, best}
  BY <1>1, <1>2, <1>3 DEF NotBefore
<1>5. NotBefore(t.dir, high, t.entry)
  BY <1>1, <1>4, InOrderOf DEF Behind
<1>6. Seen(t, b) = [t EXCEPT !.held = t.held + 1, !.peak = high] /\ Seen(t, b).peak = high
  BY DEF Seen, IsTrade
<1>7. t.hit + 1 \in 1..Len(t.targets) /\ 1 \in 1..Len(t.targets)
  BY <1>1, TargetsAre
<1>8. t.targets[t.hit + 1] \in Int /\ NotBefore(t.dir, t.targets[t.hit + 1], t.targets[1]) /\ t.targets[1] \in Int
  BY <1>7, TargetsAre
<1>9. Backtest!TargetHit(t, b) <=> NotBefore(t.dir, best, t.targets[t.hit + 1])
  <2>. HIDE DEF best
  <2>1. t.dir * (best - t.targets[t.hit + 1]) >= 0 <=> NotBefore(t.dir, best, t.targets[t.hit + 1])
    BY <1>1, <1>2, <1>8, SignIs
  <2>. QED  BY <1>1, <2>1 DEF Backtest!TargetHit, best
<1>. QED  BY <1>2, <1>4, <1>5, <1>6, <1>8, <1>9

\* The stop after the bar, on either side.
LEMMA StopsMeet ==
  ASSUME NEW t, IsTrade(t), NEW b, IsBar(b), Behind(t), Climbed(t),
         NEW e, IsEpisode(e), e.stop = t.stop, e.entry = t.entry, e.dir = t.dir, e.targets = t.targets,
         e.peak = Seen(t, b).peak
  PROVE  /\ AfterBar(t, b).stop \in Int
         /\ Backtest!StopAfter(e, Backtest!Act(e)) = AfterBar(t, b).stop
         /\ \/ NotBefore(t.dir, t.entry, AfterBar(t, b).stop)
            \/ Arms(t.dir, t.entry, e.peak) /\ NotBefore(t.dir, Level(t.dir, t.entry, e.peak), AfterBar(t, b).stop)
         /\ ~Arms(t.dir, t.entry, e.peak) /\ (t.hit > 0 \/ Backtest!TargetHit(t, b)) => AfterBar(t, b).stop = t.entry
<1>. DEFINE d == t.dir
            best == Backtest!Best(d, b)
            high == Seen(t, b).peak
            level == Level(d, t.entry, high)
            armed == Arms(d, t.entry, high)
            hits == Backtest!TargetHit(t, b)
<1>1. d \in {1, -1} /\ t.entry \in Int /\ t.peak \in Int /\ t.stop \in Int /\ t.hit \in Nat
  BY DEF IsTrade
<1>2. /\ best \in Int /\ high \in Int /\ NotBefore(d, high, t.peak) /\ NotBefore(d, high, best) /\ high \in {t.peak, best}
      /\ NotBefore(d, high, t.entry) /\ NotBefore(d, t.peak, t.entry)
      /\ hits <=> NotBefore(d, best, t.targets[t.hit + 1])
      /\ t.targets[t.hit + 1] \in Int /\ NotBefore(d, t.targets[t.hit + 1], t.targets[1]) /\ t.targets[1] \in Int
  BY OnABar DEF Behind
<1>3. /\ level \in Int /\ NotBefore(d, level, t.entry)
      /\ NotBefore(d, level, Level(d, t.entry, t.peak)) /\ Level(d, t.entry, t.peak) \in Int
      /\ Arms(d, t.entry, t.peak) => armed
  BY <1>1, <1>2, LevelGrows
<1>4. /\ Backtest!Armed(t) <=> Arms(d, t.entry, t.peak)
      /\ Backtest!TrailLevel(t) = Level(d, t.entry, t.peak)
      /\ Backtest!Armed(e) <=> armed
      /\ Backtest!TrailLevel(e) = level
  BY LevelsAre
<1>. DEFINE u == IF hits THEN Rung(t, b) ELSE Seen(t, b)
            s == IF hits THEN t.entry ELSE t.stop
<1>5. /\ u.dir = d /\ u.entry = t.entry /\ u.peak = high /\ u.stop = s
      /\ \A x \in Int : [u EXCEPT !.stop = x].stop = x
  BY <1>2 DEF IsTrade, Rung, Seen
<1>6. Backtest!Armed(u) <=> armed
  BY <1>5, LevelsAre
<1>7. Backtest!TrailLevel(u) = level
  BY <1>5, LevelsAre
<1>. HIDE DEF u
<1>8. s \in Int
  BY <1>1
<1>9. AfterBar(t, b).stop = IF armed /\ Ahead(d, level, s) THEN level ELSE s
  <2>1. AfterBar(t, b) = IF armed /\ d * (level - s) > 0 THEN [u EXCEPT !.stop = level] ELSE u
    BY <1>5, <1>6, <1>7 DEF AfterBar, Backtest!Trailed, u
  <2>2. d * (level - s) > 0 <=> Ahead(d, level, s)
    <3>. HIDE DEF d, level, s
    <3>. QED  BY <1>1, <1>3, <1>8, SignIs
  <2>. QED  BY <1>3, <1>5, <2>1, <2>2
<1>10. e.targets # <<>> /\ e.targets[1] = t.targets[1]
  BY TargetsAre
<1>11. Backtest!StopAfter(e, Backtest!Act(e)) =
         IF armed THEN IF NotBefore(d, t.stop, level) THEN t.stop ELSE level
         ELSE IF NotBefore(d, high, t.targets[1]) THEN IF NotBefore(d, t.stop, t.entry) THEN t.stop ELSE t.entry
         ELSE t.stop
  <2>1. d * (high - t.targets[1]) >= 0 <=> NotBefore(d, high, t.targets[1])
    <3>. HIDE DEF d, high
    <3>. QED  BY <1>1, <1>2, SignIs
  <2>2. /\ Backtest!Further(d, t.stop, level) = IF NotBefore(d, t.stop, level) THEN t.stop ELSE level
        /\ Backtest!Further(d, t.stop, t.entry) = IF NotBefore(d, t.stop, t.entry) THEN t.stop ELSE t.entry
    <3>. HIDE DEF d, level
    <3>. QED  BY <1>1, <1>3, FurtherIs
  <2>3. Backtest!Act(e) = IF armed THEN "trail_ladder"
                          ELSE IF NotBefore(d, high, t.targets[1]) THEN "lock_0r" ELSE "hold"
    BY <1>4, <1>10, <2>1 DEF Backtest!Act
  <2>. QED  BY <1>4, <2>2, <2>3 DEF Backtest!StopAfter
<1>12. NotBefore(d, t.entry, t.stop) \/ (Arms(d, t.entry, t.peak) /\ NotBefore(d, Level(d, t.entry, t.peak), t.stop))
  BY <1>4 DEF Behind
<1>13. hits => NotBefore(d, high, t.targets[1])
  BY <1>2, <1>1 DEF NotBefore
<1>14. /\ t.hit = 0 <=> Ahead(d, t.targets[1], t.peak)
       /\ t.hit > 0 /\ ~Arms(d, t.entry, t.peak) => t.stop = t.entry
  BY <1>4 DEF Climbed
<1>15. ~hits /\ t.hit = 0 => ~NotBefore(d, high, t.targets[1])
  BY <1>1, <1>2, <1>14 DEF NotBefore, Ahead
<1>. HIDE DEF d, best, high, level, armed, hits
<1>16. CASE armed
  <2>1. NotBefore(d, level, t.stop)
    BY <1>1, <1>3, <1>12 DEF NotBefore
  <2>2. Backtest!StopAfter(e, Backtest!Act(e)) = level
    BY <1>1, <1>3, <1>11, <1>16, <2>1 DEF NotBefore
  <2>3. AfterBar(t, b).stop = level
    BY <1>1, <1>3, <1>8, <1>9, <1>16, <2>1 DEF NotBefore, Ahead
  <2>4. NotBefore(d, level, level)
    BY <1>3 DEF NotBefore
  <2>. QED  BY <1>3, <1>16, <2>2, <2>3, <2>4 DEF d, level, armed, high
<1>17. CASE ~armed
  <2>1. ~Arms(d, t.entry, t.peak) /\ NotBefore(d, t.entry, t.stop)
    BY <1>3, <1>12, <1>17
  <2>2. AfterBar(t, b).stop = s
    BY <1>9, <1>17
  <2>3. NotBefore(d, t.stop, t.entry) => t.stop = t.entry
    BY <1>1, <2>1 DEF NotBefore
  <2>4. CASE hits
    BY <1>1, <1>11, <1>13, <1>17, <2>2, <2>3, <2>4 DEF NotBefore, d, level, armed, high, hits
  <2>5. CASE ~hits /\ t.hit = 0
    BY <1>1, <1>11, <1>15, <1>17, <2>1, <2>2, <2>5 DEF d, level, armed, high, hits
  <2>6. CASE ~hits /\ t.hit > 0
    <3>1. t.stop = t.entry
      BY <1>14, <2>1, <2>6
    <3>. QED  BY <1>1, <1>11, <1>17, <2>1, <2>2, <2>6, <3>1 DEF d, level, armed, high, hits
  <2>. QED  BY <1>1, <2>4, <2>5, <2>6
<1>. QED  BY <1>16, <1>17

LEMMA TradeWith ==
  ASSUME NEW t, IsTrade(t), NEW k \in Nat, NEW high \in Int, NEW bars \in Nat, NEW v, v.stop \in Int,
         v \in [dir : {t.dir}, day : {t.day}, at : {t.at}, entry : {t.entry}, stop : {v.stop}, initial : {t.initial},
                targets : {t.targets}, qty : {t.qty}, hit : {k}, peak : {high}, held : {bars}]
  PROVE  IsTrade(v)
<1>1. t.dir \in {1, -1} /\ t.entry \in Int /\ t.initial \in Int
  BY DEF IsTrade
<1>2. v.dir = t.dir /\ v.targets = t.targets
  OBVIOUS
<1>3. v \in [dir : {1, -1}, day : {v.day}, at : {v.at}, entry : Int, stop : Int, initial : Int,
             targets : {v.targets}, qty : {v.qty}, hit : Nat, peak : Int, held : Nat]
  BY <1>1
<1>. QED  BY <1>2, <1>3 DEF IsTrade

LEMMA AfterIs ==
  ASSUME NEW t, IsTrade(t), NEW b, IsBar(b), Behind(t), Climbed(t)
  PROVE  LET u == AfterBar(t, b)
         IN  /\ u.held = t.held + 1 /\ u.peak = Seen(t, b).peak /\ Same(t, u)
             /\ u.hit = (IF Backtest!TargetHit(t, b) THEN t.hit + 1 ELSE t.hit)
             /\ u.stop \in Int => IsTrade(u)
             /\ Same(t, Seen(t, b)) /\ Same(t, Rung(t, b))
             /\ Rung(t, b).hit = t.hit + 1
<1>1. t.hit \in Nat /\ t.held \in Nat
  BY DEF IsTrade
<1>2. PICK high \in Int : high = Seen(t, b).peak
  BY OnABar
<1>3. Seen(t, b) = [t EXCEPT !.held = t.held + 1, !.peak = high]
  BY <1>2, OnABar
<1>4. Seen(t, b) \in [dir : {t.dir}, day : {t.day}, at : {t.at}, entry : {t.entry}, stop : {t.stop}, initial : {t.initial},
                      targets : {t.targets}, qty : {t.qty}, hit : {t.hit}, peak : {high}, held : {t.held + 1}]
  BY <1>3 DEF IsTrade
<1>5. Rung(t, b) \in [dir : {t.dir}, day : {t.day}, at : {t.at}, entry : {t.entry}, stop : {t.entry}, initial : {t.initial},
                      targets : {t.targets}, qty : {t.qty}, hit : {t.hit + 1}, peak : {high}, held : {t.held + 1}]
  BY <1>4 DEF Rung
<1>6. PICK hits \in BOOLEAN : hits = Backtest!TargetHit(t, b)
  BY DEF Backtest!TargetHit
<1>7. PICK u : u = (IF hits THEN Rung(t, b) ELSE Seen(t, b))
  OBVIOUS
<1>8. PICK k \in Nat : k = IF hits THEN t.hit + 1 ELSE t.hit
  BY <1>1
<1>9. PICK bars \in Nat : bars = t.held + 1
  BY <1>1
<1>10. u \in [dir : {t.dir}, day : {t.day}, at : {t.at}, entry : {t.entry}, stop : {u.stop}, initial : {t.initial},
              targets : {t.targets}, qty : {t.qty}, hit : {k}, peak : {high}, held : {bars}]
  BY <1>4, <1>5, <1>7, <1>8, <1>9
<1>11. PICK v : v = AfterBar(t, b)
  OBVIOUS
<1>12. v = u \/ v = [u EXCEPT !.stop = Backtest!TrailLevel(u)]
  BY <1>6, <1>7, <1>11 DEF AfterBar, Backtest!Trailed
<1>13. v \in [dir : {t.dir}, day : {t.day}, at : {t.at}, entry : {t.entry}, stop : {v.stop}, initial : {t.initial},
              targets : {t.targets}, qty : {t.qty}, hit : {k}, peak : {high}, held : {bars}]
  BY <1>10, <1>12
<1>14. v.stop \in Int => IsTrade(v)
  BY <1>13, TradeWith
<1>15. v.held = bars /\ v.peak = high /\ Same(t, v) /\ v.hit = k
  BY <1>13 DEF Same
<1>16. Same(t, Seen(t, b)) /\ Same(t, Rung(t, b)) /\ Rung(t, b).hit = t.hit + 1
  BY <1>4, <1>5 DEF Same
<1>. QED  BY <1>2, <1>6, <1>8, <1>9, <1>11, <1>14, <1>15, <1>16

\* The reading of a bar by each of the two, on the same numbers.
LEMMA ManagedIs ==
  ASSUME NEW t, IsTrade(t), NEW b, IsBar(b), Behind(t), Climbed(t), NEW m, m = Backtest!Managed(t, b)
  PROVE  m = IF NotBefore(t.dir, t.stop, Backtest!Worst(t.dir, b))
               THEN [trade |-> Seen(t, b), reason |-> "SL_EQ", exit |-> t.stop - t.dir * Slip]
             ELSE IF Backtest!TargetHit(t, b) /\ t.hit + 1 = Len(t.targets)
               THEN [trade |-> Rung(t, b), reason |-> "TARGET", exit |-> t.targets[t.hit + 1]]
             ELSE IF Backtest!ContainsFlat(n) THEN [trade |-> AfterBar(t, b), reason |-> "EOD", exit |-> b.close]
             ELSE IF t.held + 1 >= TimeStop THEN [trade |-> AfterBar(t, b), reason |-> "TIME_STOP", exit |-> b.close]
             ELSE [trade |-> AfterBar(t, b), reason |-> "open", exit |-> 0]
<1>1. t.dir \in {1, -1} /\ t.stop \in Int
  BY DEF IsTrade
<1>2. PICK worst \in Int : worst = Backtest!Worst(t.dir, b)
  BY <1>1 DEF Backtest!Worst, IsBar
<1>3. t.dir * (worst - t.stop) <= 0 <=> NotBefore(t.dir, t.stop, worst)
  BY <1>1, SignIs
<1>4. Backtest!StopHit(t, b) <=> NotBefore(t.dir, t.stop, worst)
  BY <1>2, <1>3 DEF Backtest!StopHit
<1>5. PICK seen : seen = Seen(t, b)
  OBVIOUS
<1>6. PICK rung : rung = Rung(t, b)
  OBVIOUS
<1>7. PICK after : after = AfterBar(t, b)
  OBVIOUS
<1>8. rung.hit = t.hit + 1 /\ after.held = t.held + 1
  BY <1>6, <1>7, AfterIs
<1>9. m = IF Backtest!StopHit(t, b) THEN [trade |-> seen, reason |-> "SL_EQ", exit |-> t.stop - t.dir * Slip]
          ELSE IF Backtest!TargetHit(t, b) /\ rung.hit = Len(t.targets)
            THEN [trade |-> rung, reason |-> "TARGET", exit |-> t.targets[rung.hit]]
          ELSE IF Backtest!ContainsFlat(n) THEN [trade |-> after, reason |-> "EOD", exit |-> b.close]
          ELSE IF after.held >= TimeStop THEN [trade |-> after, reason |-> "TIME_STOP", exit |-> b.close]
          ELSE [trade |-> after, reason |-> "open", exit |-> 0]
  BY <1>5, <1>6, <1>7 DEF Backtest!Managed, Backtest!FlatInside, AfterBar, Rung, Seen
<1>. QED  BY <1>2, <1>4, <1>5, <1>6, <1>7, <1>8, <1>9

\* What the bar makes of the episode when it does not end there.
Lived(t, b, e) ==
  IF Backtest!TargetHit(t, b) THEN [e EXCEPT !.peak = Seen(t, b).peak, !.hit = t.hit + 1]
  ELSE [e EXCEPT !.peak = Seen(t, b).peak]

LEMMA CheckedIs ==
  ASSUME NEW t, IsTrade(t), NEW b, IsBar(b), Behind(t), Climbed(t),
         NEW e, Alike(t, e), e.stop = t.stop, e.held = t.held + 1, NEW first \in BOOLEAN,
         NEW x, x = Backtest!Checked(e, b, n, first),
         NEW rung, rung = Lived(t, b, e)
  PROVE  x = IF ~first /\ NotBefore(t.dir, t.stop, b.open) THEN Backtest!Ended(e, "stop_gap", b.open - t.dir * Slip)
             ELSE IF NotBefore(t.dir, t.stop, Backtest!Worst(t.dir, b)) THEN Backtest!Ended(e, "stop", t.stop - t.dir * Slip)
             ELSE IF Backtest!TargetHit(t, b) /\ t.hit + 1 = Len(t.targets)
               THEN Backtest!Ended(rung, "target", t.targets[t.hit + 1])
             ELSE IF Backtest!ContainsFlat(n) THEN Backtest!Ended(rung, "force_flat", b.close - t.dir * Slip)
             ELSE IF t.held + 1 >= TimeStop THEN Backtest!Ended(rung, "time_stop", b.close - t.dir * Slip)
             ELSE rung
<1>1. /\ t.dir \in {1, -1} /\ t.stop \in Int /\ t.hit \in Nat /\ t.hit < Len(t.targets) /\ b.open \in Int
      /\ e.entry = t.entry /\ e.dir = t.dir /\ e.targets = t.targets /\ e.peak = t.peak /\ e.hit = t.hit
  BY DEF IsTrade, Climbed, Alike, IsBar
<1>2. PICK worst \in Int : worst = Backtest!Worst(t.dir, b)
  BY <1>1 DEF Backtest!Worst, IsBar
<1>3. PICK best \in Int : best = Backtest!Best(t.dir, b)
  BY OnABar
<1>4. PICK level \in Int : level = t.targets[t.hit + 1]
  BY OnABar
<1>5. Backtest!TargetHit(t, b) <=> NotBefore(t.dir, best, level)
  BY <1>3, <1>4, OnABar
<1>6. /\ t.dir * (b.open - t.stop) <= 0 <=> NotBefore(t.dir, t.stop, b.open)
      /\ t.dir * (worst - t.stop) <= 0 <=> NotBefore(t.dir, t.stop, worst)
      /\ t.dir * (best - level) >= 0 <=> NotBefore(t.dir, best, level)
  BY <1>1, SignIs
<1>7. PICK high : high = Seen(t, b).peak
  OBVIOUS
<1>8. high = Backtest!Further(t.dir, t.peak, best)
  BY <1>3, <1>7 DEF Seen, IsTrade
<1>9. PICK seen : seen = [e EXCEPT !.peak = Backtest!Further(e.dir, @, Backtest!Best(e.dir, b))]
  OBVIOUS
<1>10. seen = [e EXCEPT !.peak = high] /\ seen.hit = t.hit
  BY <1>1, <1>3, <1>8, <1>9 DEF Alike, IsEpisode
<1>11. PICK hits \in BOOLEAN : hits <=> seen.hit < Len(e.targets) /\ e.dir * (Backtest!Best(e.dir, b) - e.targets[seen.hit + 1]) >= 0
  OBVIOUS
<1>12. hits <=> Backtest!TargetHit(t, b)
  BY <1>1, <1>3, <1>4, <1>5, <1>6, <1>10, <1>11
<1>13. rung = IF hits THEN [seen EXCEPT !.hit = @ + 1] ELSE seen
  BY <1>1, <1>7, <1>10, <1>12 DEF Alike, IsEpisode, Lived
<1>14. hits => rung.hit = t.hit + 1
  BY <1>10, <1>13 DEF Alike, IsEpisode
<1>15. x = IF ~first /\ e.dir * (b.open - e.stop) <= 0 THEN Backtest!Ended(e, "stop_gap", b.open - e.dir * Slip)
           ELSE IF e.dir * (Backtest!Worst(e.dir, b) - e.stop) <= 0 THEN Backtest!Ended(e, "stop", e.stop - e.dir * Slip)
           ELSE IF hits /\ rung.hit = Len(e.targets) THEN Backtest!Ended(rung, "target", e.targets[rung.hit])
           ELSE IF Backtest!ContainsFlat(n) THEN Backtest!Ended(rung, "force_flat", b.close - e.dir * Slip)
           ELSE IF e.held >= TimeStop THEN Backtest!Ended(rung, "time_stop", b.close - e.dir * Slip)
           ELSE rung
  <2>1. CASE hits
    <3>1. rung = [seen EXCEPT !.hit = @ + 1]
      BY <1>13, <2>1
    <3>. QED  BY <1>9, <1>11, <2>1, <3>1, SMTT(30) DEF Backtest!Checked
  <2>2. CASE ~hits
    <3>1. rung = seen
      BY <1>13, <2>2
    <3>. QED  BY <1>9, <1>11, <2>2, <3>1 DEF Backtest!Checked
  <2>. QED  BY <2>1, <2>2
<1>. QED  BY <1>1, <1>2, <1>6, <1>12, <1>14, <1>15

\* One bar lived by both, from the same stop: they end it alike, or end on it alike.
LEMMA OneBar ==
  ASSUME NEW t, IsTrade(t), NEW b, IsBar(b), Behind(t), Climbed(t),
         NEW e, Alike(t, e), e.stop = t.stop, e.held = t.held + 1, NEW first \in BOOLEAN,
         NEW m, m = Backtest!Managed(t, b), NEW x, x = Backtest!Checked(e, b, n, first)
  PROVE  /\ Same(t, m.trade)
         /\ m.reason = "open" => IsTrade(m.trade) /\ Twins(m.trade, x)
         /\ m.reason # "open" =>
              /\ Backtest!SameReason(m.reason, x.done)
              /\ x.done \in {"stop", "target"} => x.price = m.exit
              /\ x.done # "no" => t.dir * (x.price - m.exit) <= 0
<1>1. /\ t.dir \in {1, -1} /\ t.entry \in Int /\ t.peak \in Int /\ t.stop \in Int /\ t.hit \in Nat /\ t.held \in Nat
      /\ t.hit < Len(t.targets) /\ Slip \in Nat /\ b.open \in Int /\ b.close \in Int
  BY ReplayNumbers DEF IsTrade, Climbed, IsBar
<1>2. PICK d \in {1, -1} : d = t.dir
  BY <1>1
<1>3. PICK worst \in Int : worst = Backtest!Worst(d, b) /\ NotBefore(d, b.open, worst)
  BY <1>2 DEF Backtest!Worst, IsBar, NotBefore
<1>4. PICK high \in Int : high = Seen(t, b).peak
  BY OnABar
<1>5. PICK hits \in BOOLEAN : hits = Backtest!TargetHit(t, b)
  BY DEF Backtest!TargetHit
<1>6. PICK rung : rung = IF hits THEN [e EXCEPT !.peak = high, !.hit = t.hit + 1] ELSE [e EXCEPT !.peak = high]
  OBVIOUS
<1>7. PICK u : u = AfterBar(t, b)
  OBVIOUS
<1>8. PICK flat \in BOOLEAN : flat = Backtest!ContainsFlat(n)
  BY DEF Backtest!ContainsFlat
<1>9. PICK slip \in Int : slip = d * Slip /\ d * (-slip) <= 0 /\ d * 0 = 0
  BY <1>1
<1>10. PICK level \in Int : level = t.targets[t.hit + 1]
  BY OnABar
<1>11. PICK ends \in BOOLEAN : ends = (hits /\ t.hit + 1 = Len(t.targets))
  OBVIOUS
<1>12. PICK stops \in BOOLEAN : stops <=> NotBefore(d, t.stop, worst)
  OBVIOUS
<1>13. PICK gaps \in BOOLEAN : gaps <=> ~first /\ NotBefore(d, t.stop, b.open)
  OBVIOUS
<1>14. m = IF stops THEN [trade |-> Seen(t, b), reason |-> "SL_EQ", exit |-> t.stop - slip]
           ELSE IF ends THEN [trade |-> Rung(t, b), reason |-> "TARGET", exit |-> level]
           ELSE IF flat THEN [trade |-> u, reason |-> "EOD", exit |-> b.close]
           ELSE IF t.held + 1 >= TimeStop THEN [trade |-> u, reason |-> "TIME_STOP", exit |-> b.close]
           ELSE [trade |-> u, reason |-> "open", exit |-> 0]
  BY <1>2, <1>3, <1>5, <1>7, <1>8, <1>9, <1>10, <1>11, <1>12, ManagedIs
<1>15. x = IF gaps THEN Backtest!Ended(e, "stop_gap", b.open - slip)
           ELSE IF stops THEN Backtest!Ended(e, "stop", t.stop - slip)
           ELSE IF ends THEN Backtest!Ended(rung, "target", level)
           ELSE IF flat THEN Backtest!Ended(rung, "force_flat", b.close - slip)
           ELSE IF t.held + 1 >= TimeStop THEN Backtest!Ended(rung, "time_stop", b.close - slip)
           ELSE rung
  <2>1. rung = Lived(t, b, e)
    BY <1>4, <1>5, <1>6 DEF Lived
  <2>2. x = IF ~first /\ NotBefore(t.dir, t.stop, b.open) THEN Backtest!Ended(e, "stop_gap", b.open - t.dir * Slip)
            ELSE IF NotBefore(t.dir, t.stop, Backtest!Worst(t.dir, b)) THEN Backtest!Ended(e, "stop", t.stop - t.dir * Slip)
            ELSE IF Backtest!TargetHit(t, b) /\ t.hit + 1 = Len(t.targets)
              THEN Backtest!Ended(rung, "target", t.targets[t.hit + 1])
            ELSE IF Backtest!ContainsFlat(n) THEN Backtest!Ended(rung, "force_flat", b.close - t.dir * Slip)
            ELSE IF t.held + 1 >= TimeStop THEN Backtest!Ended(rung, "time_stop", b.close - t.dir * Slip)
            ELSE rung
    BY <2>1, CheckedIs
  <2>. QED  BY <1>2, <1>3, <1>5, <1>8, <1>9, <1>10, <1>11, <1>12, <1>13, <2>2
<1>16. IsEpisode(e) /\ IsEpisode(rung) /\ rung.stop = t.stop /\ rung.entry = t.entry /\ rung.dir = d
       /\ rung.targets = t.targets /\ rung.peak = high /\ rung.held = t.held + 1 /\ rung.done = "no"
       /\ rung.hit = IF hits THEN t.hit + 1 ELSE t.hit
  <2>1. /\ IsEpisode(e) /\ e.entry = t.entry /\ e.dir = t.dir /\ e.targets = t.targets
        /\ e.hit = t.hit /\ e.done = "no"
    BY DEF Alike
  <2>. QED  BY <1>2, <1>6, <2>1 DEF IsEpisode
<1>17. ASSUME NEW why, NEW price
       PROVE  /\ Backtest!Ended(e, why, price).done = why /\ Backtest!Ended(e, why, price).price = price
              /\ Backtest!Ended(rung, why, price).done = why /\ Backtest!Ended(rung, why, price).price = price
  BY <1>16 DEF Backtest!Ended, IsEpisode
<1>18. Same(t, u) /\ Same(t, Seen(t, b)) /\ Same(t, Rung(t, b))
  BY <1>7, AfterIs
<1>19. Same(t, m.trade)
  BY <1>14, <1>18
<1>20. gaps => stops
  BY <1>1, <1>2, <1>3, <1>12, <1>13 DEF NotBefore
<1>21. CASE stops
  <2>1. m.reason = "SL_EQ" /\ m.exit = t.stop - slip
    BY <1>14, <1>21
  <2>2. CASE gaps
    <3>1. x.done = "stop_gap" /\ x.price = b.open - slip
      BY <1>15, <1>17, <2>2
    <3>2. x.price - m.exit = b.open - t.stop
      BY <1>1, <1>9, <2>1, <3>1
    <3>3. d * (b.open - t.stop) <= 0
      BY <1>1, <1>2, <1>13, <2>2, SignIs
    <3>. QED  BY <1>2, <1>19, <2>1, <3>1, <3>2, <3>3 DEF Backtest!SameReason
  <2>3. CASE ~gaps
    <3>1. x.done = "stop" /\ x.price = m.exit
      BY <1>15, <1>17, <1>21, <2>1, <2>3
    <3>2. x.price - m.exit = 0
      BY <1>1, <1>9, <2>1, <3>1
    <3>. QED  BY <1>2, <1>9, <1>19, <2>1, <3>1, <3>2 DEF Backtest!SameReason
  <2>. QED  BY <2>2, <2>3
<1>22. CASE ~stops /\ ends
  <2>1. m.reason = "TARGET" /\ m.exit = level /\ x.done = "target" /\ x.price = level
    BY <1>14, <1>15, <1>17, <1>20, <1>22
  <2>2. x.price - m.exit = 0
    BY <1>10, <2>1
  <2>. QED  BY <1>2, <1>9, <1>19, <2>1, <2>2 DEF Backtest!SameReason
<1>23. CASE ~stops /\ ~ends /\ (flat \/ t.held + 1 >= TimeStop)
  <2>1. m.exit = b.close /\ x.price = b.close - slip
    BY <1>14, <1>15, <1>17, <1>20, <1>23
  <2>2. \/ m.reason = "EOD" /\ x.done = "force_flat"
        \/ m.reason = "TIME_STOP" /\ x.done = "time_stop"
    BY <1>14, <1>15, <1>17, <1>20, <1>23
  <2>3. x.price - m.exit = -slip
    BY <1>1, <1>9, <2>1
  <2>. QED  BY <1>2, <1>9, <1>19, <2>1, <2>2, <2>3 DEF Backtest!SameReason
<1>24. CASE ~stops /\ ~ends /\ ~flat /\ ~(t.held + 1 >= TimeStop)
  <2>1. m.reason = "open" /\ m.trade = u /\ x = rung
    BY <1>14, <1>15, <1>20, <1>24
  <2>2. /\ u.stop \in Int /\ Backtest!StopAfter(rung, Backtest!Act(rung)) = u.stop
        /\ \/ NotBefore(d, t.entry, u.stop)
           \/ Arms(d, t.entry, high) /\ NotBefore(d, Level(d, t.entry, high), u.stop)
        /\ ~Arms(d, t.entry, high) /\ (t.hit > 0 \/ hits) => u.stop = t.entry
    BY <1>2, <1>4, <1>5, <1>7, <1>16, StopsMeet
  <2>3. /\ IsTrade(u) /\ u.peak = high /\ u.held = t.held + 1 /\ u.hit = IF hits THEN t.hit + 1 ELSE t.hit
        /\ u.dir = d /\ u.entry = t.entry /\ u.targets = t.targets
    BY <1>2, <1>4, <1>5, <1>7, <1>18, <2>2, AfterIs DEF Same
  <2>4. (Backtest!Armed(u) <=> Arms(d, t.entry, high)) /\ Backtest!TrailLevel(u) = Level(d, t.entry, high)
    BY <2>3, LevelsAre
  <2>5. Behind(u)
    <3>1. NotBefore(d, high, t.entry)
      BY <1>2, <1>4, OnABar
    <3>. QED  BY <2>2, <2>3, <2>4, <3>1 DEF Behind
  <2>6. Climbed(u)
    <3>1. u.hit < Len(u.targets)
      <4>1. Len(t.targets) \in {1, 2}
        BY TargetsAre
      <4>. QED  BY <1>1, <1>11, <1>24, <2>3, <4>1
    <3>2. u.hit > 0 <=> t.hit > 0 \/ hits
      BY <1>1, <2>3
    <3>0. PICK best \in Int : best = Backtest!Best(d, b)
      BY <1>2, OnABar
    <3>3. /\ hits <=> NotBefore(d, best, level)
          /\ high \in {t.peak, best} /\ NotBefore(d, high, best) /\ NotBefore(d, high, t.peak)
      BY <1>2, <1>4, <1>5, <1>10, <3>0, OnABar
    <3>4. PICK target \in Int : target = t.targets[1] /\ NotBefore(d, level, target)
      BY <1>2, <1>10, OnABar
    <3>5. t.hit = 0 <=> Ahead(d, target, t.peak)
      BY <1>2, <3>4 DEF Climbed
    <3>6. t.hit = 0 => level = target
      BY <1>10, <3>4
    <3>7. u.hit = 0 <=> Ahead(d, target, high)
      <4>1. PICK peak \in Int : peak = t.peak
        BY <1>1
      <4>2. high \in {peak, best} /\ NotBefore(d, high, best) /\ NotBefore(d, high, peak)
        BY <3>3, <4>1
      <4>3. CASE hits
        <5>1. u.hit # 0
          BY <1>1, <2>3, <4>3
        <5>2. ~Ahead(d, target, high)
          BY <3>3, <3>4, <4>2, <4>3 DEF NotBefore, Ahead
        <5>. QED  BY <5>1, <5>2
      <4>4. CASE ~hits /\ t.hit > 0
        <5>1. u.hit # 0
          BY <1>1, <2>3, <4>4
        <5>2. ~Ahead(d, target, peak)
          BY <1>1, <3>5, <4>1, <4>4
        <5>3. ~Ahead(d, target, high)
          BY <4>2, <5>2 DEF NotBefore, Ahead
        <5>. QED  BY <5>1, <5>3
      <4>5. CASE ~hits /\ t.hit = 0
        <5>1. Ahead(d, target, peak) /\ u.hit = 0
          BY <2>3, <3>5, <4>1, <4>5
        <5>2. ~NotBefore(d, best, target)
          BY <3>3, <3>6, <4>5
        <5>3. Ahead(d, target, high)
          BY <4>2, <5>1, <5>2 DEF NotBefore, Ahead
        <5>. QED  BY <5>1, <5>3
      <4>. QED  BY <1>1, <4>3, <4>4, <4>5
    <3>. QED  BY <2>2, <2>3, <2>4, <3>1, <3>2, <3>4, <3>7 DEF Climbed
  <2>7. Alike(u, rung)
    BY <1>1, <1>16, <2>3 DEF Alike
  <2>. QED  BY <1>16, <1>19, <2>1, <2>2, <2>3, <2>5, <2>6, <2>7 DEF Twins
<1>. QED  BY <1>21, <1>22, <1>23, <1>24

(* The bar a trade is filled on.                                                  *)

LEMMA FirstFill ==
  ASSUME NEW p, IsPlan(p), NEW b, IsBar(b), NEW t, t = Backtest!Opened(p, b), t # None
  PROVE  Shape(t) /\ IsTrade(t) /\ t.stop = t.initial /\ t.peak = t.entry /\ t.hit = 0 /\ t.held = 0
<1>1. p.dir \in {1, -1} /\ p.stop \in Int /\ b.open \in Int /\ Slip \in Nat
  BY ReplayNumbers DEF IsPlan, IsBar
<1>2. PICK fill \in Int : fill = Backtest!Fill(p, b)
  BY <1>1 DEF Backtest!Fill
<1>3. t = [dir |-> p.dir, day |-> Backtest!Day(n), at |-> n, entry |-> fill, stop |-> p.stop, initial |-> p.stop,
           targets |-> p.targets, qty |-> Backtest!Qty(fill), hit |-> 0, peak |-> fill, held |-> 0]
  BY <1>2 DEF Backtest!Opened
<1>4. PICK day : day = Backtest!Day(n)
  OBVIOUS
<1>5. PICK qty : qty = Backtest!Qty(fill)
  OBVIOUS
<1>6. t = [dir |-> p.dir, day |-> day, at |-> n, entry |-> fill, stop |-> p.stop, initial |-> p.stop,
           targets |-> p.targets, qty |-> qty, hit |-> 0, peak |-> fill, held |-> 0]
  BY <1>3, <1>4, <1>5
<1>7. Shape(t)
  BY <1>6 DEF Shape
<1>8. IsTrade(t)
  BY <1>1, <1>6 DEF IsTrade, IsPlan
<1>. QED  BY <1>6, <1>7, <1>8

LEMMA FirstEpisode ==
  ASSUME NEW t, IsTrade(t), t.stop = t.initial, t.peak = t.entry, t.hit = 0, t.held = 0, Backtest!Clean(t),
         NEW e, e = Backtest!NewEpisode(t)
  PROVE  Behind(t) /\ Climbed(t) /\ Alike(t, e) /\ e.stop = t.stop /\ e.held = t.held + 1
<1>1. /\ t.dir \in {1, -1} /\ t.entry \in Int /\ t.initial \in Int /\ t.targets \in Seq(Int)
      /\ t.targets[1] \in Int /\ Len(t.targets) \in {1, 2}
      /\ \A i \in DOMAIN t.targets : t.targets[i] \in Int /\ NotBefore(t.dir, t.targets[i], t.targets[1])
  <2>1. Len(t.targets) \in {1, 2} /\ t.targets \in Seq(Int) /\ t.dir \in {1, -1} /\ t.entry \in Int /\ t.initial \in Int
    BY DEF IsTrade
  <2>2. 1 \in 1..Len(t.targets)
    <3>1. CASE Len(t.targets) = 1
      BY <3>1
    <3>2. CASE Len(t.targets) = 2
      BY <3>2
    <3>. QED  BY <2>1, <3>1, <3>2
  <2>. QED  BY <2>1, <2>2, TargetsAre
<1>2. Ahead(t.dir, t.entry, t.initial) /\ Ahead(t.dir, t.targets[1], t.entry)
  BY <1>1, SignIs DEF Backtest!Clean
<1>3. t.entry - t.dir * Backtest!Risk(t) = t.initial
  <2>1. CASE t.dir = 1
    BY <1>1, <1>2, <2>1 DEF Backtest!Risk, Ahead
  <2>2. CASE t.dir = -1
    <3>1. Backtest!Risk(t) = t.initial - t.entry
      BY <1>1, <1>2, <2>2 DEF Backtest!Risk, Ahead
    <3>2. t.dir * (t.initial - t.entry) = -(t.initial - t.entry)
      BY <1>1, <2>2
    <3>. QED  BY <1>1, <3>1, <3>2
  <2>. QED  BY <1>1, <2>1, <2>2
<1>4. {i \in DOMAIN t.targets : t.dir * (t.targets[i] - t.entry) <= 0} = {}
  <2>1. SUFFICES ASSUME NEW i \in DOMAIN t.targets, t.dir * (t.targets[i] - t.entry) <= 0
                 PROVE  FALSE
    OBVIOUS
  <2>2. PICK x \in Int : x = t.targets[i] /\ NotBefore(t.dir, x, t.targets[1])
    BY <1>1
  <2>3. NotBefore(t.dir, t.entry, x)
    BY <1>1, <2>1, <2>2, SignIs
  <2>. QED  BY <1>1, <1>2, <2>2, <2>3 DEF NotBefore, Ahead
<1>5. Backtest!EpisodeTargets(t) = t.targets
  <2>1. \A i \in DOMAIN t.targets : ~(t.dir * (t.targets[i] - t.entry) <= 0)
    BY <1>4
  <2>2. 1 \in DOMAIN t.targets /\ DOMAIN t.targets = 1..Len(t.targets) /\ Len(t.targets) \in Nat
    <3>1. CASE Len(t.targets) = 1
      BY <1>1, <3>1
    <3>2. CASE Len(t.targets) = 2
      BY <1>1, <3>2
    <3>. QED  BY <1>1, <3>1, <3>2
  <2>3. PICK passed : passed = CHOOSE k \in 0..Len(t.targets) :
                        \A i \in DOMAIN t.targets : t.dir * (t.targets[i] - t.entry) <= 0 <=> i <= k
    OBVIOUS
  <2>4. \E k \in 0..Len(t.targets) : \A i \in DOMAIN t.targets : t.dir * (t.targets[i] - t.entry) <= 0 <=> i <= k
    <3>1. 0 \in 0..Len(t.targets) /\ \A i \in DOMAIN t.targets : ~(i <= 0)
      BY <2>2
    <3>. QED  BY <2>1, <3>1
  <2>5. passed \in 0..Len(t.targets) /\ ~(1 <= passed)
    BY <2>1, <2>2, <2>3, <2>4
  <2>6. passed = 0
    BY <2>2, <2>5
  <2>7. Backtest!EpisodeTargets(t) = SubSeq(t.targets, passed + 1, Len(t.targets))
    BY <2>3 DEF Backtest!EpisodeTargets
  <2>. QED  BY <1>1, <2>6, <2>7
<1>6. e = [entry |-> t.entry, dir |-> t.dir, targets |-> t.targets, stop |-> t.initial, peak |-> t.entry, hit |-> 0,
           held |-> 1, done |-> "no", price |-> 0]
  BY <1>3, <1>5 DEF Backtest!NewEpisode
<1>7. Alike(t, e) /\ e.stop = t.stop /\ e.held = t.held + 1
  BY <1>1, <1>6 DEF Alike, IsEpisode
<1>8. Behind(t)
  BY <1>1, <1>2 DEF Behind, Ahead, NotBefore
<1>9. Climbed(t)
  BY <1>1, <1>2 DEF Climbed
<1>. QED  BY <1>7, <1>8, <1>9

\* The episode's step moves its stop first, to where the trade's is.
LEMMA NextBar ==
  ASSUME NEW t, IsTrade(t), NEW e, Twins(t, e), NEW b
  PROVE  \E v : \E first \in BOOLEAN :
           /\ Backtest!Stepped(e, b, n) = Backtest!Checked(v, b, n, first)
           /\ Alike(t, v) /\ v.stop = t.stop /\ v.held = t.held + 1
<1>. DEFINE v == [e EXCEPT !.stop = Backtest!StopAfter(e, Backtest!Act(e)), !.held = e.held + 1]
<1>1. e.done = "no" /\ IsEpisode(e) /\ e.held = t.held /\ Backtest!StopAfter(e, Backtest!Act(e)) = t.stop
  BY DEF Twins, Alike
<1>2. Backtest!Stepped(e, b, n) = Backtest!Checked(v, b, n, FALSE)
  BY <1>1 DEF Backtest!Stepped
<1>3. v = [e EXCEPT !.stop = t.stop, !.held = t.held + 1]
  BY <1>1
<1>4. t.stop \in Int
  BY DEF IsTrade
<1>5. Alike(t, v) /\ v.stop = t.stop /\ v.held = t.held + 1
  <2>. HIDE DEF v
  <2>. QED  BY <1>1, <1>3, <1>4 DEF Twins, Alike, IsEpisode
<1>. QED  BY <1>2, <1>5

LEMMA ShapeKept ==
  ASSUME NEW t, Shape(t), NEW b, NEW m, m = Backtest!Managed(t, b)
  PROVE  Shape(m.trade) /\ Same(t, m.trade)
<1>1. Shape(Seen(t, b)) /\ Same(t, Seen(t, b))
  BY DEF Shape, Same, Seen
<1>2. Shape(Rung(t, b)) /\ Same(t, Rung(t, b))
  BY <1>1 DEF Shape, Same, Rung
<1>3. Shape(AfterBar(t, b)) /\ Same(t, AfterBar(t, b))
  <2>1. PICK u : u = (IF Backtest!TargetHit(t, b) THEN Rung(t, b) ELSE Seen(t, b))
    OBVIOUS
  <2>2. Shape(u) /\ Same(t, u)
    BY <1>1, <1>2, <2>1
  <2>3. PICK level : level = Backtest!TrailLevel(u)
    OBVIOUS
  <2>4. AfterBar(t, b) = u \/ AfterBar(t, b) = [u EXCEPT !.stop = level]
    BY <2>1, <2>3 DEF AfterBar, Backtest!Trailed
  <2>. QED  BY <2>2, <2>4 DEF Shape, Same
<1>4. m.trade \in {Seen(t, b), Rung(t, b), AfterBar(t, b)}
  BY DEF Backtest!Managed, Seen, Rung, AfterBar
<1>. QED  BY <1>1, <1>2, <1>3, <1>4

LEMMA CleanIsKept == ASSUME NEW t, NEW u, Same(t, u) PROVE Backtest!Clean(u) <=> Backtest!Clean(t)
  BY DEF Same, Backtest!Clean

-----------------------------------------------------------------------------
LEMMA ReplayedInit == Backtest!Init => Replayed
  BY DEF Backtest!Init, Replayed

LEMMA BarReplayed ==
  ASSUME Replayed, NEW b \in Backtest!Bars, Backtest!Bar(b)
  PROVE  Replayed'
<1>1. IsBar(b)
  BY BarsAreBars
<1>2. CASE trade = None /\ ~Backtest!Fills(b)
  BY <1>2 DEF Backtest!Bar, Replayed
<1>3. CASE ~(trade = None /\ ~Backtest!Fills(b))
  <2>1. PICK t : t = IF Backtest!Fills(b) THEN Backtest!Opened(pending, b) ELSE trade.bt
    OBVIOUS
  <2>2. PICK x : x = IF Backtest!Fills(b) THEN Backtest!Checked(Backtest!NewEpisode(t), b, n, TRUE)
                     ELSE Backtest!Stepped(trade.rl, b, n)
    OBVIOUS
  <2>3. PICK m : m = Backtest!Managed(t, b)
    OBVIOUS
  <2>4. /\ pending' = None
        /\ trade' = IF m.reason # "open" THEN None ELSE [bt |-> m.trade, rl |-> x]
        /\ ended' = IF m.reason = "open" THEN None ELSE Backtest!Closed(m, x)
    BY <1>3, <2>1, <2>2, <2>3 DEF Backtest!Bar
  <2>5. Backtest!Fills(b) => t # None /\ IsPlan(pending)
    <3>1. Backtest!Fills(b) => pending # None
      BY DEF Backtest!Fills, Backtest!Opened
    <3>. QED  BY <2>1, <3>1 DEF Backtest!Fills, Replayed
  <2>6. Shape(t)
    BY <1>1, <1>3, <2>1, <2>5, FirstFill DEF Replayed
  <2>7. Shape(m.trade) /\ Same(t, m.trade)
    BY <2>3, <2>6, ShapeKept
  <2>8. ASSUME Backtest!Clean(t)
        PROVE  /\ m.reason = "open" => IsTrade(m.trade) /\ Twins(m.trade, x)
               /\ m.reason # "open" =>
                    /\ Backtest!SameReason(m.reason, x.done)
                    /\ x.done \in {"stop", "target"} => x.price = m.exit
                    /\ x.done # "no" => t.dir * (x.price - m.exit) <= 0
    <3>1. CASE Backtest!Fills(b)
      <4>1. PICK e : e = Backtest!NewEpisode(t)
        OBVIOUS
      <4>2. IsTrade(t) /\ t.stop = t.initial /\ t.peak = t.entry /\ t.hit = 0 /\ t.held = 0
        BY <1>1, <2>1, <2>5, <3>1, FirstFill
      <4>3. Behind(t) /\ Climbed(t) /\ Alike(t, e) /\ e.stop = t.stop /\ e.held = t.held + 1
        BY <2>8, <4>1, <4>2, FirstEpisode
      <4>4. PICK first \in BOOLEAN : x = Backtest!Checked(e, b, n, first)
        BY <2>2, <3>1, <4>1
      <4>. QED  BY <1>1, <2>3, <4>2, <4>3, <4>4, OneBar
    <3>2. CASE ~Backtest!Fills(b)
      <4>1. PICK e : e = trade.rl
        OBVIOUS
      <4>2. IsTrade(t) /\ Twins(t, e)
        BY <1>3, <2>1, <2>8, <3>2, <4>1 DEF Replayed
      <4>3. PICK v : \E first \in BOOLEAN : /\ Backtest!Stepped(e, b, n) = Backtest!Checked(v, b, n, first)
                                       /\ Alike(t, v) /\ v.stop = t.stop /\ v.held = t.held + 1
        BY <4>2, NextBar
      <4>4. PICK first \in BOOLEAN : x = Backtest!Checked(v, b, n, first)
        BY <2>2, <3>2, <4>1, <4>3
      <4>5. Behind(t) /\ Climbed(t)
        BY <4>2 DEF Twins
      <4>. QED  BY <1>1, <2>3, <4>2, <4>3, <4>4, <4>5, OneBar
    <3>. QED  BY <3>1, <3>2
  <2>9. (Backtest!Clean(m.trade) <=> Backtest!Clean(t)) /\ m.trade.dir = t.dir
    BY <2>7, CleanIsKept DEF Same
  <2>10. CASE m.reason = "open"
    <3>1. pending' = None /\ ended' = None /\ (trade' # None => trade'.bt = m.trade /\ trade'.rl = x)
      BY <2>4, <2>10
    <3>. QED  BY <2>7, <2>8, <2>9, <2>10, <3>1 DEF Replayed
  <2>11. CASE m.reason # "open"
    <3>1. /\ pending' = None /\ trade' = None /\ ended'.trade = m.trade /\ ended'.rl = x
          /\ ended'.reason = m.reason /\ ended'.exit = m.exit
      BY <2>4, <2>11 DEF Backtest!Closed
    <3>. QED  BY <2>8, <2>9, <2>11, <3>1 DEF Replayed
  <2>. QED  BY <2>10, <2>11
<1>. QED  BY <1>2, <1>3

LEMMA PlansAre == ASSUME NEW at, NEW p \in Backtest!Plans(at) PROVE IsPlan(p)
<1>1. p \in [dir : {1, -1}, stop : Levels, targets : {<<x>> : x \in Levels} \union (Levels \X Levels)]
  BY DEF Backtest!Plans, Backtest!Dirs
<1>2. p \in [dir : {1, -1}, stop : Int, targets : {p.targets}]
  BY <1>1, ReplayNumbers
<1>3. CASE p.targets \in {<<x>> : x \in Levels}
  <2>1. PICK x \in Levels : p.targets = <<x>>
    BY <1>3
  <2>. QED  BY <1>2, <2>1, ReplayNumbers DEF IsPlan
<1>4. CASE p.targets \in Levels \X Levels
  <2>1. PICK x \in Levels, y \in Levels : p.targets = <<x, y>>
    BY <1>4
  <2>2. p.targets \in Seq(Int) /\ Len(p.targets) = 2 /\ p.targets[1] = x /\ p.targets[2] = y
    BY <2>1, ReplayNumbers
  <2>3. p.dir * (y - x) > 0
    BY <2>2 DEF Backtest!Plans
  <2>4. Ahead(p.dir, y, x)
    BY <1>1, <2>3, ReplayNumbers, SignIs
  <2>. QED  BY <1>2, <2>2, <2>4 DEF IsPlan
<1>. QED  BY <1>1, <1>3, <1>4

LEMMA DecidesReplayed ==
  ASSUME Replayed, Backtest!Decides
  PROVE  Replayed'
<1>1. pending' # None => IsPlan(pending')
  BY PlansAre DEF Backtest!Decides
<1>2. CASE trade # None /\ n + 1 = MaxBars
  <2>1. /\ trade' = None /\ ended'.trade = trade.bt /\ ended'.rl = trade.rl /\ ended'.reason = "END"
    BY <1>2 DEF Backtest!Decides, Backtest!Closed
  <2>2. Backtest!Clean(trade.bt) => trade.rl.done = "no"
    BY <1>2 DEF Replayed, Twins, Alike
  <2>. QED  BY <1>1, <2>1, <2>2 DEF Replayed, Backtest!SameReason
<1>3. CASE ~(trade # None /\ n + 1 = MaxBars)
  <2>1. UNCHANGED <<trade, ended>>
    BY <1>3 DEF Backtest!Decides
  <2>. QED  BY <1>1, <2>1 DEF Replayed
<1>. QED  BY <1>2, <1>3

LEMMA ReplayedNext == Replayed /\ [Backtest!Next]_(Backtest!vars) => Replayed'
<1>1. Replayed /\ UNCHANGED Backtest!vars => Replayed'
  BY DEF Replayed, Backtest!vars
<1>. QED  BY <1>1, BarReplayed, DecidesReplayed DEF Backtest!Next

(* The exit environment under the ladder policy lives a clean fill exactly as the    *)
(* backtester does, for any prices, levels, slippage, arming and time stop and for    *)
(* any share given back up to the whole (rl/env.py against research/backtest.py).     *)
THEOREM LadderIsTheBacktesterHolds == Backtest!Spec => []LadderIsTheBacktester
<1>1. Replayed => LadderIsTheBacktester
  BY DEF Replayed, Twins, Alike, LadderIsTheBacktester, Backtest!LadderIsTheBacktester
<1>. QED  BY <1>1, ReplayedInit, ReplayedNext, PTL DEF Backtest!Spec

=============================================================================
