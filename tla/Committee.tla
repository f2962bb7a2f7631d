----------------------------- MODULE Committee -----------------------------
(* The review committee (committee/service.py, memory.py, experiments.py): reviews  *)
(* of signals and cohorts that spend language-model calls, hypotheses in the log,   *)
(* experiments that grade them out of sample, and the nightly loop. Every           *)
(* coroutine is a task that can be overtaken at its awaits.                         *)
EXTENDS Integers, FiniteSets, Sequences, SequencesExt

CONSTANTS
  Tasks,      \* bound: coroutines in flight at once
  Refs,       \* signals that can be reviewed
  Cap,        \* committee_max_runs_per_day
  Nightly,    \* committee_autopilot_experiments
  Keys,       \* changes_key: which parameters a hypothesis changes to what
  MaxHyps,    \* bound: hypotheses in the log
  MaxTroubles,\* bound: midnights, restarts and experiments that raise
  None

ASSUME CommitteeAssumptions ==
  /\ {Cap, Nightly, MaxHyps, MaxTroubles} \subseteq Nat
  /\ IsFiniteSet(Tasks) /\ Tasks # {}

VARIABLES
  task,     \* a coroutine: None or [kind, ref, step, todo, ran, h, divisor]
  running,  \* CommitteeService.running
  spent,    \* runs_today, and whether _day is still today
  hyps,     \* ReviewLog's hypotheses, in order: [key, status], the file and the memory
  troubles,
  asked     \* ghost, of today: [runs, lives, carried] - the committee's runs, the processes
            \* that made them, and what was under way at midnight

vars == <<task, running, spent, hyps, troubles, asked>>

Graded == {"confirmed", "refuted", "inconclusive"}
Numbers == DOMAIN hyps
InFlight == {t \in Tasks : task[t] # None}
Asking == {t \in InFlight : task[t].step = "asking"}
Waiting == {t \in InFlight : task[t].step \in {"admitted", "asking"}}
Work == [kind |-> "case", ref |-> None, step |-> "admitted", todo |-> <<>>, ran |-> 0,
         h |-> 0, divisor |-> 0]

-----------------------------------------------------------------------------
(* Reviews *)

\* CommitteeService._budget: a new day empties it; at the cap nothing is admitted.
Budget == IF spent.today THEN spent.runs ELSE 0

Admits ==
  /\ Budget < Cap
  /\ spent' = [runs |-> Budget, today |-> TRUE]

\* review_signal, by hand or by _auto_review of a closed trade, and review_backtest_trade, up to
\* their first await.
AskCase(t, ref) ==
  /\ task[t] = None /\ Admits
  /\ task' = [task EXCEPT ![t] = [Work EXCEPT !.ref = ref]]
  /\ UNCHANGED <<running, hyps, troubles, asked>>

\* autopilot_once, by the clock or by hand, up to its first await.
Nightfall(t) ==
  /\ task[t] = None /\ Admits
  /\ task' = [task EXCEPT ![t] = [Work EXCEPT !.kind = "pilot", !.ref = "cohort"]]
  /\ UNCHANGED <<running, hyps, troubles, asked>>

\* The subject is locked and the committee asked.
Asks(t, work) ==
  /\ work.ref \notin running
  /\ running' = running \union {work.ref}
  /\ task' = [task EXCEPT ![t] = [work EXCEPT !.step = "asking"]]

\* review_cohort, up to its first await.
AskCohort(t) ==
  /\ task[t] = None /\ Admits
  /\ Asks(t, [Work EXCEPT !.kind = "cohort", !.ref = "cohort"])
  /\ UNCHANGED <<hyps, troubles, asked>>

\* The signal's row is there (_review_case), or the autopilot's source is known and
\* review_cohort asks the budget once more.
Claim(t) ==
  /\ task[t] # None /\ task[t].step = "admitted"
  /\ Asks(t, task[t])
  /\ IF task[t].kind = "pilot" THEN Admits ELSE UNCHANGED spent
  /\ UNCHANGED <<hyps, troubles, asked>>

\* Somebody reviews it already, or the budget is gone: an error to who asked.
TurnedAway(t) ==
  /\ task[t] # None /\ task[t].step = "admitted"
  /\ task[t].ref \in running \/ (task[t].kind = "pilot" /\ Budget >= Cap)
  /\ task' = [task EXCEPT ![t] = None]
  /\ spent' = IF task[t].kind = "pilot" THEN [runs |-> Budget, today |-> TRUE] ELSE spent
  /\ UNCHANGED <<running, hyps, troubles, asked>>

\* Mutant: a run that failed is not counted.
CountedIfReported(reported) == IF reported THEN spent.runs + 1 ELSE spent.runs

\* runs_today counts a run whether or not it ended in a report.
Counted(reported) == spent.runs + 1

\* run_case_committee: a verdict with at most one hypothesis, or the error that ended it.
CaseRun(keys, reported) == Len(keys) <= (IF reported THEN 1 ELSE 0)

\* run_cohort_committee: a report with at most three hypotheses (bound: two), or an error.
CohortRun(keys, reported) == Len(keys) <= (IF reported THEN 2 ELSE 0)

\* ReviewLog.append: every hypothesis of the entry is pending.
Logged(keys) == hyps \o [i \in DOMAIN keys |-> [key |-> keys[i], status |-> "pending"]]

\* What both reviews do with the committee's answer: counted, logged and the subject unlocked.
Recorded(t, keys, reported) ==
  /\ task[t] # None /\ task[t].step = "asking"
  /\ Len(hyps) + Len(keys) <= MaxHyps
  /\ hyps' = Logged(keys)
  /\ running' = running \ {task[t].ref}
  /\ spent' = [spent EXCEPT !.runs = Counted(reported)]
  /\ asked' = [asked EXCEPT !.runs = @ + 1]
  /\ UNCHANGED <<troubles>>

\* _review_case's end.
CaseAnswered(t, keys, reported) ==
  /\ Recorded(t, keys, reported)
  /\ task[t].kind = "case" /\ CaseRun(keys, reported)
  /\ task' = [task EXCEPT ![t] = None]

\* review_cohort's end; an autopilot goes on with the hypotheses of its report.
CohortAnswered(t, keys, reported) ==
  /\ Recorded(t, keys, reported)
  /\ task[t].kind # "case" /\ CohortRun(keys, reported)
  /\ task' = [task EXCEPT ![t] =
       IF task[t].kind = "pilot" /\ reported
       THEN [@ EXCEPT !.step = "choosing", !.todo = [i \in DOMAIN keys |-> Len(hyps) + i]]
       ELSE None]

\* The pack cannot be built: no run, and the subject is free again.
Raised(t) ==
  /\ task[t] # None /\ task[t].step \in {"admitted", "asking"}
  /\ troubles < MaxTroubles
  /\ troubles' = troubles + 1
  /\ task' = [task EXCEPT ![t] = None]
  /\ running' = IF task[t].step = "asking" THEN running \ {task[t].ref} ELSE running
  /\ UNCHANGED <<spent, hyps, asked>>

\* CommitteeService.propose: a person's hypothesis, without a review.
Propose(key) ==
  /\ Len(hyps) < MaxHyps
  /\ hyps' = Logged(<<key>>)
  /\ UNCHANGED <<task, running, spent, troubles, asked>>

-----------------------------------------------------------------------------
(* Experiments *)

\* CommitteeService.n_tested: the divisor of an experiment that starts now.
Tested(log) == 1 + Cardinality({h \in DOMAIN log : log[h].status \in Graded})

\* CommitteeService.vetoed.
Vetoed(key) == \E h \in Numbers : hyps[h].key = key /\ hyps[h].status \in Graded

Starts(t, h, work) ==
  LET log == [hyps EXCEPT ![h].status = "running"]
  IN  /\ hyps' = log
      /\ task' = [task EXCEPT ![t] = [work EXCEPT !.step = "testing", !.h = h, !.divisor = Tested(log)]]

\* start_experiment: any hypothesis that is not under test, whatever was found before.
StartExperiment(t, h) ==
  /\ task[t] = None
  /\ h \in Numbers /\ hyps[h].status # "running"
  /\ Starts(t, h, [Work EXCEPT !.kind = "test"])
  /\ UNCHANGED <<running, spent, troubles, asked>>

\* autopilot_once's loop: enough, or vetoed, or the next experiment.
Choose(t) ==
  LET work == task[t]
      h == Head(work.todo)
      next == [work EXCEPT !.todo = Tail(@)]
  IN  /\ work # None /\ work.step = "choosing"
      /\ CASE work.todo = <<>> \/ work.ran >= Nightly ->
                task' = [task EXCEPT ![t] = None] /\ UNCHANGED hyps
           [] work.todo # <<>> /\ work.ran < Nightly /\ Vetoed(hyps[h].key) ->
                /\ hyps' = [hyps EXCEPT ![h].status = "vetoed"]
                /\ task' = [task EXCEPT ![t] = next]
           [] OTHER -> Starts(t, h, next)
      /\ UNCHANGED <<running, spent, troubles, asked>>

\* experiments.grade and run_experiment: the holdout's p in hundredths, times the number tested,
\* is at most ten, on a sample that is large enough; a gain that does not survive the dearer
\* costs is not one.
Verdict(x, divisor) ==
  IF x.small \/ x.p * divisor > 10 THEN "inconclusive"
  ELSE IF ~x.better THEN "refuted"
  ELSE IF x.survives THEN "confirmed" ELSE "inconclusive"

Samples == [small : {FALSE}, p : {4, 30}, better : BOOLEAN, survives : {TRUE}]
           \union [small : {TRUE}, p : {4}, better : {TRUE}, survives : {FALSE}]

\* Where a finished experiment leaves its task.
After(w) == IF w.kind = "pilot" THEN [w EXCEPT !.step = "choosing", !.ran = @ + 1] ELSE None

\* _run_experiment's end: the grade, whatever became of the reflection.
Grade(t, x) ==
  LET w == task[t]
  IN  /\ w # None /\ w.step = "testing"
      /\ hyps' = [hyps EXCEPT ![w.h].status = Verdict(x, w.divisor)]
      /\ task' = [task EXCEPT ![t] = After(w)]
      /\ UNCHANGED <<running, spent, troubles, asked>>

\* The experiment raises.
Failed(t) ==
  LET w == task[t]
  IN  /\ w # None /\ w.step = "testing"
      /\ troubles < MaxTroubles
      /\ troubles' = troubles + 1
      /\ hyps' = [hyps EXCEPT ![w.h].status = "error"]
      /\ task' = [task EXCEPT ![t] = After(w)]
      /\ UNCHANGED <<running, spent, asked>>

-----------------------------------------------------------------------------

\* Of UTC: _today.
Midnight ==
  /\ troubles < MaxTroubles
  /\ troubles' = troubles + 1
  /\ spent' = [spent EXCEPT !.today = FALSE]
  /\ asked' = [runs |-> 0, lives |-> 1, carried |-> Cardinality(Waiting)]
  /\ UNCHANGED <<task, running, hyps>>

\* stop() cancels every task, or the process dies: what a review had asked is paid for and
\* counted nowhere, and the log is all that a new process finds.
Restart ==
  /\ troubles < MaxTroubles
  /\ troubles' = troubles + 1
  /\ task' = [t \in Tasks |-> None] /\ running' = {}
  /\ spent' = [runs |-> 0, today |-> TRUE]
  /\ asked' = [runs |-> asked.runs + Cardinality(Asking), lives |-> asked.lives + 1,
               carried |-> asked.carried]
  /\ UNCHANGED hyps

Init ==
  /\ task = [t \in Tasks |-> None] /\ running = {}
  /\ spent = [runs |-> 0, today |-> TRUE]
  /\ asked = [runs |-> 0, lives |-> 1, carried |-> 0]
  /\ hyps = <<>> /\ troubles = 0

Next ==
  \/ \E t \in Tasks :
       \/ \E ref \in Refs : AskCase(t, ref)
       \/ AskCohort(t) \/ Nightfall(t) \/ Claim(t) \/ TurnedAway(t) \/ Raised(t) \/ Choose(t) \/ Failed(t)
       \/ \E keys \in SeqOf(Keys, 2), reported \in BOOLEAN :
            CaseAnswered(t, keys, reported) \/ CohortAnswered(t, keys, reported)
       \/ \E h \in Numbers : StartExperiment(t, h)
       \/ \E x \in Samples : Grade(t, x)
  \/ \E key \in Keys : Propose(key)
  \/ Midnight \/ Restart

Spec == Init /\ [][Next]_vars

-----------------------------------------------------------------------------

\* What a (UTC) day's reviews come to: every process the day saw asks up to the cap, and at most
\* what was under way with the run that reached it - a run that failed or was cancelled was paid
\* for as well - and the day may have begun with reviews under way.  runs_today lives in the
\* process: a restart buys the cap again.  The reflection on an experiment (_run_experiment) is
\* no review and is bounded by nothing.
SpendIsBounded ==
  asked.runs <= asked.lives * (Cap + Cardinality(Tasks) - 1) + asked.carried

\* A subject is under one review at a time, although whether it is free was asked before the
\* await that read it (service.py, _review_case: "if key in self.running").
OneReviewEach == \A t, u \in Asking : task[t].ref = task[u].ref => t = u

=============================================================================
