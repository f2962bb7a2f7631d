------------------------------- MODULE Gates -------------------------------
(* strategy/gates.py: a chain of gates, each with a verdict and a policy for a *)
(* missing input, and the gate that answers "why did this not fire?".          *)
EXTENDS Sequences, SequencesExt

\* Gate.evaluate, for a gate that fails closed: a missing input does not pass.
Closed(name, known, ok) == [name |-> name, passed |-> known /\ ok, missing |-> ~known]

\* Gate.evaluate, for a gate that fails open: a missing input passes.
Open(name, known, ok) == [name |-> name, passed |-> known => ok, missing |-> ~known]

\* Gate.verdict: the input is not a single number.
Verdict(name, ok) == [name |-> name, passed |-> ok, missing |-> FALSE]

\* chain_passed, with every gate of the two books required.
ChainPassed(gates) == \A i \in DOMAIN gates : gates[i].passed

\* failed_gates and binding_gate: the first that failed.
BindingGate(gates) ==
  LET failed == SelectSeq(gates, LAMBDA g : ~g.passed)
  IN  IF failed = <<>> THEN "none" ELSE failed[1].name

=============================================================================
