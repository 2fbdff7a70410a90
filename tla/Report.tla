------------------------------- MODULE Report -------------------------------
(***************************************************************************)
(* What the experiment concludes: arm and checkPredictions of              *)
(* internal/experiment/experiment.go over the rows of its runs.  A rate or *)
(* a mean is a pair of counts, compared by cross-multiplication: the       *)
(* code's floats differ from that only in a difference of exactly 0.1.     *)
(***************************************************************************)
EXTENDS Integers, SequencesExt

Arms == {"A", "B", "C"}

\* What checkPredictions reads of a run.
Run == [arm : Arms, control : BOOLEAN, err : BOOLEAN, violated : BOOLEAN,
        completed : BOOLEAN, turns : Nat]

\* armStats.
Stats == [trials : Nat, violations : Nat, compliant : Nat, turns : Nat]

-----------------------------------------------------------------------------
\* arm: the runs of one arm that were no error and no control.
MutCountsErrors(r, want) == r.arm = want /\ ~r.control

MutCountsAnyArm(r, want) == ~r.err /\ ~r.control

Counts(r, want) == r.arm = want /\ ~r.err /\ ~r.control

Compliant(r) == r.completed /\ ~r.violated

One(holds) == IF holds THEN 1 ELSE 0

NoRuns == [want \in Arms |-> [trials |-> 0, violations |-> 0, compliant |-> 0, turns |-> 0]]

\* One run more, in the account of each arm.
Tally(stats, r) ==
  [want \in Arms |->
     IF Counts(r, want)
     THEN [trials     |-> stats[want].trials + 1,
           violations |-> stats[want].violations + One(r.violated),
           compliant  |-> stats[want].compliant + One(Compliant(r)),
           turns      |-> stats[want].turns + r.turns]
     ELSE stats[want]]

arm(rows, want) == FoldLeft(Tally, NoRuns, rows)[want]

\* complianceRate and meanTurns, as comparisons.
RateAbove(s, t) == s.compliant * t.trials > t.compliant * s.trials

RateAboveByTenth(s, t) ==
  10 * (s.compliant * t.trials - t.compliant * s.trials) > s.trials * t.trials

FewerTurnsByOne(s, t) == t.turns * s.trials - s.turns * t.trials > s.trials * t.trials

\* The three verdicts of checkPredictions.
PromptingFails(rows) ==
  LET a == arm(rows, "A")
  IN  IF a.trials = 0 THEN "not run" ELSE IF a.violations = 0 THEN "REFUTED" ELSE "HELD"

EnforcementHelps(rows) ==
  LET a == arm(rows, "A") c == arm(rows, "C")
  IN  IF a.trials = 0 \/ c.trials = 0 THEN "not run"
      ELSE IF RateAbove(c, a) THEN "HELD" ELSE "REFUTED"

RationaleHelps(rows) ==
  LET b == arm(rows, "B") c == arm(rows, "C")
  IN  IF b.trials = 0 \/ c.trials = 0 THEN "not run"
      ELSE IF RateAboveByTenth(c, b) \/ FewerTurnsByOne(c, b) THEN "HELD" ELSE "REFUTED"

checkPredictions(rows) ==
  <<PromptingFails(rows), EnforcementHelps(rows), RationaleHelps(rows)>>
=============================================================================
