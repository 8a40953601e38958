------------------------------- MODULE Gates -------------------------------
(***************************************************************************)
(* The arithmetic of the deployment gate: services/comparison.py:          *)
(* apply_gates for one metric, how it accumulates metrics, and             *)
(* services/ci_gate_report.py's exit decision.  A metric is reported as    *)
(* [lower, upper, point]: the interval of the bootstrapped delta and the   *)
(* delta of the point estimates, integers in a common unit.                *)
(***************************************************************************)
EXTENDS Integers

Verdicts == {"pass", "warn", "fail"}
Directions == {"higher_better", "lower_better"}

Deltas == {m \in [lower : Int, upper : Int, point : Int] : m.lower <= m.upper}

\* The delta seen from the other run.
Mirror(m) == [lower |-> -m.upper, upper |-> -m.lower, point |-> -m.point]

\* The delta turned so that a regression is negative.
Normalized(direction, m) == IF direction = "higher_better" THEN m ELSE Mirror(m)

\* Variant: the wrong end of the interval decides.
MetricVerdictWrongEnd(direction, tolerance, m) ==
  LET n == Normalized(direction, m) IN
  IF n.lower < -tolerance THEN "fail"
  ELSE IF n.upper < -tolerance \/ n.point < -tolerance THEN "warn"
  ELSE "pass"

\* Fail when the whole interval is beyond tolerance, warn when some of it, or
\* the point estimate, is.
MetricVerdict(direction, tolerance, m) ==
  LET n == Normalized(direction, m) IN
  IF n.upper < -tolerance THEN "fail"
  ELSE IF n.lower < -tolerance \/ n.point < -tolerance THEN "warn"
  ELSE "pass"

\* Reference: the worst of a set of verdicts.
WorstOf(S) == IF "fail" \in S THEN "fail" ELSE IF "warn" \in S THEN "warn" ELSE "pass"

\* Variant: the last metric that is not a pass decides.
AccumulateLast(verdict, metricVerdict) ==
  IF metricVerdict = "pass" THEN verdict ELSE metricVerdict

\* The loop's update of the overall verdict.
Accumulate(verdict, metricVerdict) ==
  CASE metricVerdict = "fail" -> "fail"
    [] metricVerdict = "warn" /\ verdict # "fail" -> "warn"
    [] OTHER -> verdict

ShouldFailCi(verdict, failOnWarn) == verdict = "fail" \/ (failOnWarn /\ verdict = "warn")
=============================================================================
