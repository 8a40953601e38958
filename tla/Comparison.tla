----------------------------- MODULE Comparison -----------------------------
(***************************************************************************)
(* services/comparison.py: one comparison of a candidate run against a     *)
(* baseline, from the stored items of both to the gate's verdict, and the  *)
(* CI report and exit code built from it (services/ci_gate_report.py,      *)
(* cli/gate.py).                                                           *)
(*                                                                         *)
(* Samples are integers in the unit of their metric (percent, ms, 0.001    *)
(* USD); statistics are Scale times their value.                           *)
(***************************************************************************)
EXTENDS Gates, Sequences, FiniteSets, Functions

CONSTANTS Cases,       \* evaluation cases
          Evaluators,  \* configured evaluators
          Origins,     \* suite, evaluator configuration and app of a run
          Runs,        \* stored runs to compare
          RuleBooks,   \* stored gate rules, not all valid
          NoValue

Metrics == {"pass_rate", "semantic_similarity", "p95_latency_ms", "cost_mean_usd"}

Outcomes == {"passed", "failed", "skipped", "errored"}

\* Two names of one evaluator, the token F1 of answer and expected output; both may
\* be configured.
Scorers == {"semantic_similarity", "token_f1_overlap"}

\* An item's row with its evaluation results; score is the answer's token F1.
Item == [status : {"queued", "running", "completed", "errored"},
         latency : Nat \cup {NoValue}, cost : Nat \cup {NoValue}, score : 0 .. 100 \cup {NoValue},
         results : UNION {[es -> Outcomes] : es \in SUBSET Evaluators}]

IsRun(run) ==
  /\ DOMAIN run.items \subseteq Cases
  /\ run \in [status : {"running", "completed", "partial", "failed"}, origin : Origins,
             items : [DOMAIN run.items -> Item]]

\* A rule book is a JSON object: an ordering of distinct metrics.
Rule == [metric : Metrics \cup {"unknown"}, direction : Directions \cup {"unknown"}, tolerance : Int]

ASSUME ComparisonAssumption ==
  /\ IsFiniteSet(Cases) /\ IsFiniteSet(Evaluators)
  /\ NoValue \notin Nat
  /\ \A run \in Runs : IsRun(run)
  /\ \A book \in RuleBooks :
       /\ book \in Seq(Rule)
       /\ \A j, k \in 1 .. Len(book) : book[j].metric = book[k].metric => j = k

\* DEFAULT_GATE_RULES, in the units of the metrics.
DefaultRules == <<
  [metric |-> "pass_rate", direction |-> "higher_better", tolerance |-> 2],
  [metric |-> "semantic_similarity", direction |-> "higher_better", tolerance |-> 2],
  [metric |-> "p95_latency_ms", direction |-> "lower_better", tolerance |-> 50],
  [metric |-> "cost_mean_usd", direction |-> "lower_better", tolerance |-> 1]>>

VARIABLES baseline, candidate,  \* the two runs
          rules,                \* the rule book of the request
          phase,                \* where the request stands
          report,               \* per metric, the delta: interval and point
          next,                 \* the rule apply_gates looks at next
          verdict, reasons,     \* of the rules before next
          ci                    \* the CI report, once built, and the job's exit code

vars == <<baseline, candidate, rules, phase, report, next, verdict, reasons, ci>>
request == <<baseline, candidate, rules>>
-----------------------------------------------------------------------------
(* Samples and statistics                                                  *)

\* Variant: an evaluator that errored is merely not applicable.
PassSampleIgnoringErrors(item) ==
  LET applicable == {e \in DOMAIN item.results : item.results[e] \in {"passed", "failed"}} IN
  IF applicable # {} /\ \A e \in applicable : item.results[e] = "passed" THEN 100 ELSE 0

\* A case passes when an evaluator applied, none errored and all passed.
PassSample(item) ==
  LET applicable == {e \in DOMAIN item.results : item.results[e] \in {"passed", "failed"}} IN
  IF /\ applicable # {}
     /\ \A e \in DOMAIN item.results : item.results[e] # "errored"
     /\ \A e \in applicable : item.results[e] = "passed"
    THEN 100 ELSE 0

\* The score in the result of one evaluator.
ScoreOf(item, e) == IF item.results[e] \in {"errored", "skipped"} THEN NoValue ELSE item.score

\* The loop over the results keeps the score of any scorer that gave one.
ScoreSample(item) ==
  IF \E e \in Scorers \cap DOMAIN item.results : ScoreOf(item, e) # NoValue
    THEN item.score ELSE NoValue

SampleOf(metric, item) ==
  CASE metric = "pass_rate" -> PassSample(item)
    [] metric = "semantic_similarity" -> ScoreSample(item)
    [] metric = "p95_latency_ms" -> item.latency
    [] metric = "cost_mean_usd" -> item.cost

\* collect_run_metric_samples: the cases of a run that have a sample.
Samples(run, metric) ==
  LET sampled == {c \in DOMAIN run.items : SampleOf(metric, run.items[c]) # NoValue}
  IN [c \in sampled |-> SampleOf(metric, run.items[c])]

Scale == 600  \* makes the means of up to six samples, and percentiles, integers

Average(f) ==
  IF DOMAIN f = {} THEN 0 ELSE (SumFunction(f) * Scale) \div Cardinality(DOMAIN f)

\* The k-th smallest sample, from 0.
Ordered(f, k) ==
  CHOOSE v \in Range(f) : /\ Cardinality({c \in DOMAIN f : f[c] < v}) <= k
                          /\ k < Cardinality({c \in DOMAIN f : f[c] <= v})

\* percentile(values, 0.95), interpolated between its two neighbours.
Percentile95(f) ==
  IF DOMAIN f = {} THEN 0
  ELSE LET rank == (Cardinality(DOMAIN f) - 1) * 95
           lower == rank \div 100
           upper == IF lower + 1 < Cardinality(DOMAIN f) THEN lower + 1 ELSE lower
       IN Ordered(f, lower) * Scale
            + (Ordered(f, upper) - Ordered(f, lower)) * (rank % 100) * (Scale \div 100)

Statistic(metric, f) == IF metric = "p95_latency_ms" THEN Percentile95(f) ELSE Average(f)

\* Variant: baseline and candidate resampled independently.
DeltaEstimatesUnpaired(metric, b, c) ==
  LET pairs == DOMAIN b \cap DOMAIN c
      draw(f, d) == [i \in pairs |-> f[d[i]]]
  IN {Statistic(metric, draw(c, d1)) - Statistic(metric, draw(b, d2)) :
        d1, d2 \in [pairs -> pairs]}

\* The statistic's delta over every resample, with replacement, of the cases
\* sampled in both runs.
DeltaEstimates(metric, b, c) ==
  LET pairs == DOMAIN b \cap DOMAIN c
      draw(f, d) == [i \in pairs |-> f[d[i]]]
  IN {Statistic(metric, draw(c, d)) - Statistic(metric, draw(b, d)) : d \in [pairs -> pairs]}

\* bootstrap_delta_ci takes the 25th and the 975th of 1000 sorted estimates: with
\* its seed, each resample of up to Exhaustive pairs is drawn 26 times or more, and
\* these are the extremes; of more pairs, any two estimates may be.
Exhaustive == 3

Intervals(estimates, pairs) ==
  {i \in estimates \X estimates :
     /\ i[1] <= i[2]
     /\ Cardinality(pairs) <= Exhaustive => \A x \in estimates : i[1] <= x /\ x <= i[2]}

MetricDeltas(metric, b, c) ==
  LET pairs == DOMAIN b \cap DOMAIN c
      estimates == IF pairs # {} THEN DeltaEstimates(metric, b, c) ELSE {0}
  IN {[lower |-> i[1], upper |-> i[2], point |-> Statistic(metric, c) - Statistic(metric, b)] :
        i \in Intervals(estimates, pairs)}

\* build_metric_report; the point delta is of all samples, paired or not.
MetricReports(base, cand) ==
  LET Delta(m) == MetricDeltas(m, Samples(base, m), Samples(cand, m))
  IN [pass_rate : Delta("pass_rate"), semantic_similarity : Delta("semantic_similarity"),
      p95_latency_ms : Delta("p95_latency_ms"), cost_mean_usd : Delta("cost_mean_usd")]

NoReport == [m \in Metrics |-> [lower |-> 0, upper |-> 0, point |-> 0]]
-----------------------------------------------------------------------------
(* The request                                                             *)

\* validate_gate_rules
ValidRules(book) ==
  /\ Len(book) > 0
  /\ \A j \in 1 .. Len(book) :
       book[j].metric \in Metrics /\ book[j].direction \in Directions /\ book[j].tolerance >= 0

Comparable ==
  /\ baseline.origin = candidate.origin
  /\ {baseline.status, candidate.status} \subseteq {"completed", "partial"}
  /\ DOMAIN baseline.items = DOMAIN candidate.items

NoCi == [built |-> FALSE, exit |-> NoValue, shouldFail |-> FALSE, rows |-> [m \in Metrics |-> "pass"]]

Init ==
  /\ baseline \in Runs /\ candidate \in Runs
  /\ rules \in RuleBooks \cup {DefaultRules}
  /\ phase = "requested"
  /\ report = NoReport
  /\ next = 1
  /\ verdict = "pass"
  /\ reasons = {}
  /\ ci = NoCi

\* A ValueError: 409, nothing stored.
Reject ==
  /\ phase = "requested"
  /\ ~ (Comparable /\ ValidRules(rules))
  /\ phase' = "rejected"
  /\ UNCHANGED <<request, report, next, verdict, reasons, ci>>

BuildReport ==
  /\ phase = "requested"
  /\ Comparable /\ ValidRules(rules)
  /\ report' \in MetricReports(baseline, candidate)
  /\ phase' = "gating"
  /\ UNCHANGED <<request, next, verdict, reasons, ci>>

VerdictOf(j) ==
  MetricVerdict(rules[j].direction, rules[j].tolerance * Scale, report[rules[j].metric])

\* Variant: only a failing metric leaves a reason.
ApplyRuleFailuresOnly ==
  /\ phase = "gating" /\ next <= Len(rules)
  /\ next' = next + 1
  /\ verdict' = Accumulate(verdict, VerdictOf(next))
  /\ reasons' = IF VerdictOf(next) # "fail" THEN reasons
                ELSE reasons \cup {[metric |-> rules[next].metric, verdict |-> VerdictOf(next)]}
  /\ UNCHANGED <<request, phase, report, ci>>

\* One iteration of apply_gates.
ApplyRule ==
  /\ phase = "gating" /\ next <= Len(rules)
  /\ next' = next + 1
  /\ verdict' = Accumulate(verdict, VerdictOf(next))
  /\ reasons' = IF VerdictOf(next) = "pass" THEN reasons
                ELSE reasons \cup {[metric |-> rules[next].metric, verdict |-> VerdictOf(next)]}
  /\ UNCHANGED <<request, phase, report, ci>>

\* Comparison and RegressionReport are committed together.
Store ==
  /\ phase = "gating" /\ next > Len(rules)
  /\ phase' = "stored"
  /\ UNCHANGED <<request, report, next, verdict, reasons, ci>>

\* _build_metric_rows: a metric without a reason is shown as passing.
RowStatus(m) ==
  IF \E r \in reasons : r.metric = m THEN (CHOOSE r \in reasons : r.metric = m).verdict ELSE "pass"

\* The CI job (gate.main) is answered with the report and exits by it.
BuildCiReport(failOnWarn) ==
  /\ phase = "stored" /\ ci.exit = NoValue
  /\ ci' = [built |-> TRUE, exit |-> IF ShouldFailCi(verdict, failOnWarn) THEN 1 ELSE 0,
            shouldFail |-> ShouldFailCi(verdict, failOnWarn),
            rows |-> [m \in Metrics |-> RowStatus(m)]]
  /\ UNCHANGED <<request, phase, report, next, verdict, reasons>>

\* Variant: the job reads should_fail_ci of an error answer as false.
CiJobFailsGreen ==
  /\ ci.exit = NoValue
  /\ ci' = [ci EXCEPT !.exit = 0]
  /\ UNCHANGED <<request, phase, report, next, verdict, reasons>>

\* The job asks too early (404), as a stranger (401, 404) or in vain: raise_for_status.
CiJobFails ==
  /\ ci.exit = NoValue
  /\ ci' = [ci EXCEPT !.exit = 1]
  /\ UNCHANGED <<request, phase, report, next, verdict, reasons>>

Next == Reject \/ BuildReport \/ ApplyRule \/ Store \/ CiJobFails
          \/ \E f \in BOOLEAN : BuildCiReport(f)

Spec == Init /\ [][Next]_vars
-----------------------------------------------------------------------------
(* Properties                                                              *)

\* The verdict stored is the worst of all rules', whatever their order: a late
\* warning does not soften a failure, an early failure is not forgotten.
VerdictIsWorst ==
  phase = "stored" => verdict = WorstOf({VerdictOf(j) : j \in 1 .. Len(rules)})

\* The CI report is derived again from the stored reasons: its rows and its
\* exit decision must tell the story of the stored verdict.  A job is green only
\* on a stored comparison that did not fail, whatever it was answered.
CiReportAgrees ==
  /\ ci.built =>
       /\ WorstOf({ci.rows[m] : m \in Metrics}) = verdict
       /\ \A j \in 1 .. Len(rules) : ci.rows[rules[j].metric] = VerdictOf(j)
       /\ verdict = "fail" => ci.shouldFail
       /\ ci.shouldFail => \E m \in Metrics : ci.rows[m] # "pass"
  /\ ci.exit = 0 => phase = "stored" /\ verdict # "fail"

\* Whatever the rule book, a candidate with the samples of its baseline passes:
\* the resampling noise of the bootstrap alone never blocks a deployment.
SameSamplesPass ==
  phase = "stored"
    /\ (\A j \in 1 .. Len(rules) :
          Samples(baseline, rules[j].metric) = Samples(candidate, rules[j].metric))
  => verdict = "pass"

\* A run with one evaluation turned into an error, or with one case whose execution
\* failed: rolled back, or marked errored beside the results of another execution.
EvaluatorFaults(run) ==
  UNION {{[run EXCEPT !.items[c].results[e] = "errored"] : e \in DOMAIN run.items[c].results} :
           c \in DOMAIN run.items}
ExecutionFaults(run) ==
  {[run EXCEPT !.items[c] = [status |-> "errored", latency |-> NoValue, cost |-> NoValue,
                             score |-> NoValue, results |-> <<>>]] : c \in DOMAIN run.items}
    \cup {[run EXCEPT !.items[c].status = "errored"] : c \in DOMAIN run.items}

\* docs/eval-metrics.md: evaluator and infrastructure faults cannot silently
\* improve the pass rate.
FaultsNeverImprovePassRate ==
  \A run \in EvaluatorFaults(candidate) \cup ExecutionFaults(candidate) :
    Average(Samples(run, "pass_rate")) <= Average(Samples(candidate, "pass_rate"))

\* docs/eval-metrics.md: a candidate fails when the regression is beyond
\* tolerance and the confidence interval supports it.  So it is for a metric
\* with a sample of the same cases in both runs, if each of their resamples is drawn.
\* For another, the interval is of the paired cases and the point of all: a metric
\* may fail whose point improved.
FailMeansRegressed ==
  phase = "stored" =>
    \A j \in 1 .. Len(rules) :
      LET m == rules[j].metric IN
      /\ VerdictOf(j) = "fail"
      /\ DOMAIN Samples(baseline, m) = DOMAIN Samples(candidate, m)
      /\ Cardinality(DOMAIN Samples(baseline, m)) <= Exhaustive
      => Normalized(rules[j].direction, report[m]).point < -(rules[j].tolerance * Scale)
=============================================================================
