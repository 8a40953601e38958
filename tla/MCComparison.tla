---------------------------- MODULE MCComparison ----------------------------
(* Model-checking instances of Comparison.                                 *)
EXTENDS Comparison, TLC

CONSTANTS c1, c2, c3

TwoCases == {c1, c2}
ThreeCases == {c1, c2, c3}
ThreeEvaluators == {"forbidden_claim"} \cup Scorers

Results(claim, alias, overlap) ==
  ("forbidden_claim" :> claim) @@ ("semantic_similarity" :> alias) @@ ("token_f1_overlap" :> overlap)
Of(latency, cost, score, results) ==
  [status |-> "completed", latency |-> latency, cost |-> cost, score |-> score, results |-> results]

\* A good and a slow answer, a wrong but similar one, one the two scorers are not
\* at one about, one only they applied to, one nothing applied to, a failed
\* execution, and one that failed beside another that passed.
Good == Of(10, 1, 90, Results("passed", "passed", "passed"))
Slow == Of(100, 3, 90, Results("passed", "passed", "passed"))
Wrong == Of(10, 1, 70, Results("failed", "passed", "passed"))
Mixed == Of(10, 1, 90, Results("passed", "passed", "errored"))
Scored == Of(10, 1, 89, Results("skipped", "passed", "passed"))
NothingApplied == Of(10, 1, NoValue, Results("skipped", "skipped", "skipped"))
Crashed == [Of(NoValue, NoValue, NoValue, <<>>) EXCEPT !.status = "errored"]
PassedAndErrored == [Good EXCEPT !.status = "errored"]

AllKinds == {Good, Slow, Wrong, Mixed, Scored, NothingApplied, Crashed, PassedAndErrored}

Finished(items) == [status |-> "partial", origin |-> "suite", items |-> items]

\* Every pair of finished runs over two cases, and runs that may not be compared.
TwoCaseRuns ==
  {Finished(items) : items \in [TwoCases -> AllKinds]}
    \cup {[Finished([c \in TwoCases |-> Good]) EXCEPT !.status = "running"],
          [Finished([c \in TwoCases |-> Good]) EXCEPT !.origin = "other suite"],
          Finished([c \in {c1} |-> Good])}

\* Three cases that differ in speed, judgement and failure.
ThreeCaseRuns ==
  {Finished(items) : items \in [ThreeCases -> {Good, Slow, Wrong, Crashed}]}

AllRuns == TwoCaseRuns \cup ThreeCaseRuns

TwoOrigins == {"suite", "other suite"}

Lower(metric, tolerance) ==
  [metric |-> metric, direction |-> "lower_better", tolerance |-> tolerance]
Higher(metric, tolerance) ==
  [metric |-> metric, direction |-> "higher_better", tolerance |-> tolerance]

\* Orders and tolerances other than the default, and invalid rule books.
SomeRuleBooks ==
  {<<Lower("p95_latency_ms", 0), Higher("pass_rate", 50)>>,
   <<Higher("pass_rate", 0), Lower("cost_mean_usd", 0), Lower("p95_latency_ms", 44)>>,
   <<>>, <<Higher("pass_rate", -1)>>, <<Higher("unknown", 1)>>}
=============================================================================
