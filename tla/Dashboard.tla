----------------------------- MODULE Dashboard -----------------------------
(***************************************************************************)
(* services/dashboard_aggregation.py: what GET /api/dashboard/latest shows *)
(* of a stored comparison.  The snapshot derives again, from the rows of   *)
(* both runs, what the comparison derived before it: which cases passed,   *)
(* which failed, and each metric of each run.                              *)
(***************************************************************************)
EXTENDS Comparison, SequencesExt

CONSTANTS CaseOrder,  \* the cases by external id, equal ids by case id
          TagOf       \* the first tag of each case, "untagged" for none

ASSUME DashboardAssumption ==
  /\ CaseOrder \in Seq(Cases) /\ IsInjective(CaseOrder)
  /\ \A c \in Cases : Contains(CaseOrder, c)
  /\ DOMAIN TagOf = Cases

\* The item's execution failed, whatever an earlier or a duplicate one left in it.
Errored(item) == item.status = "errored"
-----------------------------------------------------------------------------
(* Run rows                                                                *)

\* Variant: an evaluator that errored does not spoil the case.
DisplayPassIgnoringErrors(item) ==
  LET applicable == {e \in DOMAIN item.results : item.results[e] \in {"passed", "failed"}} IN
  IF applicable # {} /\ "failed" \notin {item.results[e] : e \in applicable} THEN 100 ELSE 0

\* _collect_run_display_samples: 1.0 for a case that passed.
DisplayPass(item) ==
  LET outcomes == {item.results[e] : e \in DOMAIN item.results} IN
  IF "passed" \in outcomes /\ outcomes \cap {"failed", "errored"} = {} THEN 100 ELSE 0

\* The result found first is shown, by name and not by outcome.
DisplayScore(item) ==
  IF "token_f1_overlap" \in DOMAIN item.results THEN ScoreOf(item, "token_f1_overlap")
  ELSE IF "semantic_similarity" \in DOMAIN item.results THEN ScoreOf(item, "semantic_similarity")
  ELSE NoValue

DisplaySample(metric, item) ==
  CASE metric = "pass_rate" -> DisplayPass(item)
    [] metric = "semantic_similarity" -> DisplayScore(item)
    [] metric = "p95_latency_ms" -> item.latency
    [] metric = "cost_mean_usd" -> item.cost

\* _run_to_dashboard_row: a metric of a run, of its own samples only.
RunRow(run, metric) ==
  LET shown == {c \in DOMAIN run.items : DisplaySample(metric, run.items[c]) # NoValue}
  IN Statistic(metric, [c \in shown |-> DisplaySample(metric, run.items[c])])
-----------------------------------------------------------------------------
(* Failed cases and tags                                                   *)

\* A case is listed for a failed or errored result, or a failed execution.
Failed(item) ==
  (\E e \in DOMAIN item.results : item.results[e] \in {"failed", "errored"}) \/ Errored(item)

FailedCases(run) == {c \in DOMAIN run.items : Failed(run.items[c])}

\* _build_trace_cases
TraceCases ==
  FlattenSeq([i \in 1 .. Len(CaseOrder) |->
                IF CaseOrder[i] \in FailedCases(candidate) THEN <<CaseOrder[i]>> ELSE <<>>])

\* traceCases of a request with failure_limit and failure_offset.
Page(limit, offset) ==
  SubSeq(TraceCases, offset + 1, IF offset + limit < Len(TraceCases)
                                   THEN offset + limit ELSE Len(TraceCases))

\* _run_tag_stats
Tagged(run, tag) == {c \in DOMAIN run.items : TagOf[c] = tag}
CaseCount(run, tag) == Cardinality(Tagged(run, tag))

\* Variant: only results make a failure.
FailureCountOfResults(run, tag) ==
  Cardinality({c \in Tagged(run, tag) : \E e \in DOMAIN run.items[c].results :
                                          run.items[c].results[e] \in {"failed", "errored"}})

FailureCount(run, tag) == Cardinality({c \in Tagged(run, tag) : Failed(run.items[c])})

\* candidatePassRate of a row of tagBreakdown, Scale times a fraction.
TagPassRate(tag) ==
  IF CaseCount(candidate, tag) = 0 THEN 0
  ELSE Scale - (FailureCount(candidate, tag) * Scale) \div CaseCount(candidate, tag)

\* _build_tag_breakdown: a row for each tag of either run.
Tags == {TagOf[c] : c \in DOMAIN baseline.items \cup DOMAIN candidate.items}
-----------------------------------------------------------------------------
(* Properties                                                              *)

\* A case both scorers were asked about, and only the second to be shown answered.
OnlyAliasScored(item) ==
  /\ Scorers \subseteq DOMAIN item.results
  /\ item.results["token_f1_overlap"] \in {"errored", "skipped"}
  /\ item.results["semantic_similarity"] \notin {"errored", "skipped"}

\* The rows of the two runs explain the delta that was gated, although they are
\* computed by other code, at another time: a metric shown as failing is also worse
\* in the run rows.  Not so for the similarity when it is a case's alias alone that
\* was scored: the gate takes that score and the rows leave it out.
RunRowsExplainDeltas ==
  phase = "stored" =>
    \A m \in Metrics :
      \/ RunRow(candidate, m) - RunRow(baseline, m) = report[m].point
      \/ /\ m = "semantic_similarity"
         /\ \E run \in {baseline, candidate} : \E c \in DOMAIN run.items : OnlyAliasScored(run.items[c])

\* Reading page after page lists every failed case once, the failures of the tags
\* are the listed failures, and a case that was executed and passed is in neither: by
\* every tag, at least their share passes.  An errored item may keep the passing
\* results of another execution, is listed, and counts in the run's pass rate.
TagsAccountForFailures ==
  phase = "stored" =>
    /\ \A limit \in 1 .. Cardinality(Cases) :
         FlattenSeq([p \in 1 .. Cardinality(Cases) |-> Page(limit, (p - 1) * limit)]) = TraceCases
    /\ Len(TraceCases) = SumFunction([t \in Tags |-> FailureCount(candidate, t)])
    /\ \A t \in Tags :
         LET passed == {c \in Tagged(candidate, t) : /\ PassSample(candidate.items[c]) = 100
                                                     /\ candidate.items[c].status # "errored"} IN
         /\ passed \cap FailedCases(candidate) = {}
         /\ TagPassRate(t) * CaseCount(candidate, t) >= Scale * Cardinality(passed)
=============================================================================
