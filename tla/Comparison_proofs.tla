-------------------------- MODULE Comparison_proofs --------------------------
(* Proofs about Comparison and Dashboard, for every pair of runs and every *)
(* rule book.  First the gate's arithmetic (Gates), for all deltas and     *)
(* tolerances.                                                             *)
EXTENDS Dashboard, FiniteSetTheorems, SequenceTheorems, TLAPS

\* The direction of the comparison is all that changes when the runs are
\* swapped: the gate never fails both ways, for any non-negative tolerance.
THEOREM FailIsOneSided ==
  ASSUME NEW direction \in Directions, NEW tolerance \in Nat, NEW m \in Deltas,
         MetricVerdict(direction, tolerance, m) = "fail"
  PROVE  MetricVerdict(direction, tolerance, Mirror(m)) # "fail"
<1>1. m.lower \in Int /\ m.upper \in Int /\ m.point \in Int /\ m.lower <= m.upper
  BY DEF Deltas
<1>2. CASE direction = "higher_better"
  BY <1>1, <1>2 DEF MetricVerdict, Normalized, Mirror
<1>3. CASE direction # "higher_better"
  BY <1>1, <1>3 DEF MetricVerdict, Normalized, Mirror
<1> QED BY <1>2, <1>3

\* Raising a tolerance never makes the verdict of a metric worse.
THEOREM ToleranceIsMonotone ==
  ASSUME NEW direction \in Directions, NEW m \in Deltas,
         NEW t1 \in Nat, NEW t2 \in Nat, t1 <= t2
  PROVE  WorstOf({MetricVerdict(direction, t1, m), MetricVerdict(direction, t2, m)})
           = MetricVerdict(direction, t1, m)
<1> DEFINE n == Normalized(direction, m)
<1>1. n.lower \in Int /\ n.upper \in Int /\ n.point \in Int
  BY DEF Deltas, Normalized, Mirror
<1>2. /\ n.upper < -t2 => n.upper < -t1
      /\ n.lower < -t2 => n.lower < -t1
      /\ n.point < -t2 => n.point < -t1
  BY <1>1
<1>3. \A t \in {t1, t2} :
        MetricVerdict(direction, t, m) =
          IF n.upper < -t THEN "fail"
          ELSE IF n.lower < -t \/ n.point < -t THEN "warn" ELSE "pass"
  BY DEF MetricVerdict
<1> HIDE DEF n
<1> QED BY <1>2, <1>3 DEF WorstOf

\* Accumulating one more verdict keeps the worst so far.
LEMMA AccumulateIsWorst ==
  ASSUME NEW S, NEW v \in Verdicts
  PROVE  Accumulate(WorstOf(S), v) = WorstOf(S \cup {v})
BY DEF Accumulate, WorstOf, Verdicts

\* Every metric gets one of the three verdicts.
LEMMA MetricVerdictType ==
  ASSUME NEW direction, NEW tolerance, NEW m
  PROVE  MetricVerdict(direction, tolerance, m) \in Verdicts
BY DEF MetricVerdict, Verdicts
-----------------------------------------------------------------------------

\* What the rules looked at so far have produced.
Seen == 1 .. next - 1
SeenReasons ==
  {[metric |-> rules[j].metric, verdict |-> VerdictOf(j)] :
     j \in {k \in Seen : VerdictOf(k) # "pass"}}

\* The loop invariant of apply_gates, and what a CI report was built from.
LoopInv ==
  /\ rules \in Seq(Rule)
  /\ \A j, k \in 1 .. Len(rules) : rules[j].metric = rules[k].metric => j = k
  /\ phase \in {"requested", "rejected", "gating", "stored"}
  /\ next \in 1 .. Len(rules) + 1
  /\ phase \in {"requested", "rejected"} => next = 1
  /\ phase = "stored" => next = Len(rules) + 1
  /\ verdict = WorstOf({VerdictOf(j) : j \in Seen})
  /\ reasons = SeenReasons
  /\ phase \notin {"requested", "rejected"} => ValidRules(rules)
  /\ ci.built => /\ phase = "stored"
                 /\ \E f \in BOOLEAN : ci.shouldFail = ShouldFailCi(verdict, f)
                 /\ ci.rows = [m \in Metrics |-> RowStatus(m)]
  /\ ci.exit = 0 => ci.built /\ ~ ci.shouldFail

LEMMA DefaultRulesAreRules ==
  /\ DefaultRules \in Seq(Rule)
  /\ \A j, k \in 1 .. Len(DefaultRules) : DefaultRules[j].metric = DefaultRules[k].metric => j = k
BY DEF DefaultRules, Rule, Metrics, Directions

\* With no rule looked at yet there is nothing but a pass.
LEMMA NothingSeen ==
  ASSUME next = 1
  PROVE  WorstOf({VerdictOf(j) : j \in Seen}) = "pass" /\ SeenReasons = {}
BY DEF Seen, SeenReasons, WorstOf

LEMMA LoopInvInit == Init => LoopInv
<1> SUFFICES ASSUME Init PROVE LoopInv
  OBVIOUS
<1>1. rules \in Seq(Rule)
        /\ \A j, k \in 1 .. Len(rules) : rules[j].metric = rules[k].metric => j = k
  BY DefaultRulesAreRules, ComparisonAssumption DEF Init
<1>2. verdict = WorstOf({VerdictOf(j) : j \in Seen}) /\ reasons = SeenReasons
  BY NothingSeen DEF Init
<1>3. ci = NoCi /\ ci.exit # 0
  BY ComparisonAssumption DEF Init, NoCi
<1> QED BY <1>1, <1>2, <1>3 DEF Init, LoopInv, NoCi

LEMMA LoopInvStep == LoopInv /\ [Next]_vars => LoopInv'
<1> SUFFICES ASSUME LoopInv, [Next]_vars PROVE LoopInv'
  OBVIOUS
<1>1. CASE Reject
  <2>1. WorstOf({VerdictOf(j) : j \in Seen})' = WorstOf({VerdictOf(j) : j \in Seen})
          /\ SeenReasons' = SeenReasons
    BY <1>1 DEF Reject, request, Seen, SeenReasons, VerdictOf
  <2> QED BY <1>1, <2>1 DEF Reject, request, LoopInv
<1>2. CASE BuildReport
  <2>1. next = 1 /\ next' = 1 /\ verdict' = verdict /\ reasons' = reasons
    BY <1>2 DEF BuildReport, LoopInv
  <2>2. verdict = "pass" /\ reasons = {}
    BY <2>1, NothingSeen DEF LoopInv
  <2>3. (WorstOf({VerdictOf(j) : j \in Seen}))' = "pass" /\ SeenReasons' = {}
    BY <2>1 DEF Seen, SeenReasons, WorstOf
  <2> QED BY <1>2, <2>1, <2>2, <2>3 DEF BuildReport, request, LoopInv
<1>3. CASE ApplyRule
  <2>1. \A j : VerdictOf(j)' = VerdictOf(j)
    BY <1>3 DEF ApplyRule, request, VerdictOf
  <2>2. Seen' = Seen \cup {next} /\ next \in 1 .. Len(rules) /\ next \notin Seen
    BY <1>3 DEF ApplyRule, Seen, LoopInv
  <2>3. VerdictOf(next) \in Verdicts
    BY MetricVerdictType DEF VerdictOf
  <2>4. verdict' = WorstOf({VerdictOf(j) : j \in Seen} \cup {VerdictOf(next)})
    BY <1>3, <2>3, AccumulateIsWorst DEF ApplyRule, LoopInv
  <2>5. {VerdictOf(j) : j \in Seen} \cup {VerdictOf(next)} = {VerdictOf(j)' : j \in Seen'}
    BY <2>1, <2>2
  <2>6. verdict' = WorstOf({VerdictOf(j) : j \in Seen})'
    BY <2>4, <2>5
  <2>7. reasons' = SeenReasons'
    <3>1. CASE VerdictOf(next) = "pass"
      BY <1>3, <2>1, <2>2, <3>1 DEF ApplyRule, LoopInv, SeenReasons, request
    <3>2. CASE VerdictOf(next) # "pass"
      BY <1>3, <2>1, <2>2, <3>2 DEF ApplyRule, LoopInv, SeenReasons, request
    <3> QED BY <3>1, <3>2
  <2>8. next' \in 1 .. Len(rules) + 1
    BY <1>3 DEF ApplyRule, LoopInv
  <2> QED BY <1>3, <2>6, <2>7, <2>8 DEF ApplyRule, request, LoopInv
<1>4. CASE Store
  <2>1. WorstOf({VerdictOf(j) : j \in Seen})' = WorstOf({VerdictOf(j) : j \in Seen})
          /\ SeenReasons' = SeenReasons
    BY <1>4 DEF Store, request, Seen, SeenReasons, VerdictOf
  <2>2. next' = Len(rules') + 1
    BY <1>4 DEF Store, request, LoopInv
  <2> QED BY <1>4, <2>1, <2>2 DEF Store, request, LoopInv
<1>5. ASSUME NEW f \in BOOLEAN, BuildCiReport(f) PROVE LoopInv'
  <2>1. WorstOf({VerdictOf(j) : j \in Seen})' = WorstOf({VerdictOf(j) : j \in Seen})
          /\ SeenReasons' = SeenReasons /\ \A m : RowStatus(m)' = RowStatus(m)
    BY <1>5 DEF BuildCiReport, request, Seen, SeenReasons, VerdictOf, RowStatus
  <2>2. ci'.shouldFail = ShouldFailCi(verdict', f) /\ phase' = "stored"
          /\ ci'.rows = [m \in Metrics |-> RowStatus(m)']
    BY <1>5, <2>1 DEF BuildCiReport
  <2> QED BY <1>5, <2>1, <2>2 DEF BuildCiReport, request, LoopInv
<1>6. CASE CiJobFails
  <2>1. WorstOf({VerdictOf(j) : j \in Seen})' = WorstOf({VerdictOf(j) : j \in Seen})
          /\ SeenReasons' = SeenReasons /\ \A m : RowStatus(m)' = RowStatus(m)
    BY <1>6 DEF CiJobFails, request, Seen, SeenReasons, VerdictOf, RowStatus
  <2>2. ci'.built = ci.built /\ ci'.shouldFail = ci.shouldFail /\ ci'.rows = ci.rows
          /\ ci'.exit # 0
    BY <1>6 DEF CiJobFails
  <2> QED BY <1>6, <2>1, <2>2 DEF CiJobFails, request, LoopInv
<1>7. CASE UNCHANGED vars
  <2>1. WorstOf({VerdictOf(j) : j \in Seen})' = WorstOf({VerdictOf(j) : j \in Seen})
          /\ SeenReasons' = SeenReasons /\ \A m : RowStatus(m)' = RowStatus(m)
    BY <1>7 DEF vars, Seen, SeenReasons, VerdictOf, RowStatus
  <2>2. ci'.built => ci'.rows = [m \in Metrics |-> RowStatus(m)']
    BY <1>7, <2>1 DEF vars, LoopInv
  <2> QED BY <1>7, <2>1, <2>2 DEF vars, LoopInv
<1> QED BY <1>1, <1>2, <1>3, <1>4, <1>5, <1>6, <1>7 DEF Next

\* For every pair of runs and rule book, apply_gates stores the worst verdict of
\* its rules.
THEOREM StoredVerdictIsWorst == Spec => []VerdictIsWorst
<1>1. LoopInv => VerdictIsWorst
  BY DEF LoopInv, VerdictIsWorst, Seen
<1> QED BY LoopInvInit, LoopInvStep, <1>1, PTL DEF Spec

\* What the stored reasons tell of a rule's metric, and of another.
LEMMA RowsTellVerdicts ==
  ASSUME LoopInv, phase = "stored"
  PROVE  /\ Seen = 1 .. Len(rules) /\ \A j \in Seen : rules[j].metric \in Metrics
         /\ \A j \in Seen : RowStatus(rules[j].metric) = VerdictOf(j)
         /\ \A m \in Metrics : (\A j \in Seen : rules[j].metric # m) => RowStatus(m) = "pass"
<1>1. Seen = 1 .. Len(rules) /\ ValidRules(rules)
  BY DEF LoopInv, Seen
<1>2. \A j \in Seen : rules[j].metric \in Metrics
  BY <1>1 DEF ValidRules
<1>3. ASSUME NEW j \in Seen PROVE RowStatus(rules[j].metric) = VerdictOf(j)
  <2>1. CASE VerdictOf(j) = "pass"
    BY <1>1, <1>3, <2>1 DEF LoopInv, SeenReasons, RowStatus
  <2>2. CASE VerdictOf(j) # "pass"
    <3> DEFINE r == [metric |-> rules[j].metric, verdict |-> VerdictOf(j)]
    <3>1. r \in reasons
      BY <1>3, <2>2 DEF LoopInv, SeenReasons
    <3>2. \A q \in reasons : q.metric = r.metric => q = r
      BY <1>1, <1>3 DEF LoopInv, SeenReasons
    <3> QED BY <3>1, <3>2 DEF RowStatus
  <2> QED BY <2>1, <2>2
<1>4. ASSUME NEW m \in Metrics, \A j \in Seen : rules[j].metric # m PROVE RowStatus(m) = "pass"
  BY <1>4 DEF LoopInv, SeenReasons, RowStatus
<1> QED BY <1>1, <1>2, <1>3, <1>4

\* What a CI report that was built says.
LEMMA LoopInvCiRows ==
  ASSUME LoopInv, ci.built
  PROVE  /\ WorstOf({ci.rows[m] : m \in Metrics}) = verdict
         /\ \A j \in 1 .. Len(rules) : ci.rows[rules[j].metric] = VerdictOf(j)
         /\ verdict = "fail" => ci.shouldFail
         /\ ci.shouldFail => \E m \in Metrics : ci.rows[m] # "pass"
<1>0. phase = "stored"
  BY DEF LoopInv
<1>1. Seen = 1 .. Len(rules)
  BY <1>0, RowsTellVerdicts
<1>2. \A j \in Seen : rules[j].metric \in Metrics
  BY <1>0, RowsTellVerdicts
<1>3. \A j \in Seen : RowStatus(rules[j].metric) = VerdictOf(j)
  BY <1>0, RowsTellVerdicts
<1>4. \A m \in Metrics : (\A j \in Seen : rules[j].metric # m) => RowStatus(m) = "pass"
  BY <1>0, RowsTellVerdicts
<1>5. \A m \in Metrics : ci.rows[m] = RowStatus(m)
  BY DEF LoopInv
<1>6. \A j \in Seen : ci.rows[rules[j].metric] = VerdictOf(j)
  BY <1>2, <1>3, <1>5
<1>7. \A m \in Metrics : ci.rows[m] # "pass" => \E j \in Seen : ci.rows[m] = VerdictOf(j)
  BY <1>3, <1>4, <1>5
<1>8. WorstOf({ci.rows[m] : m \in Metrics}) = verdict
  <2>1. \A v \in {"warn", "fail"} :
          v \in {ci.rows[m] : m \in Metrics} <=> v \in {VerdictOf(j) : j \in Seen}
    BY <1>2, <1>6, <1>7
  <2>2. verdict = WorstOf({VerdictOf(j) : j \in Seen})
    BY DEF LoopInv
  <2> QED BY <2>1, <2>2 DEF WorstOf
<1>9. PICK f \in BOOLEAN : ci.shouldFail = ShouldFailCi(verdict, f)
  BY DEF LoopInv
<1>10. ci.shouldFail => verdict # "pass"
  BY <1>9 DEF ShouldFailCi
<1>11. verdict # "pass" => \E m \in Metrics : ci.rows[m] # "pass"
  BY <1>8 DEF WorstOf
<1>12. verdict = "fail" => ci.shouldFail
  BY <1>9 DEF ShouldFailCi
<1> QED BY <1>1, <1>6, <1>8, <1>10, <1>11, <1>12

LEMMA LoopInvCiReport == LoopInv => CiReportAgrees
<1> SUFFICES ASSUME LoopInv PROVE CiReportAgrees
  OBVIOUS
<1>1. ci.exit = 0 => phase = "stored" /\ verdict # "fail"
  BY LoopInvCiRows DEF LoopInv
<1> QED BY <1>1, LoopInvCiRows DEF CiReportAgrees

\* The CI report's rows and exit decision always agree with the stored verdict.
THEOREM CiReportFollowsVerdict == Spec => []CiReportAgrees
BY LoopInvInit, LoopInvStep, LoopInvCiReport, PTL DEF Spec
-----------------------------------------------------------------------------
(* The dashboard of a stored comparison                                    *)

\* The two runs are stored ones, and what is gated is their report.
ReportInv ==
  /\ baseline \in Runs /\ candidate \in Runs
  /\ phase \in {"gating", "stored"} => report \in MetricReports(baseline, candidate)

LEMMA ReportInvInit == Init => ReportInv
BY DEF Init, ReportInv

LEMMA ReportInvStep == ReportInv /\ [Next]_vars => ReportInv'
<1> SUFFICES ASSUME ReportInv, [Next]_vars PROVE ReportInv'
  OBVIOUS
<1>2. CASE Reject
  BY <1>2 DEF Reject, request, ReportInv
<1>3. CASE BuildReport
  BY <1>3 DEF BuildReport, request, ReportInv
<1>4. CASE ApplyRule
  BY <1>4 DEF ApplyRule, request, ReportInv
<1>5. CASE Store
  BY <1>5 DEF Store, request, ReportInv
<1>6. ASSUME NEW f \in BOOLEAN, BuildCiReport(f) PROVE ReportInv'
  BY <1>6 DEF BuildCiReport, request, ReportInv
<1>7. CASE CiJobFails
  BY <1>7 DEF CiJobFails, request, ReportInv
<1>8. CASE UNCHANGED vars
  BY <1>8 DEF vars, ReportInv
<1> QED BY <1>2, <1>3, <1>4, <1>5, <1>6, <1>7, <1>8 DEF Next

\* The item loops of the comparison and of the dashboard pass the same cases ...
LEMMA SamePass ==
  ASSUME NEW item \in Item
  PROVE  DisplayPass(item) = PassSample(item)
<1> DEFINE es == DOMAIN item.results
           outcomes == {item.results[e] : e \in es}
<1>1. \A e \in es : item.results[e] \in Outcomes
  BY DEF Item
<1>2. ("passed" \in outcomes /\ outcomes \cap {"failed", "errored"} = {})
        <=> /\ {e \in es : item.results[e] \in {"passed", "failed"}} # {}
            /\ \A e \in es : item.results[e] # "errored"
            /\ \A e \in {d \in es : item.results[d] \in {"passed", "failed"}} :
                 item.results[e] = "passed"
  BY <1>1
<1> QED BY <1>2 DEF DisplayPass, PassSample

\* ... and, when the scorer shown first is not the one that has no score, take the
\* same sample of each.
LEMMA SameScore ==
  ASSUME NEW item \in Item, ~ OnlyAliasScored(item)
  PROVE  DisplayScore(item) = ScoreSample(item)
<1> DEFINE shown == "token_f1_overlap"
           alias == "semantic_similarity"
<1>1. Scorers = {shown, alias}
  BY DEF Scorers
<1>2. \A e : ScoreOf(item, e) \in {NoValue, item.score}
  BY DEF ScoreOf
<1>3. CASE shown \notin DOMAIN item.results
  BY <1>1, <1>2, <1>3 DEF DisplayScore, ScoreSample
<1>4. CASE shown \in DOMAIN item.results /\ ScoreOf(item, shown) # NoValue
  BY <1>1, <1>2, <1>4 DEF DisplayScore, ScoreSample
<1>5. CASE shown \in DOMAIN item.results /\ ScoreOf(item, shown) = NoValue
  <2>1. DisplayScore(item) = NoValue
    BY <1>5 DEF DisplayScore
  <2>2. alias \in DOMAIN item.results => ScoreOf(item, alias) = NoValue
    BY <1>1, <1>5 DEF ScoreOf, OnlyAliasScored
  <2> QED BY <1>1, <1>5, <2>1, <2>2 DEF ScoreSample
<1> QED BY <1>3, <1>4, <1>5

LEMMA SameSample ==
  ASSUME NEW item \in Item, NEW m \in Metrics,
         m = "semantic_similarity" => ~ OnlyAliasScored(item)
  PROVE  DisplaySample(m, item) = SampleOf(m, item)
BY SamePass, SameScore DEF DisplaySample, SampleOf, Metrics

LEMMA RunRowIsStatistic ==
  ASSUME NEW run \in Runs, NEW m \in Metrics,
         m = "semantic_similarity" => \A c \in DOMAIN run.items : ~ OnlyAliasScored(run.items[c])
  PROVE  RunRow(run, m) = Statistic(m, Samples(run, m))
<1> DEFINE shown == {c \in DOMAIN run.items : DisplaySample(m, run.items[c]) # NoValue}
           sampled == {c \in DOMAIN run.items : SampleOf(m, run.items[c]) # NoValue}
<1>1. \A c \in DOMAIN run.items : run.items[c] \in Item
  BY ComparisonAssumption DEF IsRun
<1>2. \A c \in DOMAIN run.items : DisplaySample(m, run.items[c]) = SampleOf(m, run.items[c])
  BY <1>1, SameSample
<1>3. shown = sampled
  BY <1>2
<1>4. [c \in shown |-> DisplaySample(m, run.items[c])] = [c \in sampled |-> SampleOf(m, run.items[c])]
  BY <1>2, <1>3
<1> QED BY <1>4 DEF RunRow, Samples

\* The report has a delta of the two runs for each metric.
LEMMA ReportedDelta ==
  ASSUME ReportInv, phase = "stored", NEW m \in Metrics
  PROVE  report[m] \in MetricDeltas(m, Samples(baseline, m), Samples(candidate, m))
BY DEF ReportInv, MetricReports, Metrics

LEMMA ReportInvRows == ReportInv => RunRowsExplainDeltas
<1> SUFFICES ASSUME ReportInv, phase = "stored", NEW m \in Metrics,
                    m = "semantic_similarity" =>
                      \A run \in {baseline, candidate} :
                        \A c \in DOMAIN run.items : ~ OnlyAliasScored(run.items[c])
             PROVE  RunRow(candidate, m) - RunRow(baseline, m) = report[m].point
  BY DEF RunRowsExplainDeltas
<1>1. report[m].point = Statistic(m, Samples(candidate, m)) - Statistic(m, Samples(baseline, m))
  <2>1. \A b, c : \A d \in MetricDeltas(m, b, c) : d.point = Statistic(m, c) - Statistic(m, b)
    BY DEF MetricDeltas
  <2> QED BY <2>1, ReportedDelta
<1> QED BY <1>1, RunRowIsStatistic DEF ReportInv

\* For any two stored runs, the run rows the dashboard computes by its own code
\* differ by exactly the delta the comparison gated, but for the similarity of runs
\* of which a case was scored under the alias alone.
THEOREM RowsExplainDeltas == Spec => []RunRowsExplainDeltas
BY ReportInvInit, ReportInvStep, ReportInvRows, PTL DEF Spec
-----------------------------------------------------------------------------
(* Induction over the naturals, for the sets {n \in Nat : ...}             *)

LEMMA LeastNat ==
  ASSUME NEW T \in SUBSET Nat, T # {}
  PROVE  \E m \in T : \A n \in T : m <= n
<1>1. PICK m \in T : \A n \in T : ~ (<<n, m>> \in OpToRel(<, Nat))
  BY NatLessThanWellFounded, WFMin
<1>2. \A n \in T : n < m => <<n, m>> \in OpToRel(<, Nat)
  BY DEF OpToRel
<1>3. \A n \in T : m \in Nat /\ n \in Nat /\ ~ (n < m)
  BY <1>1, <1>2
<1>4. \A n \in T : m <= n
  BY <1>3
<1> QED BY <1>4

LEMMA SetInduction ==
  ASSUME NEW T \in SUBSET Nat, 0 \in T, \A n \in T : n + 1 \in T
  PROVE  T = Nat
<1> SUFFICES ASSUME Nat \ T # {} PROVE FALSE
  OBVIOUS
<1>1. PICK m \in Nat \ T : \A n \in Nat \ T : m <= n
  BY LeastNat
<1>2. m - 1 \in Nat /\ m - 1 \notin Nat \ T
  BY <1>1
<1>3. (m - 1) + 1 = m
  BY <1>1
<1> QED BY <1>1, <1>2, <1>3

\* One element less: the step of an induction over the size of a finite set.
LEMMA OneLess ==
  ASSUME NEW S, IsFiniteSet(S), NEW n \in Nat, Cardinality(S) <= n + 1, NEW x \in S
  PROVE  IsFiniteSet(S \ {x}) /\ Cardinality(S \ {x}) <= n
<1>1. Cardinality(S) \in Nat
  BY FS_CardinalityType
<1>2. IsFiniteSet(S \ {x}) /\ Cardinality(S \ {x}) = Cardinality(S) - 1
  BY FS_RemoveElement
<1> QED BY <1>1, <1>2

\* A finite set of integers has a least and a greatest element.
LEMMA Extremes ==
  ASSUME NEW S \in SUBSET Int, IsFiniteSet(S), S # {}
  PROVE  /\ \E x \in S : \A y \in S : x <= y
         /\ \E x \in S : \A y \in S : x >= y
<1> DEFINE Has(R) == /\ \E x \in R : \A y \in R : x <= y
                     /\ \E x \in R : \A y \in R : x >= y
           T == {n \in Nat : \A R \in SUBSET Int :
                   IsFiniteSet(R) /\ R # {} /\ Cardinality(R) <= n => Has(R)}
<1>1. 0 \in T
  <2> SUFFICES ASSUME NEW R \in SUBSET Int, IsFiniteSet(R), R # {}, Cardinality(R) <= 0 PROVE Has(R)
    OBVIOUS
  <2>1. Cardinality(R) \in Nat
    BY FS_CardinalityType
  <2>2. Cardinality(R) = 0
    BY <2>1
  <2> QED BY <2>2, FS_EmptySet
<1>2. ASSUME NEW n \in T PROVE n + 1 \in T
  <2> SUFFICES ASSUME NEW R \in SUBSET Int, IsFiniteSet(R), R # {}, Cardinality(R) <= n + 1
               PROVE  Has(R)
    OBVIOUS
  <2>1. PICK x \in R : TRUE
    OBVIOUS
  <2> DEFINE Q == R \ {x}
  <2>2. Q \in SUBSET Int /\ IsFiniteSet(Q) /\ Cardinality(Q) <= n
    BY OneLess
  <2>3. CASE Q = {}
    <3>1. x \in Int /\ \A y \in R : y = x
      BY <2>1, <2>3
    <3>2. \A y \in R : x <= y /\ x >= y
      BY <3>1
    <3> QED BY <2>1, <3>2
  <2>4. CASE Q # {}
    <3>1. Has(Q)
      BY <2>2, <2>4
    <3>2. PICK a \in Q : \A y \in Q : a <= y
      BY <3>1
    <3>3. PICK b \in Q : \A y \in Q : b >= y
      BY <3>1
    <3>4. R = Q \cup {x} /\ x \in Int /\ a \in Int /\ b \in Int /\ Q \subseteq Int
      BY <2>1
    <3> HIDE DEF Q
    <3>5. \E z \in R : \A y \in R : z <= y
      <4>1. CASE x <= a
        <5>1. \A y \in R : x <= y
          BY <3>2, <3>4, <4>1
        <5> QED BY <2>1, <5>1
      <4>2. CASE ~ (x <= a)
        <5>1. \A y \in R : a <= y
          BY <3>2, <3>4, <4>2
        <5> QED BY <3>4, <5>1
      <4> QED BY <4>1, <4>2
    <3>6. \E z \in R : \A y \in R : z >= y
      <4>1. CASE x >= b
        <5>1. \A y \in R : x >= y
          BY <3>3, <3>4, <4>1
        <5> QED BY <2>1, <5>1
      <4>2. CASE ~ (x >= b)
        <5>1. \A y \in R : b >= y
          BY <3>3, <3>4, <4>2
        <5> QED BY <3>4, <5>1
      <4> QED BY <4>1, <4>2
    <3> QED BY <3>5, <3>6
  <2> QED BY <2>3, <2>4
<1>3. T = Nat
  <2> HIDE DEF T
  <2>1. T \in SUBSET Nat
    BY DEF T
  <2> QED BY <1>1, <1>2, <2>1, SetInduction
<1>4. Cardinality(S) \in T
  BY <1>3, FS_CardinalityType
<1>5. Cardinality(S) <= Cardinality(S)
  BY FS_CardinalityType
<1> QED BY <1>4, <1>5
-----------------------------------------------------------------------------
(* Sums.  SumFunction adds up, one subset of its domain after the other,   *)
(* the value at an element it picks of the subset.                         *)

PickOne(s) == CHOOSE x \in s : TRUE
Accumulates(f, sum) ==
  sum = [s \in SUBSET DOMAIN f |-> IF s = {} THEN 0 ELSE f[PickOne(s)] + sum[s \ {PickOne(s)}]]

\* The partial sums of a function on a finite domain exist ...
LEMMA PartialSums ==
  ASSUME NEW D, IsFiniteSet(D), NEW f \in [D -> Int]
  PROVE  \E sum : Accumulates(f, sum)
<1> DEFINE Rest(s) == s \ {PickOne(s)}
           Step(g) == [s \in SUBSET D |-> IF s = {} THEN 0 ELSE f[PickOne(s)] + g[Rest(s)]]
           Good(n, g) == \A s \in SUBSET D : Cardinality(s) <= n => g[s] = Step(g)[s]
           T == {n \in Nat : \E g \in [SUBSET D -> Int] : Good(n, g)}
<1>1. \A s \in SUBSET D : s # {} => PickOne(s) \in s
  BY DEF PickOne
<1>2. \A s \in SUBSET D : IsFiniteSet(s) /\ Cardinality(s) \in Nat /\ Cardinality(s) <= Cardinality(D)
  BY FS_Subset, FS_CardinalityType
<1>3. 0 \in T
  <2> DEFINE g == [s \in SUBSET D |-> 0]
  <2>1. g \in [SUBSET D -> Int]
    OBVIOUS
  <2>2. Good(0, g)
    <3> SUFFICES ASSUME NEW s \in SUBSET D, Cardinality(s) <= 0 PROVE g[s] = Step(g)[s]
      OBVIOUS
    <3>1. s = {}
      BY <1>2, FS_EmptySet
    <3> QED BY <3>1
  <2> HIDE DEF g, Good
  <2> QED BY <2>1, <2>2
<1>4. ASSUME NEW n \in T PROVE n + 1 \in T
  <2>1. PICK g \in [SUBSET D -> Int] : Good(n, g)
    OBVIOUS
  <2> DEFINE h == Step(g)
  <2>2. h \in [SUBSET D -> Int]
    BY <1>1
  <2>3. Good(n + 1, h)
    <3> SUFFICES ASSUME NEW s \in SUBSET D, Cardinality(s) <= n + 1, s # {} PROVE h[s] = Step(h)[s]
      OBVIOUS
    <3>1. Rest(s) \in SUBSET D /\ Cardinality(Rest(s)) <= n
      BY <1>1, <1>2, OneLess
    <3>2. g[Rest(s)] = h[Rest(s)]
      BY <2>1, <3>1
    <3> QED BY <3>2
  <2>4. n + 1 \in Nat
    OBVIOUS
  <2> HIDE DEF h, Good
  <2> QED BY <2>2, <2>3, <2>4
<1>5. T = Nat
  <2>1. T \in SUBSET Nat
    OBVIOUS
  <2> HIDE DEF T
  <2> QED BY <1>3, <1>4, <2>1, SetInduction
<1>6. PICK g \in [SUBSET D -> Int] : Good(Cardinality(D), g)
  BY <1>5, FS_CardinalityType
<1>7. \A s \in SUBSET D : g[s] = Step(g)[s]
  BY <1>2, <1>6
<1>8. g = Step(g)
  BY <1>7
<1>9. DOMAIN f = D
  OBVIOUS
<1> QED BY <1>8, <1>9 DEF Accumulates

\* ... and the last of them is the sum.
LEMMA SumIsPartialSum ==
  ASSUME NEW D, IsFiniteSet(D), NEW f \in [D -> Int]
  PROVE  \E sum : Accumulates(f, sum) /\ SumFunction(f) = sum[D]
<1> DEFINE Sum == CHOOSE sum : Accumulates(f, sum)
<1>1. Accumulates(f, Sum)
  BY PartialSums
<1>2. SumFunction(f) = Sum[DOMAIN f]
  BY DEF SumFunction, SumFunctionOnSet, FoldFunctionOnSet, MapThenFoldSet, Accumulates, PickOne
<1> HIDE DEF Sum
<1> QED BY <1>1, <1>2

\* Sums of integers are integers, and grow with the terms.
LEMMA SumsAreMonotone ==
  ASSUME NEW D, IsFiniteSet(D), NEW f \in [D -> Int], NEW g \in [D -> Int],
         \A x \in D : f[x] <= g[x]
  PROVE  SumFunction(f) \in Int /\ SumFunction(g) \in Int /\ SumFunction(f) <= SumFunction(g)
<1>1. PICK F : Accumulates(f, F) /\ SumFunction(f) = F[D]
  BY SumIsPartialSum
<1>2. PICK G : Accumulates(g, G) /\ SumFunction(g) = G[D]
  BY SumIsPartialSum
<1> DEFINE Holds(s) == F[s] \in Int /\ G[s] \in Int /\ F[s] <= G[s]
           T == {n \in Nat : \A s \in SUBSET D : Cardinality(s) <= n => Holds(s)}
<1>3. \A s \in SUBSET D : IsFiniteSet(s) /\ Cardinality(s) \in Nat
  BY FS_Subset, FS_CardinalityType
<1>4. Holds({})
  BY <1>1, <1>2 DEF Accumulates
<1>5. ASSUME NEW s \in SUBSET D, s # {}, Holds(s \ {PickOne(s)}) PROVE Holds(s)
  <2>1. PickOne(s) \in D
    BY <1>5 DEF PickOne
  <2>2. F[s] = f[PickOne(s)] + F[s \ {PickOne(s)}]
    BY <1>1, <1>5 DEF Accumulates
  <2>3. G[s] = g[PickOne(s)] + G[s \ {PickOne(s)}]
    BY <1>2, <1>5 DEF Accumulates
  <2> QED BY <1>5, <2>1, <2>2, <2>3
<1>6. 0 \in T
  BY <1>3, <1>4, FS_EmptySet
<1>7. ASSUME NEW n \in T PROVE n + 1 \in T
  <2> HIDE DEF Holds
  <2> SUFFICES ASSUME NEW s \in SUBSET D, Cardinality(s) <= n + 1, s # {} PROVE Holds(s)
    BY <1>4
  <2>1. PickOne(s) \in s
    BY DEF PickOne
  <2>2. s \ {PickOne(s)} \in SUBSET D /\ Cardinality(s \ {PickOne(s)}) <= n
    BY <1>3, <2>1, OneLess
  <2>3. Holds(s \ {PickOne(s)})
    BY <2>2
  <2> QED BY <1>5, <2>3
<1>8. T = Nat
  <2>1. T \in SUBSET Nat
    OBVIOUS
  <2> HIDE DEF T
  <2> QED BY <1>6, <1>7, <2>1, SetInduction
<1>9. Holds(D)
  <2>1. Cardinality(D) \in T /\ Cardinality(D) <= Cardinality(D)
    BY <1>8, FS_CardinalityType
  <2> HIDE DEF Holds
  <2> QED BY <2>1
<1> QED BY <1>1, <1>2, <1>9
-----------------------------------------------------------------------------
(* Statistics of samples                                                   *)

LEMMA DivMonotone ==
  ASSUME NEW a \in Int, NEW b \in Int, NEW k \in Nat, k > 0, a <= b
  PROVE  a \div k \in Int /\ b \div k \in Int /\ a \div k <= b \div k
<1> DEFINE p == a \div k
           q == b \div k
<1>1. p \in Int /\ q \in Int /\ k * p <= a /\ b < k * (q + 1)
  OBVIOUS
<1>2. k * p < k * (q + 1)
  BY <1>1
<1> HIDE DEF p, q
<1>3. p < q + 1
  BY <1>1, <1>2
<1> QED BY <1>1, <1>3 DEF p, q

LEMMA AverageMonotone ==
  ASSUME NEW D, IsFiniteSet(D), NEW f \in [D -> Int], NEW g \in [D -> Int],
         \A x \in D : f[x] <= g[x]
  PROVE  Average(f) \in Int /\ Average(g) \in Int /\ Average(f) <= Average(g)
<1>1. DOMAIN f = D /\ DOMAIN g = D
  OBVIOUS
<1>2. CASE D = {}
  BY <1>1, <1>2 DEF Average
<1>3. CASE D # {}
  <2>1. SumFunction(f) \in Int /\ SumFunction(g) \in Int /\ SumFunction(f) <= SumFunction(g)
    BY SumsAreMonotone
  <2>2. Cardinality(D) \in Nat /\ Cardinality(D) > 0
    BY <1>3, FS_CardinalityType, FS_EmptySet
  <2>3. SumFunction(f) * Scale \in Int /\ SumFunction(g) * Scale \in Int
          /\ SumFunction(f) * Scale <= SumFunction(g) * Scale
    BY <2>1 DEF Scale
  <2>4. Average(f) = (SumFunction(f) * Scale) \div Cardinality(D)
          /\ Average(g) = (SumFunction(g) * Scale) \div Cardinality(D)
    BY <1>1, <1>3 DEF Average
  <2> QED BY <2>2, <2>3, <2>4, DivMonotone
<1> QED BY <1>2, <1>3

\* The image of a finite set is finite.
LEMMA FiniteRange ==
  ASSUME NEW D, IsFiniteSet(D), NEW f, DOMAIN f = D
  PROVE  IsFiniteSet({f[x] : x \in D})
<1> DEFINE R == {f[x] : x \in D}
           g == [x \in D |-> f[x]]
<1>1. g \in Surjection(D, R)
  BY DEF Surjection
<1> QED BY <1>1, FS_Surjection

\* There is a k-th smallest sample, for each k below their number.
LEMMA OrderedExists ==
  ASSUME NEW D, IsFiniteSet(D), NEW f \in [D -> Int], NEW k \in Nat, k < Cardinality(D)
  PROVE  Ordered(f, k) \in Int
<1> DEFINE Below(v) == {c \in D : f[c] < v}
           UpTo(v) == {c \in D : f[c] <= v}
           R == {f[c] : c \in D}
           V == {v \in R : k < Cardinality(UpTo(v))}
<1>1. IsFiniteSet(R) /\ R \in SUBSET Int /\ R # {}
  BY FiniteRange, FS_EmptySet
<1>2. PICK top \in R : \A y \in R : top >= y
  <2> HIDE DEF R
  <2> QED BY <1>1, Extremes
<1>3. UpTo(top) = D
  BY <1>2
<1>4. top \in V
  BY <1>3
<1>5. IsFiniteSet(V) /\ V \in SUBSET Int
  BY <1>1, FS_Subset
<1>6. PICK v \in V : \A y \in V : v <= y
  <2> HIDE DEF V
  <2> QED BY <1>4, <1>5, Extremes
<1>7. Cardinality(Below(v)) <= k
  <2> SUFFICES ASSUME ~ (Cardinality(Below(v)) <= k) PROVE FALSE
    OBVIOUS
  <2>1. IsFiniteSet(Below(v)) /\ Cardinality(Below(v)) \in Nat
    BY FS_Subset, FS_CardinalityType
  <2>2. k < Cardinality(Below(v))
    BY <2>1
  <2>3. Below(v) # {}
    BY <2>2, FS_EmptySet
  <2> DEFINE W == {f[c] : c \in Below(v)}
  <2>4. W \in SUBSET Int /\ W # {} /\ W \in SUBSET R
    BY <2>3
  <2>5. IsFiniteSet(W)
    BY <1>1, <2>4, FS_Subset
  <2>6. PICK w \in W : \A y \in W : w >= y
    <3> HIDE DEF W
    <3> QED BY <2>4, <2>5, Extremes
  <2>7. w < v /\ w \in Int /\ v \in Int /\ w \in R
    BY <2>4, <2>6, <1>5
  <2>8. UpTo(w) = Below(v)
    <3>1. ASSUME NEW c \in D PROVE f[c] <= w <=> f[c] < v
      <4>1. f[c] < v => f[c] \in W
        OBVIOUS
      <4>2. f[c] \in Int
        OBVIOUS
      <4> HIDE DEF W
      <4> QED BY <2>6, <2>7, <4>1, <4>2
    <3> QED BY <3>1
  <2>9. w \in V
    BY <2>2, <2>7, <2>8
  <2>10. v <= w
    BY <1>6, <2>9
  <2> QED BY <2>7, <2>10
<1>8. v \in Range(f) /\ DOMAIN f = D
  BY <1>6 DEF Range
<1>9. Cardinality(Below(v)) <= k /\ k < Cardinality(UpTo(v))
  BY <1>6, <1>7
<1>10. Ordered(f, k) \in Range(f)
  BY <1>8, <1>9 DEF Ordered
<1> QED BY <1>10 DEF Range

LEMMA StatisticIsInt ==
  ASSUME NEW D, IsFiniteSet(D), NEW f \in [D -> Int], NEW m
  PROVE  Statistic(m, f) \in Int
<1>1. Average(f) \in Int
  BY AverageMonotone
<1>2. Percentile95(f) \in Int
  <2> DEFINE n == Cardinality(D)
             rank == (n - 1) * 95
             lower == rank \div 100
             upper == IF lower + 1 < n THEN lower + 1 ELSE lower
  <2>1. DOMAIN f = D
    OBVIOUS
  <2>2. CASE D = {}
    BY <2>1, <2>2 DEF Percentile95
  <2>3. CASE D # {}
    <3>1. n \in Nat /\ n > 0
      BY <2>3, FS_CardinalityType, FS_EmptySet
    <3>2. rank \in Nat /\ lower \in Nat /\ lower < n
      <4> HIDE DEF n
      <4> QED BY <3>1
    <3>3. upper \in Nat /\ upper < n
      BY <3>1, <3>2
    <3>4. Ordered(f, lower) \in Int /\ Ordered(f, upper) \in Int
      <4> HIDE DEF lower, upper
      <4> QED BY <3>2, <3>3, OrderedExists
    <3>5. rank % 100 \in Int /\ Scale \div 100 \in Int /\ Scale \in Int
      <4> HIDE DEF rank
      <4> QED BY <3>2 DEF Scale
    <3>6. Percentile95(f) = Ordered(f, lower) * Scale
            + (Ordered(f, upper) - Ordered(f, lower)) * (rank % 100) * (Scale \div 100)
      BY <2>1, <2>3 DEF Percentile95
    <3> HIDE DEF lower, upper, rank
    <3> QED BY <3>4, <3>5, <3>6
  <2> QED BY <2>2, <2>3
<1> QED BY <1>1, <1>2 DEF Statistic

\* There are finitely many ways to draw from finitely many cases.
LEMMA FiniteDraws ==
  ASSUME NEW P, IsFiniteSet(P)
  PROVE  IsFiniteSet([P -> P])
<1> DEFINE graph == [d \in [P -> P] |-> {<<i, d[i]>> : i \in P}]
<1>1. IsFiniteSet(P \X P)
  BY FS_Product
<1>2. IsFiniteSet(SUBSET (P \X P))
  BY <1>1, FS_SUBSET
<1>3. graph \in [[P -> P] -> SUBSET (P \X P)]
  OBVIOUS
<1>4. ASSUME NEW d \in [P -> P], NEW e \in [P -> P], graph[d] = graph[e] PROVE d = e
  <2>1. \A i \in P : <<i, d[i]>> \in graph[e]
    BY <1>4
  <2>2. \A i \in P : d[i] = e[i]
    BY <2>1
  <2> QED BY <2>2
<1>5. graph \in Injection([P -> P], SUBSET (P \X P))
  <2> HIDE DEF graph
  <2> QED BY <1>3, <1>4 DEF Injection, IsInjective
<1> QED BY <1>2, <1>5, FS_Injection
-----------------------------------------------------------------------------
(* Deltas of two runs                                                      *)

LEMMA SampleType ==
  ASSUME NEW item \in Item, NEW m \in Metrics, SampleOf(m, item) # NoValue
  PROVE  SampleOf(m, item) \in Int
BY DEF SampleOf, PassSample, ScoreSample, ScoreOf, Item, Metrics

LEMMA SamplesType ==
  ASSUME NEW run \in Runs, NEW m \in Metrics
  PROVE  /\ IsFiniteSet(DOMAIN Samples(run, m))
         /\ Samples(run, m) \in [DOMAIN Samples(run, m) -> Int]
<1>1. DOMAIN run.items \subseteq Cases /\ \A c \in DOMAIN run.items : run.items[c] \in Item
  BY ComparisonAssumption DEF IsRun
<1>2. DOMAIN Samples(run, m) \in SUBSET Cases
  BY <1>1 DEF Samples
<1>3. IsFiniteSet(DOMAIN Samples(run, m))
  BY <1>2, FS_Subset, ComparisonAssumption
<1>4. Samples(run, m) \in [DOMAIN Samples(run, m) -> Int]
  BY <1>1, SampleType DEF Samples
<1> QED BY <1>3, <1>4

\* What the bootstrap draws of a run.
Drawn(f, P, d) == [i \in P |-> f[d[i]]]

LEMMA EstimateType ==
  ASSUME NEW D, IsFiniteSet(D), NEW f \in [D -> Int], NEW P \in SUBSET D, NEW d \in [P -> P], NEW m
  PROVE  Statistic(m, Drawn(f, P, d)) \in Int
<1>1. IsFiniteSet(P)
  BY FS_Subset
<1>2. Drawn(f, P, d) \in [P -> Int]
  BY DEF Drawn
<1> QED BY <1>1, <1>2, StatisticIsInt

LEMMA EstimatesType ==
  ASSUME NEW B, IsFiniteSet(B), NEW b \in [B -> Int], NEW C, IsFiniteSet(C), NEW c \in [C -> Int], NEW m
  PROVE  /\ DeltaEstimates(m, b, c) \in SUBSET Int
         /\ IsFiniteSet(DeltaEstimates(m, b, c))
         /\ DeltaEstimates(m, b, c) # {}
<1> DEFINE P == B \cap C
           delta == [d \in [P -> P] |-> Statistic(m, Drawn(c, P, d)) - Statistic(m, Drawn(b, P, d))]
<1>1. P \in SUBSET B /\ P \in SUBSET C /\ DOMAIN b \cap DOMAIN c = P /\ IsFiniteSet(P)
  BY FS_Intersection
<1>2. DeltaEstimates(m, b, c) =
        {Statistic(m, Drawn(c, P, d)) - Statistic(m, Drawn(b, P, d)) : d \in [P -> P]}
  BY <1>1 DEF DeltaEstimates, Drawn
<1>3. DeltaEstimates(m, b, c) = {delta[d] : d \in [P -> P]}
  BY <1>2
<1>4. \A d \in [P -> P] : delta[d] \in Int
  BY <1>1, EstimateType
<1>5. [i \in P |-> i] \in [P -> P]
  OBVIOUS
<1>6. IsFiniteSet([P -> P])
  BY <1>1, FiniteDraws
<1>7. DOMAIN delta = [P -> P]
  OBVIOUS
<1> HIDE DEF P, delta
<1>8. IsFiniteSet({delta[d] : d \in [P -> P]})
  BY <1>6, <1>7, FiniteRange
<1> QED BY <1>3, <1>4, <1>5, <1>8

\* A run's delta to itself is nothing, and certain, whatever was drawn.
LEMMA NoDelta ==
  ASSUME NEW B, IsFiniteSet(B), NEW b \in [B -> Int], NEW m, NEW delta \in MetricDeltas(m, b, b)
  PROVE  delta = [lower |-> 0, upper |-> 0, point |-> 0]
<1>1. DeltaEstimates(m, b, b) = {0}
  <2>1. DeltaEstimates(m, b, b) =
          {Statistic(m, Drawn(b, B, d)) - Statistic(m, Drawn(b, B, d)) : d \in [B -> B]}
    BY DEF DeltaEstimates, Drawn
  <2>2. \A d \in [B -> B] : Statistic(m, Drawn(b, B, d)) \in Int
    BY EstimateType
  <2>3. \A d \in [B -> B] : Statistic(m, Drawn(b, B, d)) - Statistic(m, Drawn(b, B, d)) = 0
    BY <2>2
  <2>4. DeltaEstimates(m, b, b) # {}
    BY EstimatesType
  <2> QED BY <2>1, <2>3, <2>4
<1>2. Statistic(m, b) - Statistic(m, b) = 0
  BY StatisticIsInt
<1>3. \E i \in Intervals({0}, B) : delta = [lower |-> i[1], upper |-> i[2], point |-> 0]
  BY <1>1, <1>2 DEF MetricDeltas
<1>4. \A i \in Intervals({0}, B) : i[1] = 0 /\ i[2] = 0
  BY DEF Intervals
<1> QED BY <1>3, <1>4

\* Of a metric sampled in the same few cases of both runs, the interval holds the
\* point delta: the point is one of the estimates, each case drawn once.
LEMMA PointWithin ==
  ASSUME NEW B, IsFiniteSet(B), NEW b \in [B -> Int], NEW c \in [B -> Int], NEW m,
         NEW delta \in MetricDeltas(m, b, c), Cardinality(B) <= Exhaustive
  PROVE  delta \in Deltas /\ delta.lower <= delta.point /\ delta.point <= delta.upper
<1> DEFINE estimates == IF B # {} THEN DeltaEstimates(m, b, c) ELSE {0}
           point == Statistic(m, c) - Statistic(m, b)
<1>1. PICK i \in Intervals(estimates, B) :
        delta = [lower |-> i[1], upper |-> i[2], point |-> point]
  <2>1. DOMAIN b \cap DOMAIN c = B
    OBVIOUS
  <2> QED BY <2>1 DEF MetricDeltas
<1>2. estimates \in SUBSET Int
  <2>1. DeltaEstimates(m, b, c) \in SUBSET Int
    BY EstimatesType
  <2> QED BY <2>1
<1>3. point \in Int
  BY StatisticIsInt
<1>4. point \in estimates
  <2>1. CASE B = {}
    <3>1. Statistic(m, c) = 0 /\ Statistic(m, b) = 0
      BY <2>1 DEF Statistic, Average, Percentile95
    <3> QED BY <2>1, <3>1
  <2>2. CASE B # {}
    <3> DEFINE each == [x \in B |-> x]
    <3>1. each \in [B -> B]
      OBVIOUS
    <3>2. Drawn(c, B, each) = c /\ Drawn(b, B, each) = b
      BY DEF Drawn
    <3>3. DeltaEstimates(m, b, c) =
            {Statistic(m, Drawn(c, B, d)) - Statistic(m, Drawn(b, B, d)) : d \in [B -> B]}
      BY DEF DeltaEstimates, Drawn
    <3> HIDE DEF each
    <3>4. point \in DeltaEstimates(m, b, c)
      BY <3>1, <3>2, <3>3
    <3> QED BY <2>2, <3>4
  <2> QED BY <2>1, <2>2
<1> HIDE DEF estimates, point
<1>5. i[1] \in Int /\ i[2] \in Int /\ i[1] <= i[2]
  BY <1>2 DEF Intervals
<1>6. i[1] <= point /\ point <= i[2]
  BY <1>4 DEF Intervals
<1> QED BY <1>1, <1>3, <1>5, <1>6 DEF Deltas

\* The verdict of a rule is of the delta of the two runs.
LEMMA StoredDelta ==
  ASSUME LoopInv, ReportInv, phase = "stored", NEW j \in 1 .. Len(rules)
  PROVE  /\ rules[j].metric \in Metrics /\ rules[j].direction \in Directions
         /\ rules[j].tolerance * Scale \in Nat
         /\ baseline \in Runs /\ candidate \in Runs
         /\ report[rules[j].metric] \in
              MetricDeltas(rules[j].metric, Samples(baseline, rules[j].metric),
                           Samples(candidate, rules[j].metric))
<1>1. ValidRules(rules) /\ rules \in Seq(Rule)
  BY DEF LoopInv
<1>2. rules[j].metric \in Metrics /\ rules[j].direction \in Directions /\ rules[j].tolerance >= 0
  BY <1>1 DEF ValidRules
<1>3. rules[j].tolerance \in Int
  <2>1. rules[j] \in Rule
    BY <1>1
  <2> QED BY <2>1 DEF Rule
<1>4. rules[j].tolerance * Scale \in Nat
  BY <1>2, <1>3 DEF Scale
<1> QED BY <1>2, <1>4, ReportedDelta DEF ReportInv

LEMMA LoopInvSameSamples == LoopInv /\ ReportInv => SameSamplesPass
<1> SUFFICES ASSUME LoopInv, ReportInv, phase = "stored",
                    \A j \in 1 .. Len(rules) :
                      Samples(baseline, rules[j].metric) = Samples(candidate, rules[j].metric)
             PROVE  verdict = "pass"
  BY DEF SameSamplesPass
<1>1. ASSUME NEW j \in 1 .. Len(rules) PROVE VerdictOf(j) = "pass"
  <2> DEFINE t == rules[j].tolerance * Scale
             m == rules[j].metric
  <2>1. t \in Nat /\ m \in Metrics
    BY StoredDelta
  <2>2. report[m] = [lower |-> 0, upper |-> 0, point |-> 0]
    BY StoredDelta, SamplesType, NoDelta
  <2>3. VerdictOf(j) = MetricVerdict(rules[j].direction, t, [lower |-> 0, upper |-> 0, point |-> 0])
    BY <2>2 DEF VerdictOf
  <2> HIDE DEF t, m
  <2> QED BY <2>1, <2>3 DEF MetricVerdict, Normalized, Mirror
<1>2. verdict = WorstOf({VerdictOf(j) : j \in 1 .. Len(rules)})
  BY DEF LoopInv, Seen
<1> QED BY <1>1, <1>2 DEF WorstOf

\* Whatever the runs and the rules, a candidate with its baseline's samples passes.
THEOREM SameSamplesAlwaysPass == Spec => []SameSamplesPass
BY LoopInvInit, LoopInvStep, ReportInvInit, ReportInvStep, LoopInvSameSamples, PTL DEF Spec

LEMMA LoopInvFail == LoopInv /\ ReportInv => FailMeansRegressed
<1> SUFFICES ASSUME LoopInv, ReportInv, phase = "stored", NEW j \in 1 .. Len(rules),
                    VerdictOf(j) = "fail",
                    DOMAIN Samples(baseline, rules[j].metric)
                      = DOMAIN Samples(candidate, rules[j].metric),
                    Cardinality(DOMAIN Samples(baseline, rules[j].metric)) <= Exhaustive
             PROVE  Normalized(rules[j].direction, report[rules[j].metric]).point
                      < -(rules[j].tolerance * Scale)
  BY DEF FailMeansRegressed
<1> DEFINE t == rules[j].tolerance * Scale
           delta == report[rules[j].metric]
<1>1. t \in Nat
  BY StoredDelta
<1>2. delta \in Deltas /\ delta.lower <= delta.point /\ delta.point <= delta.upper
  BY StoredDelta, SamplesType, PointWithin
<1>3. delta.lower \in Int /\ delta.upper \in Int /\ delta.point \in Int
  BY <1>2 DEF Deltas
<1>4. MetricVerdict(rules[j].direction, t, delta) = "fail"
  BY DEF VerdictOf
<1> HIDE DEF t, delta
<1>5. Normalized(rules[j].direction, delta).upper < -t
  BY <1>4 DEF MetricVerdict
<1>6. Normalized(rules[j].direction, delta).point < -t
  BY <1>1, <1>2, <1>3, <1>5 DEF Normalized, Mirror
<1> QED BY <1>6 DEF t, delta

\* Whatever the samples and the rules, a metric sampled in the same cases of both runs,
\* few enough for the bootstrap to draw each resample, fails only if its point estimate
\* regressed beyond the tolerance.
THEOREM FailuresAreRegressions == Spec => []FailMeansRegressed
BY LoopInvInit, LoopInvStep, ReportInvInit, ReportInvStep, LoopInvFail, PTL DEF Spec
-----------------------------------------------------------------------------
(* Faults                                                                  *)

\* Each case has a pass sample.
LEMMA PassSamples ==
  ASSUME NEW run
  PROVE  Samples(run, "pass_rate") = [c \in DOMAIN run.items |-> PassSample(run.items[c])]
<1>1. \A item : PassSample(item) \in {0, 100}
  BY DEF PassSample
<1>2. \A item : SampleOf("pass_rate", item) = PassSample(item)
  BY DEF SampleOf
<1>3. \A item : SampleOf("pass_rate", item) # NoValue
  BY <1>1, <1>2, ComparisonAssumption
<1> QED BY <1>2, <1>3 DEF Samples

\* A run over the same cases, each of which passes only if it did before, has no
\* better pass rate.
LEMMA NoCaseBetter ==
  ASSUME NEW run \in Runs, NEW fault, DOMAIN fault.items = DOMAIN run.items,
         \A x \in DOMAIN run.items : PassSample(fault.items[x]) <= PassSample(run.items[x])
  PROVE  Average(Samples(fault, "pass_rate")) <= Average(Samples(run, "pass_rate"))
<1> DEFINE D == DOMAIN run.items
           f == [x \in D |-> PassSample(fault.items[x])]
           g == [x \in D |-> PassSample(run.items[x])]
<1>1. \A item : PassSample(item) \in {0, 100}
  BY DEF PassSample
<1>2. IsFiniteSet(D)
  <2>1. D \in SUBSET Cases
    BY ComparisonAssumption DEF IsRun
  <2> QED BY <2>1, FS_Subset, ComparisonAssumption
<1>3. f \in [D -> Int] /\ g \in [D -> Int] /\ \A x \in D : f[x] <= g[x]
  BY <1>1
<1>4. Samples(fault, "pass_rate") = f /\ Samples(run, "pass_rate") = g
  BY PassSamples
<1> HIDE DEF D, f, g
<1> QED BY <1>2, <1>3, <1>4, AverageMonotone

LEMMA ReportInvFaults == ReportInv => FaultsNeverImprovePassRate
<1> SUFFICES ASSUME ReportInv, NEW run \in EvaluatorFaults(candidate) \cup ExecutionFaults(candidate)
             PROVE  Average(Samples(run, "pass_rate")) <= Average(Samples(candidate, "pass_rate"))
  BY DEF FaultsNeverImprovePassRate
<1> DEFINE D == DOMAIN candidate.items
<1>1. candidate \in Runs /\ IsRun(candidate)
  BY ComparisonAssumption DEF ReportInv
<1>2. candidate \in [status : {"running", "completed", "partial", "failed"}, origin : Origins,
                     items : [D -> Item]]
  BY <1>1 DEF IsRun
<1>3. \A item : PassSample(item) \in {0, 100}
  BY DEF PassSample
<1>4. CASE run \in EvaluatorFaults(candidate)
  <2>0. PICK c \in D : \E e \in DOMAIN candidate.items[c].results :
          run = [candidate EXCEPT !.items[c].results[e] = "errored"]
    BY <1>4 DEF EvaluatorFaults
  <2>1. PICK e \in DOMAIN candidate.items[c].results :
          run = [candidate EXCEPT !.items[c].results[e] = "errored"]
    BY <2>0
  <2> DEFINE item == candidate.items[c]
  <2>2. item \in Item
    BY <1>2
  <2>3. run.items = [candidate.items EXCEPT ![c] =
                       [item EXCEPT !.results = [item.results EXCEPT ![e] = "errored"]]]
    BY <1>2, <2>1
  <2>4. DOMAIN run.items = D /\ \A x \in D \ {c} : run.items[x] = candidate.items[x]
    BY <1>2, <2>3
  <2>5. run.items[c] = [item EXCEPT !.results = [item.results EXCEPT ![e] = "errored"]]
    BY <1>2, <2>3
  <2>6. run.items[c].results = [item.results EXCEPT ![e] = "errored"]
    BY <2>2, <2>5 DEF Item
  <2>7. e \in DOMAIN run.items[c].results /\ run.items[c].results[e] = "errored"
    BY <2>1, <2>6
  <2>8. PassSample(run.items[c]) = 0
    BY <2>7 DEF PassSample
  <2>9. \A x \in D : PassSample(run.items[x]) <= PassSample(candidate.items[x])
    BY <1>3, <2>4, <2>8
  <2> QED BY <1>1, <2>4, <2>9, NoCaseBetter
<1>5. CASE run \in ExecutionFaults(candidate)
  <2> DEFINE crashed == [status |-> "errored", latency |-> NoValue, cost |-> NoValue,
                         score |-> NoValue, results |-> <<>>]
  <2>1. CASE \E c \in D : run = [candidate EXCEPT !.items[c] = crashed]
    <3>1. PICK c \in D : run = [candidate EXCEPT !.items[c] = crashed]
      BY <2>1
    <3>2. run.items = [candidate.items EXCEPT ![c] = crashed]
      BY <1>2, <3>1
    <3>3. DOMAIN run.items = D /\ \A x \in D \ {c} : run.items[x] = candidate.items[x]
      BY <1>2, <3>2
    <3>4. DOMAIN run.items[c].results = {}
      BY <1>2, <3>2
    <3>5. PassSample(run.items[c]) = 0
      BY <3>4 DEF PassSample
    <3>6. \A x \in D : PassSample(run.items[x]) <= PassSample(candidate.items[x])
      BY <1>3, <3>3, <3>5
    <3> QED BY <1>1, <3>3, <3>6, NoCaseBetter
  <2>2. CASE \E c \in D : run = [candidate EXCEPT !.items[c].status = "errored"]
    <3>1. PICK c \in D : run = [candidate EXCEPT !.items[c].status = "errored"]
      BY <2>2
    <3>2. run.items = [candidate.items EXCEPT ![c] = [candidate.items[c] EXCEPT !.status = "errored"]]
      BY <1>2, <3>1
    <3>3. \A x \in D : candidate.items[x] \in Item
      BY <1>2
    <3>4. DOMAIN run.items = D /\ \A x \in D : run.items[x].results = candidate.items[x].results
      BY <3>2, <3>3 DEF Item
    <3>5. \A x \in D : PassSample(run.items[x]) <= PassSample(candidate.items[x])
      <4>1. \A x \in D : PassSample(run.items[x]) = PassSample(candidate.items[x])
        BY <3>4 DEF PassSample
      <4> QED BY <1>3, <4>1
    <3> QED BY <1>1, <3>4, <3>5, NoCaseBetter
  <2> QED BY <1>5, <2>1, <2>2 DEF ExecutionFaults
<1> QED BY <1>4, <1>5

\* For any stored candidate, an evaluator that errors or a case whose execution
\* fails never raises the pass rate.
THEOREM FaultsDoNotImprove == Spec => []FaultsNeverImprovePassRate
BY ReportInvInit, ReportInvStep, ReportInvFaults, PTL DEF Spec
-----------------------------------------------------------------------------
(* Pages, tags and failures                                                *)

\* FlattenSeq joins one sequence after the other.
Joins(S, n, seqs, flat) ==
  /\ flat \in [1 .. n -> Seq(S)]
  /\ flat[1] = seqs[1]
  /\ \A i \in 1 .. n - 1 : flat[i + 1] = flat[i] \o seqs[i + 1]
  /\ FlattenSeq(seqs) = flat[n]

LEMMA FlattenSteps ==
  ASSUME NEW S, NEW n \in Nat, n > 0, NEW seqs \in [1 .. n -> Seq(S)]
  PROVE  \E flat : Joins(S, n, seqs, flat)
<1> DEFINE Step(g) == [i \in 1 .. n |-> IF i = 1 THEN seqs[i] ELSE g[i - 1] \o seqs[i]]
           Good(k, g) == \A i \in 1 .. n : i <= k => g[i] = Step(g)[i]
           T == {k \in Nat : \E g \in [1 .. n -> Seq(S)] : Good(k, g)}
           Flat == CHOOSE flatten : flatten = Step(flatten)
<1>1. ASSUME NEW g \in [1 .. n -> Seq(S)] PROVE Step(g) \in [1 .. n -> Seq(S)]
  <2>1. ASSUME NEW i \in 1 .. n, i # 1 PROVE g[i - 1] \o seqs[i] \in Seq(S)
    <3>1. i - 1 \in 1 .. n
      BY <2>1
    <3>2. g[i - 1] \in Seq(S) /\ seqs[i] \in Seq(S)
      BY <3>1
    <3> QED BY <3>2, ConcatProperties
  <2> QED BY <2>1
<1>2. 0 \in T
  <2>1. Good(0, seqs)
    OBVIOUS
  <2> HIDE DEF Good
  <2> QED BY <2>1
<1>3. ASSUME NEW k \in T PROVE k + 1 \in T
  <2>1. PICK g \in [1 .. n -> Seq(S)] : Good(k, g)
    OBVIOUS
  <2>2. Good(k + 1, Step(g))
    <3> SUFFICES ASSUME NEW i \in 1 .. n, i <= k + 1, i # 1
                 PROVE  Step(g)[i] = Step(g)[i - 1] \o seqs[i]
      OBVIOUS
    <3>1. i - 1 \in 1 .. n /\ i - 1 <= k
      OBVIOUS
    <3>2. g[i - 1] = Step(g)[i - 1]
      BY <2>1, <3>1
    <3>3. Step(g)[i] = g[i - 1] \o seqs[i]
      OBVIOUS
    <3> HIDE DEF Step
    <3> QED BY <3>2, <3>3
  <2>3. Step(g) \in [1 .. n -> Seq(S)] /\ k + 1 \in Nat
    BY <1>1
  <2> HIDE DEF Good, Step
  <2> QED BY <2>2, <2>3
<1>4. T = Nat
  <2>1. T \in SUBSET Nat
    OBVIOUS
  <2> HIDE DEF T
  <2> QED BY <1>2, <1>3, <2>1, SetInduction
<1>5. PICK g \in [1 .. n -> Seq(S)] : Good(n, g)
  BY <1>4
<1>6. g = Step(g)
  <2>1. \A i \in 1 .. n : g[i] = Step(g)[i]
    BY <1>5
  <2>2. Step(g) \in [1 .. n -> Seq(S)]
    BY <1>1
  <2> HIDE DEF Step
  <2> QED BY <2>1, <2>2
<1>7. Flat = Step(Flat)
  <2> HIDE DEF Step
  <2> QED BY <1>6
<1>8. Len(seqs) = n
  OBVIOUS
<1>9. FlattenSeq(seqs) = Flat[n]
  BY <1>8 DEF FlattenSeq
<1> HIDE DEF Flat
<1>10. Flat[1] = seqs[1] /\ \A i \in 1 .. n - 1 : Flat[i + 1] = Flat[i] \o seqs[i + 1]
  <2>1. \A i \in 1 .. n : Step(Flat)[i] = IF i = 1 THEN seqs[i] ELSE Flat[i - 1] \o seqs[i]
    OBVIOUS
  <2> HIDE DEF Step
  <2>2. \A i \in 1 .. n : Flat[i] = IF i = 1 THEN seqs[i] ELSE Flat[i - 1] \o seqs[i]
    BY <1>7, <2>1
  <2>3. Flat[1] = seqs[1]
    BY <2>2
  <2>4. ASSUME NEW i \in 1 .. n - 1 PROVE Flat[i + 1] = Flat[i] \o seqs[i + 1]
    <3>1. i + 1 \in 1 .. n /\ i + 1 # 1 /\ (i + 1) - 1 = i
      OBVIOUS
    <3> QED BY <2>2, <3>1
  <2> QED BY <2>3, <2>4
<1>11. \A i \in 1 .. n : Flat[i] \in Seq(S)
  <2> DEFINE U == {k \in Nat : k + 1 \in 1 .. n => Flat[k + 1] \in Seq(S)}
  <2>1. 0 \in U
    BY <1>10
  <2>2. ASSUME NEW k \in U PROVE k + 1 \in U
    <3> SUFFICES ASSUME (k + 1) + 1 \in 1 .. n PROVE Flat[(k + 1) + 1] \in Seq(S)
      OBVIOUS
    <3>1. k + 1 \in 1 .. n - 1 /\ k + 1 \in 1 .. n
      OBVIOUS
    <3>2. Flat[k + 1] \in Seq(S) /\ seqs[(k + 1) + 1] \in Seq(S)
      BY <3>1
    <3>3. Flat[(k + 1) + 1] = Flat[k + 1] \o seqs[(k + 1) + 1]
      BY <1>10, <3>1
    <3> QED BY <3>2, <3>3, ConcatProperties
  <2>3. U = Nat
    <3>1. U \in SUBSET Nat
      OBVIOUS
    <3> HIDE DEF U
    <3> QED BY <2>1, <2>2, <3>1, SetInduction
  <2> SUFFICES ASSUME NEW i \in 1 .. n PROVE Flat[i] \in Seq(S)
    OBVIOUS
  <2>4. i - 1 \in Nat /\ (i - 1) + 1 = i
    OBVIOUS
  <2>5. i - 1 \in U
    BY <2>3, <2>4
  <2> QED BY <2>4, <2>5
<1>12. Flat = [i \in 1 .. n |-> Flat[i]]
  <2> HIDE DEF Step
  <2>1. Flat = [i \in 1 .. n |-> IF i = 1 THEN seqs[i] ELSE Flat[i - 1] \o seqs[i]]
    BY <1>7 DEF Step
  <2> QED BY <2>1
<1>13. Flat \in [1 .. n -> Seq(S)]
  BY <1>11, <1>12
<1> QED BY <1>9, <1>10, <1>13 DEF Joins

\* Pages of a sequence, one after the other, are the sequence.
PagesOf(s, n, limit) ==
  [p \in 1 .. n |->
     SubSeq(s, (p - 1) * limit + 1,
            IF (p - 1) * limit + limit < Len(s) THEN (p - 1) * limit + limit ELSE Len(s))]

LEMMA PagesJoin ==
  ASSUME NEW S, NEW s \in Seq(S), NEW n \in Nat, n > 0, Len(s) <= n, NEW limit \in Nat, limit > 0
  PROVE  FlattenSeq(PagesOf(s, n, limit)) = s
<1> DEFINE pages == PagesOf(s, n, limit)
           L == Len(s)
           End(k) == IF k < L THEN k ELSE L
<1>1. L \in Nat /\ \A i \in 1 .. L : s[i] \in S
  BY LenProperties
<1>2. \A k \in Nat : End(k) \in 0 .. L
  BY <1>1
<1>3. ASSUME NEW k \in Nat, NEW j \in Nat PROVE SubSeq(s, k + 1, End(j)) \in Seq(S)
  <2>1. \A i \in k + 1 .. End(j) : s[i] \in S
    BY <1>1
  <2>2. k + 1 \in Int /\ End(j) \in Int
    BY <1>1
  <2> HIDE DEF End
  <2> QED BY <2>1, <2>2, SubSeqProperties
<1>4. ASSUME NEW p \in 1 .. n
      PROVE  /\ (p - 1) * limit \in Nat /\ (p - 1) * limit + limit = p * limit /\ p * limit \in Nat
             /\ pages[p] = SubSeq(s, (p - 1) * limit + 1, End(p * limit))
  <2>1. p - 1 \in Nat /\ p \in Nat /\ (p - 1) + 1 = p
    OBVIOUS
  <2>2. (p - 1) * limit \in Nat /\ (p - 1) * limit + limit = p * limit /\ p * limit \in Nat
    BY <2>1
  <2> QED BY <2>2 DEF PagesOf
<1>5. pages \in [1 .. n -> Seq(S)]
  <2>1. \A p \in 1 .. n : pages[p] \in Seq(S)
    BY <1>3, <1>4
  <2> QED BY <2>1 DEF PagesOf
<1> HIDE DEF pages
<1>6. PICK flat : /\ flat \in [1 .. n -> Seq(S)]
                  /\ flat[1] = pages[1]
                  /\ \A i \in 1 .. n - 1 : flat[i + 1] = flat[i] \o pages[i + 1]
                  /\ FlattenSeq(pages) = flat[n]
  <2>1. \E flat : Joins(S, n, pages, flat)
    BY <1>5, FlattenSteps
  <2> QED BY <2>1 DEF Joins
<1>7. ASSUME NEW a \in Nat, NEW b \in Nat, a <= b
      PROVE  SubSeq(s, 1, End(a)) \o SubSeq(s, a + 1, End(b)) = SubSeq(s, 1, End(b))
  <2>1. CASE a < L
    <3>1. End(a) = a /\ 1 \in 1 .. L + 1 /\ a \in 1 - 1 .. L /\ End(b) \in a .. L
      BY <1>1, <1>7, <2>1
    <3> HIDE DEF End
    <3> QED BY <3>1, ConcatAdjacentSubSeq
  <2>2. CASE ~ (a < L)
    <3>1. End(a) = L /\ End(b) = L /\ L < a + 1 /\ a + 1 \in Int /\ L \in Int
      BY <1>1, <1>7, <2>2
    <3>2. SubSeq(s, a + 1, L) = <<>>
      BY <3>1, SubSeqEmpty
    <3>3. SubSeq(s, 1, L) = s
      BY SubSeqFull
    <3> HIDE DEF End
    <3> QED BY <3>1, <3>2, <3>3, ConcatEmptySeq
  <2> QED BY <2>1, <2>2
<1> DEFINE U == {k \in Nat : k + 1 \in 1 .. n => flat[k + 1] = SubSeq(s, 1, End((k + 1) * limit))}
<1> HIDE DEF End
<1>8. 0 \in U
  <2>1. 1 \in 1 .. n /\ (1 - 1) * limit + 1 = 1 /\ 0 + 1 = 1
    OBVIOUS
  <2>2. flat[1] = SubSeq(s, 1, End(1 * limit))
    BY <1>4, <1>6, <2>1
  <2> QED BY <2>1, <2>2
<1>9. ASSUME NEW k \in U PROVE k + 1 \in U
  <2> DEFINE i == k + 1
  <2> SUFFICES ASSUME i + 1 \in 1 .. n PROVE flat[i + 1] = SubSeq(s, 1, End((i + 1) * limit))
    OBVIOUS
  <2>1. i \in 1 .. n - 1 /\ i \in 1 .. n /\ (i + 1) - 1 = i /\ i \in Nat
    OBVIOUS
  <2>2. flat[i] = SubSeq(s, 1, End(i * limit))
    BY <2>1
  <2> HIDE DEF i
  <2>3. flat[i + 1] = flat[i] \o pages[i + 1]
    BY <1>6, <2>1
  <2>4. /\ i * limit \in Nat /\ i * limit + limit = (i + 1) * limit /\ (i + 1) * limit \in Nat
        /\ pages[i + 1] = SubSeq(s, i * limit + 1, End((i + 1) * limit))
    BY <1>4, <2>1
  <2>5. i * limit <= (i + 1) * limit
    BY <2>4
  <2> QED BY <1>7, <2>2, <2>3, <2>4, <2>5
<1>10. U = Nat
  <2>1. U \in SUBSET Nat
    OBVIOUS
  <2> HIDE DEF U
  <2> QED BY <1>8, <1>9, <2>1, SetInduction
<1>11. n - 1 \in Nat /\ (n - 1) + 1 = n /\ n \in 1 .. n
  OBVIOUS
<1>12. flat[n] = SubSeq(s, 1, End(n * limit))
  <2>1. n - 1 \in U
    BY <1>10, <1>11
  <2> QED BY <1>11, <2>1
<1>13. End(n * limit) = L
  <2>1. n * limit \in Nat /\ n <= n * limit
    OBVIOUS
  <2> QED BY <1>1, <2>1 DEF End
<1> QED BY <1>6, <1>12, <1>13, SubSeqFull DEF pages

\* The sizes of the parts of a finite set add up.
LEMMA SumOfParts ==
  ASSUME NEW D, IsFiniteSet(D), NEW X, IsFiniteSet(X), NEW tag
  PROVE  SumFunction([t \in D |-> Cardinality({x \in X : tag[x] = t})])
           = Cardinality({x \in X : tag[x] \in D})
<1> DEFINE Part(s) == {x \in X : tag[x] \in s}
           f == [t \in D |-> Cardinality({x \in X : tag[x] = t})]
<1>1. \A R \in SUBSET X : IsFiniteSet(R) /\ Cardinality(R) \in Nat
  BY FS_Subset, FS_CardinalityType
<1>2. f \in [D -> Int] /\ DOMAIN f = D
  BY <1>1
<1>3. PICK F : Accumulates(f, F) /\ SumFunction(f) = F[D]
  <2> HIDE DEF f
  <2> QED BY <1>2, SumIsPartialSum
<1> DEFINE Holds(s) == F[s] = Cardinality(Part(s))
           T == {n \in Nat : \A s \in SUBSET D : Cardinality(s) <= n => Holds(s)}
<1>4. \A s \in SUBSET D : IsFiniteSet(s) /\ Cardinality(s) \in Nat
  BY FS_Subset, FS_CardinalityType
<1>5. Holds({})
  <2>1. F[{}] = 0
    BY <1>2, <1>3 DEF Accumulates
  <2>2. Part({}) = {}
    OBVIOUS
  <2> QED BY <2>1, <2>2, FS_EmptySet
<1>6. ASSUME NEW s \in SUBSET D, s # {}, Holds(s \ {PickOne(s)}) PROVE Holds(s)
  <2> DEFINE p == PickOne(s)
             r == s \ {p}
             A == {x \in X : tag[x] = p}
  <2>1. p \in s /\ p \in D
    BY <1>6 DEF PickOne
  <2>2. F[s] = f[p] + F[r]
    <3> HIDE DEF f
    <3> QED BY <1>2, <1>3, <1>6 DEF Accumulates
  <2>3. f[p] = Cardinality(A)
    BY <2>1
  <2>4. F[r] = Cardinality(Part(r))
    BY <1>6
  <2> HIDE DEF p
  <2>5. Part(s) = A \cup Part(r) /\ A \cap Part(r) = {}
    BY <2>1
  <2>6. IsFiniteSet(A) /\ IsFiniteSet(Part(r)) /\ Cardinality(A) \in Nat /\ Cardinality(Part(r)) \in Nat
    BY <1>1
  <2> HIDE DEF A, r, Part, f
  <2>7. Cardinality(Part(s)) = Cardinality(A) + Cardinality(Part(r)) - Cardinality({})
    BY <2>5, <2>6, FS_Union
  <2> QED BY <2>2, <2>3, <2>4, <2>6, <2>7, FS_EmptySet
<1> HIDE DEF Holds, f
<1>7. 0 \in T
  BY <1>4, <1>5, FS_EmptySet
<1>8. ASSUME NEW n \in T PROVE n + 1 \in T
  <2> SUFFICES ASSUME NEW s \in SUBSET D, Cardinality(s) <= n + 1, s # {} PROVE Holds(s)
    BY <1>5
  <2>1. PickOne(s) \in s
    BY DEF PickOne
  <2>2. s \ {PickOne(s)} \in SUBSET D /\ Cardinality(s \ {PickOne(s)}) <= n
    BY <1>4, <2>1, OneLess
  <2>3. Holds(s \ {PickOne(s)})
    BY <2>2
  <2> QED BY <1>6, <2>3
<1>9. T = Nat
  <2>1. T \in SUBSET Nat
    OBVIOUS
  <2> HIDE DEF T
  <2> QED BY <1>7, <1>8, <2>1, SetInduction
<1>10. Holds(D)
  <2>1. Cardinality(D) \in T /\ Cardinality(D) <= Cardinality(D)
    BY <1>9, FS_CardinalityType
  <2> QED BY <2>1
<1> QED BY <1>3, <1>10 DEF Holds, f

\* The trace cases are as many as the failed cases: each is listed once.
LEMMA TraceCasesCount ==
  ASSUME FailedCases(candidate) \in SUBSET Cases
  PROVE  TraceCases \in Seq(Cases) /\ Len(TraceCases) = Cardinality(FailedCases(candidate))
<1> DEFINE X == FailedCases(candidate)
           n == Len(CaseOrder)
           entries == [i \in 1 .. n |-> IF CaseOrder[i] \in X THEN <<CaseOrder[i]>> ELSE <<>>]
           Head1(k) == {CaseOrder[i] : i \in 1 .. k} \cap X
<1>1. n \in Nat /\ CaseOrder \in [1 .. n -> Cases] /\ DOMAIN CaseOrder = 1 .. n
  BY DashboardAssumption, LenProperties
<1>2. \A i, j \in 1 .. n : CaseOrder[i] = CaseOrder[j] => i = j
  BY <1>1, DashboardAssumption DEF IsInjective
<1>3. TraceCases = FlattenSeq(entries)
  BY DEF TraceCases
<1>4. IsFiniteSet(X) /\ \A k : IsFiniteSet(Head1(k)) /\ Cardinality(Head1(k)) \in Nat
  <2>1. IsFiniteSet(X)
    BY FS_Subset, ComparisonAssumption
  <2>2. \A k : Head1(k) \in SUBSET X
    OBVIOUS
  <2> HIDE DEF Head1, X
  <2> QED BY <2>1, <2>2, FS_Subset, FS_CardinalityType
<1>5. Head1(n) = X
  BY <1>1, DashboardAssumption DEF Contains
<1>6. CASE n = 0
  <2>1. entries = <<>>
    BY <1>6
  <2>2. Len(entries) = 0
    BY <2>1
  <2>3. FlattenSeq(entries) = <<>>
    BY <2>1, <2>2 DEF FlattenSeq
  <2>4. X = {}
    BY <1>5, <1>6
  <2> QED BY <1>3, <2>3, <2>4, FS_EmptySet
<1>7. CASE n > 0
  <2>1. entries \in [1 .. n -> Seq(Cases)]
    <3>1. \A i \in 1 .. n : <<CaseOrder[i]>> \in Seq(Cases) /\ <<>> \in Seq(Cases)
      BY <1>1
    <3> QED BY <3>1
  <2>2. PICK flat : Joins(Cases, n, entries, flat)
    <3> HIDE DEF entries, n
    <3> QED BY <1>1, <1>7, <2>1, FlattenSteps
  <2> DEFINE U == {k \in Nat : k + 1 \in 1 .. n => Len(flat[k + 1]) = Cardinality(Head1(k + 1))}
  <2>3. ASSUME NEW i \in 1 .. n
        PROVE  /\ Len(entries[i]) = Cardinality(Head1(i)) - Cardinality(Head1(i - 1))
               /\ entries[i] \in Seq(Cases)
    <3>1. CASE CaseOrder[i] \in X
      <4>1. Head1(i) = Head1(i - 1) \cup {CaseOrder[i]} /\ CaseOrder[i] \notin Head1(i - 1)
        BY <1>1, <1>2, <3>1
      <4>2. entries[i] = <<CaseOrder[i]>> /\ Len(entries[i]) = 1
        BY <3>1
      <4> HIDE DEF Head1, entries, n
      <4>3. Cardinality(Head1(i)) = Cardinality(Head1(i - 1)) + 1
        BY <1>4, <4>1, FS_AddElement
      <4>4. Cardinality(Head1(i - 1)) \in Nat
        BY <1>4
      <4>5. Len(entries[i]) = Cardinality(Head1(i)) - Cardinality(Head1(i - 1))
        BY <4>2, <4>3, <4>4
      <4>6. entries[i] \in Seq(Cases)
        BY <2>1
      <4> QED BY <4>5, <4>6
    <3>2. CASE CaseOrder[i] \notin X
      <4>1. Head1(i) = Head1(i - 1)
        BY <1>1, <3>2
      <4>2. entries[i] = <<>> /\ Len(entries[i]) = 0
        BY <3>2
      <4> HIDE DEF Head1, entries, n
      <4> QED BY <1>4, <2>1, <4>1, <4>2
    <3> QED BY <3>1, <3>2
  <2>4. Cardinality(Head1(0)) = 0
    <3>1. Head1(0) = {}
      OBVIOUS
    <3> QED BY <3>1, FS_EmptySet
  <2> HIDE DEF Head1, entries, n
  <2>5. 0 \in U
    <3>1. 1 \in 1 .. n /\ 0 + 1 = 1 /\ 1 - 1 = 0
      BY <1>1, <1>7
    <3>2. flat[1] = entries[1]
      BY <2>2 DEF Joins
    <3>3. Len(flat[1]) = Cardinality(Head1(1))
      BY <1>4, <2>3, <2>4, <3>1, <3>2
    <3> QED BY <3>1, <3>3
  <2>6. ASSUME NEW k \in U PROVE k + 1 \in U
    <3> DEFINE i == k + 1
    <3> SUFFICES ASSUME i + 1 \in 1 .. n PROVE Len(flat[i + 1]) = Cardinality(Head1(i + 1))
      OBVIOUS
    <3>1. i \in 1 .. n - 1 /\ i \in 1 .. n /\ (i + 1) - 1 = i
      BY <1>1
    <3>2. Len(flat[i]) = Cardinality(Head1(i))
      BY <3>1
    <3> HIDE DEF i
    <3>3. flat[i + 1] = flat[i] \o entries[i + 1] /\ flat[i] \in Seq(Cases)
      BY <2>2, <3>1 DEF Joins
    <3>4. Len(entries[i + 1]) = Cardinality(Head1(i + 1)) - Cardinality(Head1(i))
            /\ entries[i + 1] \in Seq(Cases)
      BY <2>3, <3>1
    <3>5. Len(flat[i + 1]) = Len(flat[i]) + Len(entries[i + 1])
      <4>1. \A a, b \in Seq(Cases) : Len(a \o b) = Len(a) + Len(b)
        BY ConcatProperties
      <4> QED BY <3>3, <3>4, <4>1
    <3> QED BY <1>4, <3>2, <3>4, <3>5
  <2>7. U = Nat
    <3>1. U \in SUBSET Nat
      OBVIOUS
    <3> HIDE DEF U
    <3> QED BY <2>5, <2>6, <3>1, SetInduction
  <2>8. n - 1 \in Nat /\ (n - 1) + 1 = n /\ n \in 1 .. n
    BY <1>1, <1>7
  <2>9. n - 1 \in U
    BY <2>7, <2>8
  <2>10. Len(flat[n]) = Cardinality(Head1(n)) /\ flat[n] \in Seq(Cases) /\ FlattenSeq(entries) = flat[n]
    BY <2>2, <2>8, <2>9 DEF Joins
  <2> QED BY <1>3, <1>5, <2>10
<1> QED BY <1>1, <1>6, <1>7

\* A case that was executed and passed did not fail.
LEMMA PassedDidNotFail ==
  ASSUME NEW item, PassSample(item) = 100, item.status # "errored"
  PROVE  ~ Failed(item)
<1>1. \A e \in DOMAIN item.results : item.results[e] \notin {"errored", "failed"}
  BY DEF PassSample
<1> QED BY <1>1 DEF Failed, Errored

\* Rounding the failed share down never shows a tag worse than its cases.
LEMMA ShareRounds ==
  ASSUME NEW k \in Nat, NEW failed \in Nat, NEW passed \in Nat, k > 0, passed + failed <= k
  PROVE  (Scale - (failed * Scale) \div k) * k >= Scale * passed
<1> DEFINE q == (failed * 600) \div k
<1>1. failed * 600 \in Int /\ q \in Int /\ k * q <= failed * 600
  OBVIOUS
<1> HIDE DEF q
<1>2. (600 - q) * k = 600 * k - k * q
  BY <1>1
<1>3. 600 * passed + 600 * failed <= 600 * k
  OBVIOUS
<1>4. k * q \in Int
  BY <1>1
<1>5. (600 - q) * k >= 600 * passed
  BY <1>1, <1>2, <1>3, <1>4
<1> QED BY <1>5 DEF Scale, q

LEMMA ReportInvTags == ReportInv => TagsAccountForFailures
<1> SUFFICES ASSUME ReportInv
             PROVE  /\ \A limit \in 1 .. Cardinality(Cases) :
                         FlattenSeq([p \in 1 .. Cardinality(Cases) |-> Page(limit, (p - 1) * limit)])
                           = TraceCases
                    /\ Len(TraceCases) = SumFunction([t \in Tags |-> FailureCount(candidate, t)])
                    /\ \A t \in Tags :
                         LET passed == {c \in Tagged(candidate, t) : /\ PassSample(candidate.items[c]) = 100
                                                                     /\ candidate.items[c].status # "errored"} IN
                         /\ passed \cap FailedCases(candidate) = {}
                         /\ TagPassRate(t) * CaseCount(candidate, t) >= Scale * Cardinality(passed)
  BY DEF TagsAccountForFailures
<1> DEFINE X == FailedCases(candidate)
           D == DOMAIN candidate.items
<1>1. D \in SUBSET Cases /\ DOMAIN baseline.items \in SUBSET Cases
        /\ \A c \in D : candidate.items[c] \in Item
  BY ComparisonAssumption DEF ReportInv, IsRun
<1>2. X \in SUBSET D /\ X \in SUBSET Cases
  BY <1>1 DEF FailedCases
<1>3. IsFiniteSet(Cases) /\ IsFiniteSet(D) /\ IsFiniteSet(X)
  <2> HIDE DEF X, D
  <2> QED BY <1>1, <1>2, FS_Subset, ComparisonAssumption
<1>4. TraceCases \in Seq(Cases) /\ Len(TraceCases) = Cardinality(X)
  BY <1>2, TraceCasesCount
<1>5. ASSUME NEW limit \in 1 .. Cardinality(Cases)
      PROVE  FlattenSeq([p \in 1 .. Cardinality(Cases) |-> Page(limit, (p - 1) * limit)]) = TraceCases
  <2> DEFINE n == Cardinality(Cases)
             pages == PagesOf(TraceCases, n, limit)
  <2>1. n \in Nat
    BY <1>3, FS_CardinalityType
  <2>2. n > 0 /\ limit \in Nat /\ limit > 0
    BY <2>1
  <2>3. Len(TraceCases) <= n
    BY <1>2, <1>3, <1>4, FS_Subset
  <2>4. [p \in 1 .. n |-> Page(limit, (p - 1) * limit)] = pages
    BY DEF Page, PagesOf
  <2> HIDE DEF n
  <2>5. FlattenSeq(pages) = TraceCases
    BY <1>4, <2>1, <2>2, <2>3, PagesJoin
  <2> QED BY <2>4, <2>5 DEF n
<1>6. Len(TraceCases) = SumFunction([t \in Tags |-> FailureCount(candidate, t)])
  <2>1. IsFiniteSet(Tags)
    <3> DEFINE C == DOMAIN baseline.items \cup D
    <3>1. C \in SUBSET Cases
      BY <1>1
    <3>2. IsFiniteSet(C)
      BY <1>3, <3>1, FS_Subset
    <3>3. Tags = {[x \in C |-> TagOf[x]][c] : c \in C}
      BY DEF Tags
    <3> HIDE DEF C
    <3> QED BY <3>2, <3>3, FiniteRange
  <2>2. \A t : FailureCount(candidate, t) = Cardinality({x \in X : TagOf[x] = t})
    <3>1. \A t : {c \in Tagged(candidate, t) : Failed(candidate.items[c])} = {x \in X : TagOf[x] = t}
      BY DEF Tagged, FailedCases
    <3> QED BY <3>1 DEF FailureCount
  <2>3. {x \in X : TagOf[x] \in Tags} = X
    BY <1>2 DEF Tags
  <2> HIDE DEF X
  <2>4. [t \in Tags |-> FailureCount(candidate, t)]
          = [t \in Tags |-> Cardinality({x \in X : TagOf[x] = t})]
    BY <2>2
  <2>5. SumFunction([t \in Tags |-> Cardinality({x \in X : TagOf[x] = t})])
          = Cardinality({x \in X : TagOf[x] \in Tags})
    BY <1>3, <2>1, SumOfParts
  <2> QED BY <1>4, <2>3, <2>4, <2>5
<1>7. ASSUME NEW t \in Tags
      PROVE  LET passed == {c \in Tagged(candidate, t) : /\ PassSample(candidate.items[c]) = 100
                                                         /\ candidate.items[c].status # "errored"} IN
             /\ passed \cap FailedCases(candidate) = {}
             /\ TagPassRate(t) * CaseCount(candidate, t) >= Scale * Cardinality(passed)
  <2> DEFINE cases == Tagged(candidate, t)
             passed == {c \in cases : PassSample(candidate.items[c]) = 100 /\ candidate.items[c].status # "errored"}
             failed == {c \in cases : Failed(candidate.items[c])}
  <2>1. passed \cap FailedCases(candidate) = {} /\ passed \cap failed = {}
    BY PassedDidNotFail DEF FailedCases, Tagged
  <2>2. cases \in SUBSET D /\ passed \in SUBSET cases /\ failed \in SUBSET cases
          /\ passed \cup failed \in SUBSET cases
    BY DEF Tagged
  <2>3. CaseCount(candidate, t) = Cardinality(cases) /\ FailureCount(candidate, t) = Cardinality(failed)
    BY DEF CaseCount, FailureCount
  <2> HIDE DEF cases, passed, failed, D
  <2>4. IsFiniteSet(cases) /\ IsFiniteSet(passed) /\ IsFiniteSet(failed)
    BY <1>3, <2>2, FS_Subset
  <2>5. Cardinality(cases) \in Nat /\ Cardinality(passed) \in Nat /\ Cardinality(failed) \in Nat
    BY <2>4, FS_CardinalityType
  <2>6. Cardinality(passed \cup failed) = Cardinality(passed) + Cardinality(failed)
    <3>1. Cardinality(passed \cup failed)
            = Cardinality(passed) + Cardinality(failed) - Cardinality(passed \cap failed)
      BY <2>4, FS_Union
    <3>2. Cardinality(passed \cap failed) = 0
      BY <2>1, FS_EmptySet
    <3> QED BY <2>5, <3>1, <3>2
  <2>7. Cardinality(passed) + Cardinality(failed) <= Cardinality(cases)
    BY <2>2, <2>4, <2>6, FS_Subset
  <2>8. TagPassRate(t) * Cardinality(cases) >= Scale * Cardinality(passed)
    <3>1. CASE Cardinality(cases) = 0
      <4>1. Cardinality(passed) = 0
        BY <2>5, <2>7, <3>1
      <4>2. TagPassRate(t) = 0
        BY <2>3, <3>1 DEF TagPassRate
      <4> QED BY <3>1, <4>1, <4>2 DEF Scale
    <3>2. CASE Cardinality(cases) # 0
      <4>1. TagPassRate(t) = Scale - (Cardinality(failed) * Scale) \div Cardinality(cases)
        BY <2>3, <3>2 DEF TagPassRate
      <4>2. Cardinality(cases) > 0
        BY <2>5, <3>2
      <4> QED BY <2>5, <2>7, <4>1, <4>2, ShareRounds
    <3> QED BY <3>1, <3>2
  <2> QED BY <2>1, <2>3, <2>8 DEF passed, cases
<1> QED BY <1>5, <1>6, <1>7

\* For any stored candidate and page size, the pages list each failed case once,
\* the tags count the listed failures, and no tag is shown worse than the cases that were executed
\* and passed.
THEOREM TagsCountFailures == Spec => []TagsAccountForFailures
BY ReportInvInit, ReportInvStep, ReportInvTags, PTL DEF Spec
=============================================================================
