--------------------------- MODULE SyncRun_proofs ---------------------------
(* The in-process executor, for every suite, request, adapter and          *)
(* evaluator configuration.                                                *)
EXTENDS SyncRun, FiniteSetTheorems, TLAPS

With(status) == {c \in Cases : item[c] = status}

\* What an item's row, trace and results say of one another.
Rows ==
  /\ item \in [Cases -> Statuses]
  /\ output \in [Cases -> AdapterOutputs \cup {None}]
  /\ DOMAIN results = Cases
  /\ measured \subseteq Cases
  /\ \A c \in Cases :
       /\ item[c] = "completed" =>
            c \in measured /\ output[c] # None /\ DOMAIN results[c] = DOMAIN config
       /\ item[c] \in {"none", "running"} => c \notin measured
       /\ c \notin measured => output[c] = None
       /\ output[c] = None => results[c] = <<>>

\* The counters are redundant: one counts the measured items, one the errored ones.
Counted ==
  /\ completed = Cardinality(measured)
  /\ errored = Cardinality(With("errored"))

\* The request has its rows only while it runs, and commits them once.
Phases ==
  /\ references \in {"found", "missing", "different_apps"} /\ config \in Configs
  /\ phase \in {"requested", "rejected", "running", "committed", "lost"}
  /\ phase \in {"requested", "rejected"} => \A c \in Cases : item[c] = "none"
  /\ phase # "committed" => stored = NoRun
  /\ phase = "committed" =>
       /\ \A c \in Cases : item[c] \in {"completed", "errored"}
       /\ stored = [status |-> FinalStatus, completed |-> completed, errored |-> errored]

SyncInv == Rows /\ Counted /\ Phases

\* The selected cases are finite in number.
LEMMA CasesFinite == IsFiniteSet(Cases)
<1>1. Cases \subseteq Suite
  BY DEF Cases
<1> QED BY <1>1, FS_Subset, SyncRunAssumption

\* So are the cases with one status, and any other set of them.
LEMMA SubsetsFinite ==
  /\ \A status : With(status) \subseteq Cases
  /\ \A S \in SUBSET Cases :
       IsFiniteSet(S) /\ Cardinality(S) \in 0 .. Cardinality(Cases)
<1>1. \A status : With(status) \subseteq Cases
  BY DEF With
<1>2. ASSUME NEW S \in SUBSET Cases
      PROVE  IsFiniteSet(S) /\ Cardinality(S) \in 0 .. Cardinality(Cases)
  <2>1. IsFiniteSet(S) /\ Cardinality(S) <= Cardinality(Cases)
    BY FS_Subset, CasesFinite
  <2>2. Cardinality(S) \in Nat /\ Cardinality(Cases) \in Nat
    BY <2>1, CasesFinite, FS_CardinalityType
  <2> QED BY <2>1, <2>2
<1> QED BY <1>1, <1>2

LEMMA InitSync == Init => SyncInv
<1> SUFFICES ASSUME Init PROVE SyncInv
  OBVIOUS
<1>1. measured = {} /\ With("errored") = {}
  BY DEF Init, With
<1>2. Counted
  BY <1>1, FS_EmptySet DEF Init, Counted
<1>3. Rows
  BY DEF Init, Rows, Statuses
<1>4. Phases
  BY DEF Init, Phases
<1> QED BY <1>2, <1>3, <1>4 DEF SyncInv

\* A case that errors adds one to the errored items, no other step of a case any.
LEMMA Recount ==
  ASSUME Rows, NEW c \in Cases, NEW s \in Statuses, item[c] \in {"none", "running"},
         item' = [item EXCEPT ![c] = s]
  PROVE  /\ s = "errored" => Cardinality(With("errored")') = Cardinality(With("errored")) + 1
         /\ s # "errored" => With("errored")' = With("errored")
<1>1. IsFiniteSet(With("errored"))
  BY SubsetsFinite
<1>2. ASSUME s = "errored"
      PROVE  Cardinality(With("errored")') = Cardinality(With("errored")) + 1
  <2>1. With("errored")' = With("errored") \cup {c} /\ c \notin With("errored")
    BY <1>2 DEF With, Rows
  <2> QED BY <1>1, <2>1, FS_AddElement
<1>3. s # "errored" => With("errored")' = With("errored")
  BY DEF With, Rows
<1> QED BY <1>2, <1>3

\* A case that is measured now was not before.
LEMMA MeasuredOnce ==
  ASSUME Rows, NEW c \in Cases, item[c] = "running"
  PROVE  Cardinality(measured \cup {c}) = Cardinality(measured) + 1
<1>1. IsFiniteSet(measured) /\ c \notin measured
  BY SubsetsFinite DEF Rows
<1> QED BY <1>1, FS_AddElement

LEMMA NextSync == SyncInv /\ [Next]_vars => SyncInv'
<1> SUFFICES ASSUME SyncInv, [Next]_vars PROVE SyncInv'
  OBVIOUS
<1> USE DEF SyncInv
<1>1. ASSUME UNCHANGED <<config, item, output, results, measured>> PROVE Rows'
  BY <1>1 DEF Rows
<1>2. ASSUME UNCHANGED <<item, measured, completed, errored>> PROVE Counted'
  BY <1>2 DEF Counted, With
<1>3. CASE Reject
  BY <1>1, <1>2, <1>3 DEF Reject, Phases, NoRun, input, rows
<1>4. CASE CreateRun
  BY <1>1, <1>2, <1>4 DEF CreateRun, Phases, NoRun, input, rows
<1>5. CASE Commit
  BY <1>1, <1>2, <1>5 DEF Commit, Phases, FinalStatus, input, rows
<1>6. CASE Lose
  BY <1>1, <1>2, <1>6 DEF Lose, Phases, NoRun, input, rows
<1>7. ASSUME NEW c \in Cases, BeginCase(c) PROVE SyncInv'
  <2>1. Rows'
    BY <1>7 DEF BeginCase, Rows, Statuses, input
  <2>3. Counted'
    BY <1>7, Recount DEF BeginCase, Counted, Statuses
  <2>4. Phases'
    BY <1>7 DEF BeginCase, Phases, input
  <2> QED BY <2>1, <2>3, <2>4
<1>8. ASSUME NEW c \in Cases, CompleteCase(c) PROVE SyncInv'
  <2>1. PICK o \in AdapterOutputs :
          /\ output' = [output EXCEPT ![c] = o]
          /\ results' = [results EXCEPT ![c] = EvaluateCase(Payload[c], o, config)]
    BY <1>8 DEF CompleteCase
  <2>2. DOMAIN EvaluateCase(Payload[c], o, config) = DOMAIN config
    BY DEF EvaluateCase
  <2>3. o # None
    BY SyncRunAssumption
  <2>4. /\ item' = [item EXCEPT ![c] = "completed"] /\ item[c] = "running" /\ UNCHANGED config
        /\ measured' = measured \cup {c}
    BY <1>8 DEF CompleteCase, input
  <2>5. Rows'
    BY <2>1, <2>2, <2>3, <2>4 DEF Rows, Statuses
  <2>6. Counted'
    BY <1>8, <2>4, Recount, MeasuredOnce DEF CompleteCase, Counted, Statuses
  <2>7. Phases'
    BY <1>8 DEF CompleteCase, Phases, input
  <2> QED BY <2>5, <2>6, <2>7
<1>9. ASSUME NEW c \in Cases, FailCase(c) PROVE SyncInv'
  <2>1. Rows'
    BY <1>9 DEF FailCase, Rows, Statuses, input
  <2>2. Counted'
    BY <1>9, Recount DEF FailCase, Counted, Statuses
  <2>3. Phases'
    BY <1>9 DEF FailCase, Phases, input
  <2> QED BY <2>1, <2>2, <2>3
<1>10. ASSUME NEW c \in Cases, FailCaseLate(c) PROVE SyncInv'
  <2>1. /\ item' = [item EXCEPT ![c] = "errored"] /\ item[c] = "running" /\ UNCHANGED config
        /\ measured' = measured \cup {c}
    BY <1>10 DEF FailCaseLate, input
  <2>2. Rows'
    <3>1. CASE UNCHANGED <<output, results>>
      BY <2>1, <3>1 DEF Rows, Statuses
    <3>2. ASSUME NEW o \in AdapterOutputs, NEW r,
                 output' = [output EXCEPT ![c] = o], results' = [results EXCEPT ![c] = r]
          PROVE  Rows'
      <4>1. o # None
        BY SyncRunAssumption
      <4> QED BY <2>1, <3>2, <4>1 DEF Rows, Statuses
    <3> QED BY <1>10, <3>1, <3>2 DEF FailCaseLate
  <2>3. Counted'
    BY <1>10, <2>1, Recount, MeasuredOnce DEF FailCaseLate, Counted, Statuses
  <2>4. Phases'
    BY <1>10 DEF FailCaseLate, Phases, input
  <2> QED BY <2>2, <2>3, <2>4
<1>11. CASE UNCHANGED vars
  BY <1>1, <1>2, <1>11 DEF vars, Phases, FinalStatus, input
<1> QED BY <1>3, <1>4, <1>5, <1>6, <1>7, <1>8, <1>9, <1>10, <1>11 DEF Next

\* The executor is type-correct; in particular neither counter exceeds the
\* number of selected cases.
THEOREM TypeCorrect == Spec => []TypeOK
<1>1. SyncInv => TypeOK
  <2> SUFFICES ASSUME SyncInv PROVE TypeOK
    OBVIOUS
  <2>2. completed \in 0 .. Cardinality(Cases) /\ errored \in 0 .. Cardinality(Cases)
    BY SubsetsFinite DEF SyncInv, Counted, Rows
  <2>3. stored.status \in {"none", "completed", "partial"}
    BY DEF SyncInv, Phases, NoRun, FinalStatus
  <2> QED BY <2>2, <2>3 DEF SyncInv, Rows, Phases, TypeOK
<1> QED BY <1>1, InitSync, NextSync, PTL DEF Spec

\* No errored item means that every case completed.
LEMMA NoneErrored ==
  ASSUME Counted, \A c \in Cases : item[c] \in {"completed", "errored"}
  PROVE  (errored = 0) <=> (\A c \in Cases : item[c] = "completed")
<1>1. IsFiniteSet(With("errored"))
  BY SubsetsFinite
<1>2. (errored = 0) <=> (With("errored") = {})
  BY <1>1, FS_EmptySet DEF Counted
<1> QED BY <1>2 DEF With

\* StoredRunIsExact (execute_run): whatever the suite, the request, the adapter's outputs,
\* the evaluators and the moment at which a case fails, a committed run has ended every
\* selected case, its counters count the measured and the errored ones, it is "completed"
\* only if all are, and a completed case has its trace and all its results.
THEOREM CommittedRunsAreExact == Spec => []StoredRunIsExact
<1>1. SyncInv => StoredRunIsExact
  <2> SUFFICES ASSUME SyncInv, phase = "committed" PROVE StoredRunIsExact
    BY DEF StoredRunIsExact
  <2>1. stored.status = "completed" <=> errored = 0
    BY DEF SyncInv, Phases, FinalStatus
  <2>2. stored.status = "completed" <=> \A c \in Cases : item[c] = "completed"
    BY <2>1, NoneErrored DEF SyncInv, Phases
  <2> QED BY <2>2 DEF SyncInv, Rows, Counted, Phases, With, StoredRunIsExact
<1> QED BY <1>1, InitSync, NextSync, PTL DEF Spec

\* And every step of the executor is a step of RunLifecycle or none: readers of
\* a run need not know which of the two executors made it.
THEOREM ImplementsLifecycle == Spec => LifecycleSpec
<1> DEFINE APhase == CASE phase \in {"requested", "rejected"} -> "none"
                       [] phase \in {"running", "lost"} -> "running"
                       [] phase = "committed" -> stored.status
           AOutcome == [c \in Cases |-> IF item[c] \in {"completed", "errored"} THEN item[c]
                                                                             ELSE "pending"]
<1>1. Init => Lifecycle!Init
  BY DEF Init, Lifecycle!Init
<1>2. SyncInv /\ [Next]_vars => [Lifecycle!Next]_Lifecycle!vars
  <2> SUFFICES ASSUME SyncInv, [Next]_vars PROVE [Lifecycle!Next]_Lifecycle!vars
    OBVIOUS
  <2> USE DEF SyncInv
  <2>1. CASE Reject
    BY <2>1 DEF Reject, rows, Lifecycle!vars
  <2>2. CASE CreateRun
    BY <2>2 DEF CreateRun, rows, Lifecycle!Next, Lifecycle!Start
  <2>3. CASE Commit
    <3>1. \A c \in Cases : item[c] \in {"completed", "errored"} /\ AOutcome[c] = item[c]
      BY <2>3 DEF Commit
    <3>2. (errored = 0) <=> (\A c \in Cases : item[c] = "completed")
      BY <3>1, NoneErrored
    <3>3. Lifecycle!Verdict = FinalStatus
      BY <3>1, <3>2 DEF Lifecycle!Verdict, FinalStatus
    <3>4. stored'.status = FinalStatus /\ phase' = "committed" /\ phase = "running" /\ item' = item
      BY <2>3 DEF Commit, rows
    <3>5. Lifecycle!Finish
      BY <3>1, <3>3, <3>4 DEF Lifecycle!Finish, Lifecycle!Settled
    <3> QED BY <3>5 DEF Lifecycle!Next
  <2>4. CASE Lose
    BY <2>4 DEF Lose, rows, Lifecycle!vars
  <2>5. ASSUME NEW c \in Cases, BeginCase(c) PROVE UNCHANGED Lifecycle!vars
    BY <2>5 DEF BeginCase, Rows, Lifecycle!vars
  <2>6. ASSUME NEW c \in Cases, CompleteCase(c) \/ FailCase(c) \/ FailCaseLate(c)
        PROVE  Lifecycle!Settle(c)
    <3>1. PICK s \in {"completed", "errored"} : item' = [item EXCEPT ![c] = s]
      BY <2>6 DEF CompleteCase, FailCase, FailCaseLate
    <3>2. item[c] = "running" /\ phase = "running" /\ phase' = "running"
      BY <2>6 DEF CompleteCase, FailCase, FailCaseLate
    <3>3. AOutcome' = [AOutcome EXCEPT ![c] = s]
      BY <3>1, <3>2 DEF Rows
    <3> QED BY <3>1, <3>2, <3>3 DEF Lifecycle!Settle
  <2>7. CASE UNCHANGED vars
    BY <2>7 DEF vars, Lifecycle!vars
  <2> QED BY <2>1, <2>2, <2>3, <2>4, <2>5, <2>6, <2>7 DEF Next, Lifecycle!Next
<1> QED BY <1>1, <1>2, InitSync, NextSync, PTL DEF Spec, LifecycleSpec, Lifecycle!Spec
-----------------------------------------------------------------------------
(* What the results say                                                    *)

\* The results stored for a case, all of them or the first ones, are those of its payload,
\* its output and the configuration.
Evaluated ==
  \A c \in Cases :
    /\ item[c] = "completed" => DOMAIN results[c] = DOMAIN config
    /\ \A k \in DOMAIN results[c] :
         /\ k \in DOMAIN config
         /\ output[c] \in AdapterOutputs
         /\ results[c][k] = EvaluateCase(Payload[c], output[c], config)[k]

LEMMA EvaluatedInit == Init => Evaluated
BY DEF Init, Evaluated

\* What is added to a case's results keeps this, be it cut short or not.
LEMMA EvaluatedCase ==
  ASSUME SyncInv, Evaluated, NEW c \in Cases, NEW o \in AdapterOutputs, NEW r, NEW s,
         UNCHANGED config, item' = [item EXCEPT ![c] = s],
         output' = [output EXCEPT ![c] = o], results' = [results EXCEPT ![c] = r],
         s = "completed" => DOMAIN r = DOMAIN config,
         \A k \in DOMAIN r : k \in DOMAIN config /\ r[k] = EvaluateCase(Payload[c], o, config)[k]
  PROVE  Evaluated'
<1>1. item \in [Cases -> Statuses] /\ output \in [Cases -> AdapterOutputs \cup {None}] /\ DOMAIN results = Cases
  BY DEF SyncInv, Rows
<1> SUFFICES ASSUME NEW d \in Cases
             PROVE  /\ item'[d] = "completed" => DOMAIN results'[d] = DOMAIN config
                    /\ \A k \in DOMAIN results'[d] :
                         /\ k \in DOMAIN config
                         /\ output'[d] \in AdapterOutputs
                         /\ results'[d][k] = EvaluateCase(Payload[d], output'[d], config)[k]
  BY DEF Evaluated, EvaluateCase
<1>2. CASE d = c
  BY <1>1, <1>2
<1>3. CASE d # c
  BY <1>1, <1>3 DEF Evaluated
<1> QED BY <1>2, <1>3

LEMMA EvaluatedStep == SyncInv /\ Evaluated /\ [Next]_vars => Evaluated'
<1> SUFFICES ASSUME SyncInv, Evaluated, [Next]_vars PROVE Evaluated'
  OBVIOUS
<1>1. item \in [Cases -> Statuses] /\ output \in [Cases -> AdapterOutputs \cup {None}] /\ DOMAIN results = Cases
  BY DEF SyncInv, Rows
<1>2. CASE UNCHANGED <<config, item, output, results>>
  BY <1>2 DEF Evaluated
<1>3. ASSUME NEW c \in Cases, NEW s \in {"running", "errored"}, item' = [item EXCEPT ![c] = s],
             UNCHANGED <<config, output, results>>
      PROVE  Evaluated'
  BY <1>1, <1>3 DEF Evaluated, EvaluateCase
<1>4. ASSUME NEW c \in Cases, BeginCase(c) \/ FailCase(c) PROVE Evaluated'
  BY <1>3, <1>4 DEF BeginCase, FailCase, input
<1>5. ASSUME NEW c \in Cases, CompleteCase(c) PROVE Evaluated'
  <2>1. PICK o \in AdapterOutputs :
          /\ output' = [output EXCEPT ![c] = o]
          /\ results' = [results EXCEPT ![c] = EvaluateCase(Payload[c], o, config)]
    BY <1>5 DEF CompleteCase
  <2>2. item' = [item EXCEPT ![c] = "completed"] /\ UNCHANGED config
    BY <1>5 DEF CompleteCase, input
  <2>3. DOMAIN EvaluateCase(Payload[c], o, config) = DOMAIN config
    BY DEF EvaluateCase
  <2> QED BY <2>1, <2>2, <2>3, EvaluatedCase
<1>6. ASSUME NEW c \in Cases, FailCaseLate(c) PROVE Evaluated'
  <2>1. item' = [item EXCEPT ![c] = "errored"] /\ UNCHANGED config
    BY <1>6 DEF FailCaseLate, input
  <2>2. CASE UNCHANGED <<output, results>>
    BY <1>3, <2>1, <2>2
  <2>3. ASSUME NEW o \in AdapterOutputs, NEW n \in DOMAIN config \cup {1},
               output' = [output EXCEPT ![c] = o],
               results' = [results EXCEPT ![c] =
                            [k \in 1 .. n - 1 |-> EvaluateCase(Payload[c], o, config)[k]]]
        PROVE  Evaluated'
    <3> DEFINE r == [k \in 1 .. n - 1 |-> EvaluateCase(Payload[c], o, config)[k]]
    <3>1. config \in Seq(Specs)
      BY SyncRunAssumption DEF SyncInv, Phases
    <3>2. 1 .. n - 1 \subseteq DOMAIN config
      BY <3>1
    <3>3. \A k \in DOMAIN r : k \in DOMAIN config /\ r[k] = EvaluateCase(Payload[c], o, config)[k]
      BY <3>2
    <3> HIDE DEF r
    <3>4. results' = [results EXCEPT ![c] = r]
      BY <2>3 DEF r
    <3> QED BY <2>1, <2>3, <3>3, <3>4, EvaluatedCase
  <2> QED BY <1>6, <2>2, <2>3 DEF FailCaseLate
<1> QED BY <1>2, <1>4, <1>5, <1>6 DEF Next, Reject, CreateRun, Commit, Lose, vars, rows, input

\* The tokens of a text are finite in number.
LEMMA RangeFinite ==
  ASSUME NEW S, NEW s \in Seq(S)
  PROVE  IsFiniteSet(Range(s)) /\ Cardinality(Range(s)) \in Nat /\ (s # <<>> => Range(s) # {})
<1>1. Len(s) \in Nat /\ DOMAIN s = 1 .. Len(s)
  OBVIOUS
<1>2. IsFiniteSet(1 .. Len(s))
  BY <1>1, FS_Interval
<1>3. s \in Surjection(1 .. Len(s), Range(s))
  BY <1>1 DEF Surjection, Range
<1>4. IsFiniteSet(Range(s))
  BY <1>2, <1>3, FS_Surjection
<1>5. s # <<>> => 1 \in DOMAIN s
  BY <1>1
<1> QED BY <1>4, <1>5, FS_CardinalityType DEF Range

LEMMA TimesMonotone ==
  ASSUME NEW a \in Int, NEW b \in Int, a <= b, NEW m \in Nat
  PROVE  b * m >= a * m
<1> DEFINE d == b - a
<1>1. d \in Nat /\ b = a + d
  OBVIOUS
<1> HIDE DEF d
<1>2. d * m >= 0 /\ d * m \in Int /\ a * m \in Int
  BY <1>1
<1>3. b * m = a * m + d * m
  BY <1>1
<1> QED BY <1>2, <1>3

\* ExactMeansFullOverlap (SyncRun): a case that exact_match passes, token_f1_overlap
\* passes at every threshold up to 1.
THEOREM ExactStaysFullOverlap == Spec => []ExactMeansFullOverlap
<1>1. SyncInv /\ Evaluated => ExactMeansFullOverlap
  <2> SUFFICES ASSUME SyncInv, Evaluated, NEW c \in Cases, item[c] = "completed",
                      NEW j \in DOMAIN results[c], NEW k \in DOMAIN results[c],
                      config[j].name = "exact_match", config[k].name = "token_f1_overlap",
                      results[c][j].outcome = "passed", Payload[c].expected # <<>>,
                      config[k].threshold <= 100, Known(config[k])
               PROVE  results[c][k].outcome = "passed"
    BY DEF ExactMeansFullOverlap
  <2> DEFINE o == output[c]
             expected == Payload[c].expected
             n == Cardinality(Range(expected))
             t == config[k].threshold
  <2>1. /\ \A i \in DOMAIN config : results[c][i] = EvaluateCase(Payload[c], o, config)[i]
        /\ o \in AdapterOutputs
    BY DEF Evaluated
  <2>2. config \in Seq(Specs) /\ DOMAIN results[c] = DOMAIN config
    BY SyncRunAssumption DEF SyncInv, Phases, Evaluated
  <2>3. t \in Int
    <3>1. config[k] \in Specs
      BY <2>2
    <3> QED BY <3>1 DEF Specs
  <2>4. Known(config[j]) /\ results[c][j] = ExactMatch(Payload[c], o)
    <3>1. results[c][j] = IF Known(config[j]) THEN Evaluate(config[j], Payload[c], o) ELSE Raised
      BY <2>1, <2>2 DEF EvaluateCase
    <3>2. Known(config[j])
      BY <3>1 DEF Raised, Result
    <3> QED BY <3>1, <3>2 DEF Evaluate
  <2>5. expected # None /\ o.answer = expected
    BY <2>4 DEF ExactMatch, Skipped, Result, Judged
  <2>6. c \in Suite /\ Payload[c] \in Payloads
    BY SyncRunAssumption DEF Cases
  <2>7. expected \in Seq(Words)
    BY <2>5, <2>6 DEF Payloads
  <2>8. Range(expected) # {} /\ IsFiniteSet(Range(expected)) /\ n \in Nat
    BY <2>7, RangeFinite
  <2>9. results[c][k] = Graded(2 * n, n + n, t)
    <3>1. results[c][k] = TokenF1(Payload[c], o, t)
      BY <2>1, <2>2 DEF EvaluateCase, Evaluate
    <3>2. Range(expected) \cap Range(expected) = Range(expected)
      OBVIOUS
    <3> QED BY <2>5, <2>8, <3>1, <3>2 DEF TokenF1
  <2>10. 2 * n * 100 >= t * (n + n)
    <3> HIDE DEF n, t
    <3>0. 2 * n \in Nat /\ 100 \in Int /\ t <= 100
      BY <2>8 DEF t
    <3>1. 100 * (2 * n) >= t * (2 * n)
      BY <2>3, <3>0, TimesMonotone
    <3> QED BY <2>3, <2>8, <3>1
  <2> QED BY <2>9, <2>10 DEF Graded, Judged, Result
<1> QED BY <1>1, InitSync, NextSync, EvaluatedInit, EvaluatedStep, PTL DEF Spec

InUnit(result) == result.num \in 0 .. result.den /\ result.den > 0

LEMMA JudgedInUnit ==
  ASSUME NEW passed, NEW den \in Nat \ {0}, NEW num \in 0 .. den
  PROVE  InUnit(Judged(passed, num, den)) /\ \A t : InUnit(Graded(num, den, t))
BY DEF InUnit, Judged, Graded, Result

\* No evaluator scores outside [0, 1] unless its threshold is negative.
LEMMA EvaluateInUnit ==
  ASSUME NEW c \in Suite, NEW o \in AdapterOutputs, NEW spec \in Specs,
         spec.name \in Registry, spec.threshold >= 0
  PROVE  InUnit(Evaluate(spec, Payload[c], o))
<1> DEFINE p == Payload[c]
           t == spec.threshold
<1>1. p \in Payloads /\ o \in Outputs /\ t \in Nat
  BY SyncRunAssumption DEF Specs
<1>2. InUnit(Skipped) /\ InUnit(Raised)
  BY DEF InUnit, Skipped, Raised, Result
<1>3. /\ \A passed : InUnit(Judged(passed, 0, 1)) /\ InUnit(Judged(passed, 1, 1))
      /\ \A x : InUnit(Graded(0, 1, x)) /\ InUnit(Graded(1, 1, x))
      /\ \A num \in 0 .. 100 : \A x : InUnit(Graded(num, 100, x))
  BY DEF InUnit, Judged, Graded, Result
<1>4. InUnit(ExactMatch(p, o)) /\ InUnit(RetrievalHitRate(p, o)) /\ InUnit(ForbiddenClaim(p, o))
  BY <1>2, <1>3 DEF ExactMatch, RetrievalHitRate, ForbiddenClaim
<1>5. InUnit(ContainsKeywords(p, o, t))
  <2> DEFINE S == {k \in DOMAIN p.facts : Mentions(o.answer, p.facts[k])}
             n == Len(p.facts)
  <2>1. CASE p.facts = <<>>
    BY <1>2, <2>1 DEF ContainsKeywords
  <2>2. CASE p.facts # <<>>
    <3>1. p.facts \in Seq(Words)
      BY <1>1 DEF Payloads
    <3>2. n \in Nat \ {0} /\ S \subseteq 1 .. n
      BY <2>2, <3>1
    <3>3. IsFiniteSet(1 .. n) /\ Cardinality(1 .. n) = n
      BY <3>2, FS_Interval
    <3>4. Cardinality(S) \in 0 .. n
      <4> HIDE DEF S, n
      <4>1. IsFiniteSet(S) /\ Cardinality(S) <= n
        BY <3>2, <3>3, FS_Subset
      <4> QED BY <3>2, <4>1, FS_CardinalityType
    <3>5. InUnit(Graded(Cardinality(S), n, t))
      BY <3>2, <3>4, JudgedInUnit
    <3> QED BY <2>2, <3>5 DEF ContainsKeywords
  <2> QED BY <2>1, <2>2
<1>6. InUnit(TokenF1(p, o, t))
  <2> DEFINE L == Range(o.answer)
             R == Range(p.expected)
  <2>1. CASE p.expected = None \/ L = {} \/ R = {}
    BY <1>2, <1>3, <2>1 DEF TokenF1
  <2>2. CASE p.expected # None /\ L # {} /\ R # {}
    <3>1. o.answer \in Seq(Words) /\ p.expected \in Seq(Words)
      BY <1>1, <2>2 DEF Outputs, Payloads
    <3>2. IsFiniteSet(L) /\ IsFiniteSet(R)
      BY <3>1, RangeFinite
    <3> HIDE DEF L, R
    <3>3. /\ IsFiniteSet(L \cap R)
          /\ Cardinality(L \cap R) <= Cardinality(L) /\ Cardinality(L \cap R) <= Cardinality(R)
      BY <3>2, FS_Subset
    <3>4. Cardinality(L) \in Nat \ {0} /\ Cardinality(R) \in Nat \ {0} /\ Cardinality(L \cap R) \in Nat
      BY <2>2, <3>2, <3>3, FS_CardinalityType, FS_EmptySet
    <3>5. /\ Cardinality(L) + Cardinality(R) \in Nat \ {0}
          /\ 2 * Cardinality(L \cap R) \in 0 .. Cardinality(L) + Cardinality(R)
      BY <3>3, <3>4
    <3>6. InUnit(Graded(2 * Cardinality(L \cap R), Cardinality(L) + Cardinality(R), t))
      BY <3>5, JudgedInUnit
    <3> QED BY <2>2, <3>6 DEF TokenF1, L, R
  <2> QED BY <2>1, <2>2
<1>7. InUnit(EmbeddingSimilarity(p, o, t))
  <2> DEFINE texts == {p.expected, o.answer}
             dot == Dot[<<o.answer, p.expected>>]
             cut == IF dot < 0 THEN 0 ELSE IF dot > 100 THEN 100 ELSE dot
  <2>1. CASE p.expected = None \/ ~ texts \ {<<>>} \subseteq Embeddable
    <3>1. EmbeddingSimilarity(p, o, t) \in {Skipped, Raised}
      BY <2>1, Zenon DEF EmbeddingSimilarity
    <3> QED BY <1>2, <3>1, Zenon
  <2>2. CASE p.expected # None /\ texts \ {<<>>} \subseteq Embeddable /\ <<>> \in texts
    <3>1. EmbeddingSimilarity(p, o, t) = Graded(0, 1, t)
      BY <2>2, Zenon DEF EmbeddingSimilarity
    <3> QED BY <1>3, <3>1, Zenon
  <2>3. CASE p.expected # None /\ texts \ {<<>>} \subseteq Embeddable /\ <<>> \notin texts
    <3>1. dot \in Int
      BY <2>3, SyncRunAssumption
    <3>2. cut \in 0 .. 100
      BY <3>1
    <3>3. InUnit(Graded(cut, 100, t))
      BY <1>3, <3>2, Zenon
    <3>4. EmbeddingSimilarity(p, o, t) = Graded(cut, 100, t)
      BY <2>3, Zenon DEF EmbeddingSimilarity
    <3> QED BY <3>3, <3>4, Zenon
  <2> QED BY <2>1, <2>2, <2>3, Zenon
<1>8. ASSUME NEW value \in Nat PROVE InUnit(WithinThreshold(value, t))
  <2>1. CASE value <= t
    <3>1. ~ (value > t)
      BY <1>1, <2>1
    <3>2. WithinThreshold(value, t) = Judged(TRUE, 1, 1)
      BY <2>1, <3>1, Zenon DEF WithinThreshold
    <3> QED BY <1>3, <3>2, Zenon
  <2>2. CASE value > t /\ t = 0
    <3>1. ~ (value <= t) /\ ~ (t > 0)
      BY <1>1, <2>2
    <3>2. WithinThreshold(value, t) = Raised
      BY <2>2, <3>1, Zenon DEF WithinThreshold
    <3> QED BY <1>2, <3>2, Zenon
  <2>3. CASE value > t /\ t > 0
    <3> DEFINE num == IF value < 2 * t THEN 2 * t - value ELSE 0
    <3>1. num \in 0 .. t /\ t \in Nat \ {0}
      BY <1>1, <2>3
    <3>2. InUnit(Judged(FALSE, num, t))
      BY <3>1, JudgedInUnit
    <3>3. ~ (value <= t) /\ t # 0
      BY <1>1, <2>3
    <3>4. WithinThreshold(value, t) = Judged(FALSE, num, t)
      BY <2>3, <3>3, Zenon DEF WithinThreshold
    <3> QED BY <3>2, <3>4, Zenon
  <2> QED BY <1>1, <2>1, <2>2, <2>3
<1>9. InUnit(Faithfulness(o, t))
  <2>1. CASE o.docs = {}
    BY <1>2, <2>1 DEF Faithfulness
  <2>2. CASE o.docs # {} /\ o.answer = <<>>
    BY <1>3, <2>2 DEF Faithfulness
  <2>3. CASE o.docs # {} /\ o.answer # <<>> /\ Nli[o.answer] = None
    BY <1>2, <2>3 DEF Faithfulness
  <2>4. CASE o.docs # {} /\ o.answer # <<>> /\ Nli[o.answer] # None
    <3>1. Nli[o.answer] \in 0 .. 100
      BY <2>4, SyncRunAssumption
    <3>2. InUnit(Graded(Nli[o.answer], 100, t))
      BY <1>3, <3>1, Zenon
    <3> QED BY <2>4, <3>2 DEF Faithfulness
  <2> QED BY <2>1, <2>2, <2>3, <2>4
<1>10. o.latency \in Nat /\ o.cost \in Nat
  BY <1>1 DEF Outputs
<1>11. InUnit(WithinThreshold(o.latency, t)) /\ InUnit(WithinThreshold(o.cost, t))
  BY <1>8, <1>10
<1> QED BY <1>4, <1>5, <1>6, <1>7, <1>9, <1>11 DEF Evaluate, Registry

\* ScoresInUnit (SyncRun): every stored score is in [0, 1] whatever the answer, the latency
\* and the cost, unless its evaluator is configured with a negative threshold.
THEOREM ScoresStayInUnit == Spec => []ScoresInUnit
<1>1. SyncInv /\ Evaluated => ScoresInUnit
  <2> SUFFICES ASSUME SyncInv, Evaluated, NEW c \in Cases, NEW k \in DOMAIN results[c],
                      config[k].threshold >= 0
               PROVE  InUnit(results[c][k])
    BY DEF ScoresInUnit, InUnit
  <2>2. /\ k \in DOMAIN config /\ output[c] \in AdapterOutputs
        /\ results[c][k] = EvaluateCase(Payload[c], output[c], config)[k]
    BY DEF Evaluated
  <2>3. config \in Seq(Specs)
    BY SyncRunAssumption DEF SyncInv, Phases
  <2>4. config[k] \in Specs /\ c \in Suite
    BY <2>2, <2>3 DEF Cases
  <2>5. results[c][k] = IF Known(config[k]) THEN Evaluate(config[k], Payload[c], output[c]) ELSE Raised
    BY <2>2, <2>3 DEF EvaluateCase
  <2>6. CASE Known(config[k])
    BY <2>2, <2>4, <2>5, <2>6, EvaluateInUnit DEF Known
  <2>7. CASE ~ Known(config[k])
    BY <2>5, <2>7 DEF Raised, Result, InUnit
  <2> QED BY <2>6, <2>7
<1> QED BY <1>1, InitSync, NextSync, EvaluatedInit, EvaluatedStep, PTL DEF Spec
=============================================================================
