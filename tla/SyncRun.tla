------------------------------ MODULE SyncRun ------------------------------
(***************************************************************************)
(* services/run_executor.py:execute_run, the in-process executor: one      *)
(* request evaluates its cases one after another in one transaction, and   *)
(* commits run, items, traces and results together at its end.             *)
(***************************************************************************)
EXTENDS Evaluators

CONSTANTS Suite,           \* the cases of the suite
          Request,         \* case_ids of the request, None for the whole suite
          Payload,         \* per case of the suite
          AdapterOutputs,  \* what the adapter may return
          Configs          \* stored evaluator configurations

\* load_suite_cases
Cases == IF Request = None THEN Suite ELSE Range(Request) \cap Suite

ASSUME SyncRunAssumption ==
  /\ IsFiniteSet(Suite)
  /\ Request \in Seq(Suite) \cup {None}
  /\ Payload \in [Suite -> Payloads]
  /\ AdapterOutputs \subseteq Outputs /\ None \notin AdapterOutputs
  /\ \A config \in Configs : config \in Seq(Specs)
  /\ \A o \in AdapterOutputs : o.answer # <<>> => Nli[o.answer] \in 0 .. 100 \cup {None}
  /\ \A o \in AdapterOutputs, c \in Suite :
       Payload[c].expected # None /\ {o.answer, Payload[c].expected} \subseteq Embeddable \ {<<>>} =>
         Dot[<<o.answer, Payload[c].expected>>] \in Int

VARIABLES references,          \* version, suite and configuration of the request
          config,              \* the evaluator configuration
          phase,               \* of the request
          item,                \* per case, status of its EvalRunItem
          output,              \* per case, the output its Trace holds, or None
          results,             \* per case, its EvalResult rows
          measured,            \* cases whose item has its recorded latency and cost
          completed, errored,  \* the loop's counters
          stored               \* the committed EvalRun, or NoRun

vars == <<references, config, phase, item, output, results, measured, completed, errored, stored>>
rows == <<item, output, results, measured>>
input == <<references, config>>

NoRun == [status |-> "none", completed |-> 0, errored |-> 0]
-----------------------------------------------------------------------------
\* validate_selected_cases
ValidSelection ==
  IF Request = None THEN Cases # {}
  ELSE /\ IsInjective(Request)
       /\ Range(Request) \subseteq Cases

Init ==
  /\ references \in {"found", "missing", "different_apps"}
  /\ config \in Configs
  /\ phase = "requested"
  /\ item = [c \in Cases |-> "none"]
  /\ output = [c \in Cases |-> None]
  /\ results = [c \in Cases |-> <<>>]
  /\ measured = {}
  /\ completed = 0 /\ errored = 0
  /\ stored = NoRun

Reject ==
  /\ phase = "requested"
  /\ references # "found" \/ ~ ValidSelection
  /\ phase' = "rejected"
  /\ UNCHANGED <<input, rows, completed, errored, stored>>

CreateRun ==
  /\ phase = "requested"
  /\ references = "found" /\ ValidSelection
  /\ phase' = "running"
  /\ UNCHANGED <<input, rows, completed, errored, stored>>

\* The item is inserted before its case is tried.
BeginCase(c) ==
  /\ phase = "running"
  /\ \A d \in Cases : item[d] # "running"
  /\ item[c] = "none"
  /\ item' = [item EXCEPT ![c] = "running"]
  /\ UNCHANGED <<input, phase, output, results, measured, completed, errored, stored>>

CompleteCase(c) ==
  /\ phase = "running"
  /\ item[c] = "running"
  /\ \E o \in AdapterOutputs :
       /\ output' = [output EXCEPT ![c] = o]
       /\ results' = [results EXCEPT ![c] = EvaluateCase(Payload[c], o, config)]
  /\ item' = [item EXCEPT ![c] = "completed"]
  /\ measured' = measured \cup {c}
  /\ completed' = completed + 1
  /\ UNCHANGED <<input, phase, errored, stored>>

\* The adapter raises.
FailCase(c) ==
  /\ phase = "running"
  /\ item[c] = "running"
  /\ item' = [item EXCEPT ![c] = "errored"]
  /\ errored' = errored + 1
  /\ UNCHANGED <<input, phase, output, results, measured, completed, stored>>

\* An exception after the case was counted as completed: while its trace is put
\* together, or before its n-th result is added.  The handler counts the case
\* once more and keeps the measurements, the trace and the results so far.
FailCaseLate(c) ==
  /\ phase = "running"
  /\ item[c] = "running"
  /\ item' = [item EXCEPT ![c] = "errored"]
  /\ measured' = measured \cup {c}
  /\ completed' = completed + 1
  /\ errored' = errored + 1
  /\ \/ UNCHANGED <<output, results>>
     \/ \E o \in AdapterOutputs, n \in DOMAIN config \cup {1} :
          /\ output' = [output EXCEPT ![c] = o]
          /\ results' = [results EXCEPT ![c] =
                           [k \in 1 .. n - 1 |-> EvaluateCase(Payload[c], o, config)[k]]]
  /\ UNCHANGED <<input, phase, stored>>

\* Variant: a run with any completed case is completed.
FinalStatusOfCompleted == IF completed > 0 THEN "completed" ELSE "partial"

FinalStatus == IF errored = 0 THEN "completed" ELSE "partial"

Commit ==
  /\ phase = "running"
  /\ \A c \in Cases : item[c] \in {"completed", "errored"}
  /\ stored' = [status |-> FinalStatus, completed |-> completed, errored |-> errored]
  /\ phase' = "committed"
  /\ UNCHANGED <<input, rows, completed, errored>>

\* A flush or the commit fails, or the process dies: the transaction, with
\* everything in it, is rolled back.
Lose ==
  /\ phase = "running"
  /\ phase' = "lost"
  /\ UNCHANGED <<input, rows, completed, errored, stored>>

Next ==
  \/ Reject \/ CreateRun \/ Commit \/ Lose
  \/ \E c \in Cases : BeginCase(c) \/ CompleteCase(c) \/ FailCase(c) \/ FailCaseLate(c)

Spec == Init /\ [][Next]_vars
-----------------------------------------------------------------------------
(* Properties                                                              *)

Statuses == {"none", "running", "completed", "errored"}

TypeOK ==
  /\ references \in {"found", "missing", "different_apps"}
  /\ config \in Configs
  /\ phase \in {"requested", "rejected", "running", "committed", "lost"}
  /\ item \in [Cases -> Statuses]
  /\ output \in [Cases -> AdapterOutputs \cup {None}]
  /\ measured \subseteq Cases
  /\ completed \in 0 .. Cardinality(Cases) /\ errored \in 0 .. Cardinality(Cases)
  /\ stored.status \in {"none", "completed", "partial"}

\* What readers find: no run, or one in which every selected case ended.
\* case_errored counts the errored items, case_completed the measured ones: a
\* case that fails after its measurements is in both.  A completed item has its
\* measurements, its trace and a result per evaluator; an item that was not
\* measured has nothing, whatever its evaluators are.
StoredRunIsExact ==
  phase = "committed" =>
    /\ \A c \in Cases : item[c] \in {"completed", "errored"}
    /\ stored.completed = Cardinality(measured)
    /\ stored.errored = Cardinality({c \in Cases : item[c] = "errored"})
    /\ stored.status = "completed" <=> \A c \in Cases : item[c] = "completed"
    /\ \A c \in Cases :
         /\ item[c] = "completed" =>
              c \in measured /\ output[c] # None /\ DOMAIN results[c] = DOMAIN config
         /\ c \notin measured => output[c] = None
         /\ output[c] = None => results[c] = <<>>

\* The in-process executor keeps the promise of the asynchronous one: in its
\* transaction it goes through the steps of RunLifecycle, and a lost one stops.
Lifecycle ==
  INSTANCE RunLifecycle WITH
    Items <- Cases,
    phase <- CASE phase \in {"requested", "rejected"} -> "none"
               [] phase \in {"running", "lost"} -> "running"
               [] phase = "committed" -> stored.status,
    outcome <- [c \in Cases |-> IF item[c] \in {"completed", "errored"} THEN item[c]
                                                                      ELSE "pending"]

LifecycleSpec == Lifecycle!Spec

\* Where both apply, an exact match of a text with tokens has full overlap: no
\* threshold up to 1 fails the one and passes the other.
ExactMeansFullOverlap ==
  \A c \in Cases : item[c] = "completed" =>
    \A j, k \in DOMAIN results[c] :
      /\ config[j].name = "exact_match" /\ config[k].name = "token_f1_overlap"
      /\ results[c][j].outcome = "passed" /\ Payload[c].expected # <<>>
      /\ config[k].threshold <= 100 /\ Known(config[k])
      => results[c][k].outcome = "passed"

\* Scores stay within [0, 1] at every boundary of latency and cost, unless the
\* configuration gives a negative threshold.
ScoresInUnit ==
  \A c \in Cases : \A k \in DOMAIN results[c] :
    config[k].threshold >= 0 =>
      /\ results[c][k].num \in 0 .. results[c][k].den
      /\ results[c][k].den > 0
=============================================================================
