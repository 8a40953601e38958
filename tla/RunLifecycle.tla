---------------------------- MODULE RunLifecycle ----------------------------
(***************************************************************************)
(* What an asynchronous evaluation run promises its readers (dashboard,    *)
(* CLI, comparison, CI gate), with no workers, messages, leases or retries: *)
(* every case settles once, and the run's final status is derived from the *)
(* settled cases.  WorkerRun is shown to implement this specification.     *)
(***************************************************************************)
CONSTANT Items          \* the selected cases, one EvalRunItem each

VARIABLES phase,        \* EvalRun.status, "none" before the run exists
          outcome       \* per item: "pending", "completed" or "errored"

vars == <<phase, outcome>>

Finished == {"completed", "partial"}
Settled(i) == outcome[i] \in {"completed", "errored"}

\* The status a finished run deserves.
Verdict == IF \A i \in Items : outcome[i] = "completed" THEN "completed" ELSE "partial"

TypeOK ==
  /\ phase \in {"none", "running", "failed"} \cup Finished
  /\ outcome \in [Items -> {"pending", "completed", "errored"}]

Init ==
  /\ phase = "none"
  /\ outcome = [i \in Items |-> "pending"]

Start ==
  /\ phase = "none"
  /\ phase' = "running"
  /\ UNCHANGED outcome

\* One case settles, for good.
Settle(i) ==
  /\ phase = "running"
  /\ outcome[i] = "pending"
  /\ \E o \in {"completed", "errored"} : outcome' = [outcome EXCEPT ![i] = o]
  /\ UNCHANGED phase

\* The run ends once every case has settled, with the verdict of the cases.
Finish ==
  /\ phase = "running"
  /\ \A i \in Items : Settled(i)
  /\ phase' = Verdict
  /\ UNCHANGED outcome

\* The broker refused the run: no case will ever be evaluated.
Abort ==
  /\ phase = "running"
  /\ \A i \in Items : outcome[i] = "pending"
  /\ phase' = "failed"
  /\ outcome' = [i \in Items |-> "errored"]

Next == Start \/ Finish \/ Abort \/ \E i \in Items : Settle(i)

Spec == Init /\ [][Next]_vars

\* A run that was started is settled and finished, unless it is aborted.
Fairness == WF_vars(Finish) /\ \A i \in Items : WF_vars(Settle(i))
FairSpec == Spec /\ Fairness

\* A finished run carries the verdict of its cases, a failed one has no result.
VerdictAgrees ==
  /\ phase \in Finished => (\A i \in Items : Settled(i)) /\ phase = Verdict
  /\ phase = "failed" => \A i \in Items : outcome[i] = "errored"
=============================================================================
