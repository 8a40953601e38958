------------------------------ MODULE WorkerRun ------------------------------
(***************************************************************************)
(* One asynchronous evaluation run: services/run_dispatcher.py creates the *)
(* rows and submits a Celery chord, workers run workers/tasks.py:          *)
(* run_eval_case for each item, and the chord's callback                   *)
(* check_run_completion derives the final status of the run.               *)
(*                                                                         *)
(* An action is the code between two database commits (or two messages);   *)
(* a pool process or its whole node may die between any two.  Celery and   *)
(* Redis are external: a set of undelivered messages, late acknowledgement,*)
(* and a chord that counts the distinct header results it was given.       *)
(***************************************************************************)
EXTENDS Naturals, FiniteSets

CONSTANTS Items,        \* the run's cases, one EvalRunItem and one task each
          Workers,      \* worker processes
          MaxRetries,   \* run_eval_case max_retries
          Faults,       \* the kinds of fault the environment may commit
          CrashPoints,  \* the worker steps at which a whole worker node may die
          MaxFaults,    \* bound on the faults and crashes of one behaviour
          None

FaultKinds == {"partial_submit", "api_crash", "connection_loss", "task_failure", "callback_error"}

\* run_eval_case, step by step; "get" to "write" are inside its try block.
TrySteps == {"get", "claim", "clear", "call", "count", "write"}
Steps == TrySteps \cup {"final", "mark", "return", "retried", "acking"}

ASSUME ConstantsAssumption ==
  /\ IsFiniteSet(Items)
  /\ None \notin Items
  /\ MaxRetries \in Nat
  /\ MaxFaults \in Nat
  /\ Faults \subseteq FaultKinds
  /\ CrashPoints \subseteq Steps

Terminal == {"completed", "errored"}
Unsettled == {"queued", "running"}
Finished == {"completed", "partial"}
Skips == {"already_completed", "already_errored", "already_in_progress"}

Message == [item : Items, retries : 0 .. MaxRetries]
Tally == [completed : 0 .. Cardinality(Items), errored : 0 .. Cardinality(Items)]

VARIABLES
  dispatch,   \* where dispatch_run stands
  run,        \* the EvalRun row
  status,     \* EvalRunItem.status; "absent" before the rows exist
  owner,      \* EvalRunItem.worker_task_id; an item's task id is the item
  lease,      \* EvalRunItem.lease_expires_at against the clock
  evidence,   \* items that own a Trace and its EvalResults (one transaction)
  queue,      \* messages the broker has yet to deliver
  pc,         \* the step each worker is about to take
  msg,        \* the delivery each worker holds, unacknowledged
  result,     \* what the task is going to return
  seen,       \* the item counts read by the progress UPDATE of each worker
  parts,      \* header results the chord has collected
  callbacks,  \* check_run_completion messages to be delivered
  check,      \* the check_run_completion in progress, with the counts it read
  failedTasks,\* items whose task the result backend holds as failed
  faults      \* faults so far

runVars == <<dispatch, run>>
itemVars == <<status, owner, lease, evidence>>
workerVars == <<pc, msg, result, seen>>
chordVars == <<parts, callbacks, check, failedTasks>>
vars == <<dispatch, run, status, owner, lease, evidence, queue, pc, msg, result, seen,
          parts, callbacks, check, failedTasks, faults>>

NoMessage == [item |-> None, retries |-> 0]
ZeroTally == [completed |-> 0, errored |-> 0]
NoCheck == [active |-> FALSE, tally |-> ZeroTally]

TypeOK ==
  /\ dispatch \in {"start", "submit", "undo", "sent", "failed", "dead"}
  /\ run \in [status : {"none", "running", "failed"} \cup Finished,
              completed : 0 .. Cardinality(Items), errored : 0 .. Cardinality(Items)]
  /\ status \in [Items -> {"absent"} \cup Unsettled \cup Terminal]
  /\ owner \in [Items -> Items \cup {None}]
  /\ lease \in [Items -> {"none", "live", "lapsed"}]
  /\ evidence \subseteq Items
  /\ queue \subseteq Message
  /\ pc \in [Workers -> {"idle"} \cup Steps]
  /\ msg \in [Workers -> Message \cup {NoMessage}]
  /\ \A w \in Workers : pc[w] # "idle" => msg[w] \in Message
  /\ result \in [Workers -> {"none"} \cup Terminal \cup Skips]
  /\ seen \in [Workers -> Tally]
  /\ parts \subseteq [item : Items, result : {"none", "failure"} \cup Terminal \cup Skips]
  /\ callbacks \in Nat
  /\ check \in [active : BOOLEAN, tally : Tally]
  /\ failedTasks \subseteq Items
  /\ faults \in 0 .. MaxFaults

Init ==
  /\ dispatch = "start"
  /\ run = [status |-> "none", completed |-> 0, errored |-> 0]
  /\ status = [i \in Items |-> "absent"]
  /\ owner = [i \in Items |-> None]
  /\ lease = [i \in Items |-> "none"]
  /\ evidence = {}
  /\ queue = {}
  /\ pc = [w \in Workers |-> "idle"]
  /\ msg = [w \in Workers |-> NoMessage]
  /\ result = [w \in Workers |-> "none"]
  /\ seen = [w \in Workers |-> ZeroTally]
  /\ parts = {}
  /\ callbacks = 0
  /\ check = NoCheck
  /\ failedTasks = {}
  /\ faults = 0

-----------------------------------------------------------------------------
\* Item counts, as the SQL of _refresh_run_progress and check_run_completion
\* computes them from the item rows.
WithStatus(s) == {i \in Items : status[i] = s}
ItemCounts == [completed |-> Cardinality(WithStatus("completed")),
               errored |-> Cardinality(WithStatus("errored"))]

\* One more fault of the given kind.
Fault(kind) ==
  /\ kind \in Faults
  /\ faults < MaxFaults
  /\ faults' = faults + 1

-----------------------------------------------------------------------------
(* dispatch_run                                                            *)

\* The run and its queued items are committed together.
CreateRun ==
  /\ dispatch = "start"
  /\ dispatch' = "submit"
  /\ run' = [run EXCEPT !.status = "running"]
  /\ status' = [i \in Items |-> "queued"]
  /\ UNCHANGED <<owner, lease, evidence, queue, workerVars, chordVars, faults>>

FirstDelivery(S) == {[item |-> i, retries |-> 0] : i \in S}

\* The chord reaches the broker, one message per item; without items there is
\* no chord, hence no callback.
Submit ==
  /\ dispatch = "submit"
  /\ dispatch' = "sent"
  /\ queue' = FirstDelivery(Items)
  /\ UNCHANGED <<run, itemVars, workerVars, chordVars, faults>>

\* apply_async (not called without tasks) raises before it publishes any ...
SubmitRefused ==
  /\ dispatch = "submit" /\ Items # {}
  /\ dispatch' = "undo"
  /\ UNCHANGED <<run, itemVars, queue, workerVars, chordVars, faults>>

\* ... or after some, even all, of them were.
SubmitInterrupted ==
  /\ dispatch = "submit"
  /\ Fault("partial_submit")
  /\ dispatch' = "undo"
  /\ \E S \in SUBSET Items \ {{}} : queue' = FirstDelivery(S)
  /\ UNCHANGED <<run, itemVars, workerVars, chordVars>>

\* The except branch overwrites the run and every item it created, whatever
\* the workers have made of them since.
UndoSubmit ==
  /\ dispatch = "undo"
  /\ dispatch' = "failed"
  /\ run' = [run EXCEPT !.status = "failed", !.errored = Cardinality(Items)]
  /\ status' = [i \in Items |-> "errored"]
  /\ UNCHANGED <<owner, lease, evidence, queue, workerVars, chordVars, faults>>

\* The API process dies between the commit and the submission (or its undo).
ApiCrash ==
  /\ dispatch \in {"submit", "undo"}
  /\ Fault("api_crash")
  /\ dispatch' = "dead"
  /\ UNCHANGED <<run, itemVars, queue, workerVars, chordVars>>

-----------------------------------------------------------------------------
(* run_eval_case                                                           *)

At(w, step) == w \in Workers /\ pc[w] = step
Goto(w, step) == pc' = [pc EXCEPT ![w] = step]
Item(w) == msg[w].item

\* The worker process is done with its delivery.
Release(w) ==
  /\ Goto(w, "idle")
  /\ msg' = [msg EXCEPT ![w] = NoMessage]
  /\ result' = [result EXCEPT ![w] = "none"]
  /\ seen' = [seen EXCEPT ![w] = ZeroTally]

\* The broker delivers a message to a free worker (prefetch 1, late ack).
Deliver(w, m) ==
  /\ At(w, "idle") /\ m \in queue
  /\ Goto(w, "get")
  /\ queue' = queue \ {m}
  /\ msg' = [msg EXCEPT ![w] = m]
  /\ UNCHANGED <<runVars, itemVars, result, seen, chordVars, faults>>

Already == [completed |-> "already_completed", errored |-> "already_errored"]

\* A terminal item is skipped.
SkipTerminal(w) ==
  /\ At(w, "get") /\ status[Item(w)] \in Terminal
  /\ Goto(w, "return")
  /\ result' = [result EXCEPT ![w] = Already[status[Item(w)]]]
  /\ UNCHANGED <<runVars, itemVars, queue, msg, seen, chordVars, faults>>

GetItem(w) ==
  /\ At(w, "get") /\ status[Item(w)] \notin Terminal
  /\ Goto(w, "claim")
  /\ UNCHANGED <<runVars, itemVars, queue, msg, result, seen, chordVars, faults>>

\* Variants: a claim that forgets the item's status, and one that forgets that
\* a redelivery or retry has the task id of the lease it meets.
ClaimableWhatever(i) == i \in Items
ClaimableUnleased(i) ==
  status[i] = "queued" \/ (status[i] = "running" /\ lease[i] \in {"none", "lapsed"})

\* The WHERE clause of the claim UPDATE for a delivery of item i's task.
Claimable(i) ==
  \/ status[i] = "queued"
  \/ /\ status[i] = "running"
     /\ owner[i] = i \/ lease[i] \in {"none", "lapsed"}

\* A retry first deletes what an earlier attempt may have left.
ClaimItem(w) ==
  /\ At(w, "claim") /\ Claimable(Item(w))
  /\ status' = [status EXCEPT ![Item(w)] = "running"]
  /\ owner' = [owner EXCEPT ![Item(w)] = Item(w)]
  /\ lease' = [lease EXCEPT ![Item(w)] = "live"]
  /\ Goto(w, IF msg[w].retries > 0 THEN "clear" ELSE "call")
  /\ UNCHANGED <<runVars, evidence, queue, msg, result, seen, chordVars, faults>>

ClaimRefused(w) ==
  /\ At(w, "claim") /\ ~ Claimable(Item(w))
  /\ Goto(w, "return")
  /\ result' = [result EXCEPT ![w] = "already_in_progress"]
  /\ UNCHANGED <<runVars, itemVars, queue, msg, seen, chordVars, faults>>

\* _clear_stale_data, a transaction of its own that does not look at the item.
ClearStaleData(w) ==
  /\ At(w, "clear")
  /\ evidence' = evidence \ {Item(w)}
  /\ Goto(w, "call")
  /\ UNCHANGED <<runVars, status, owner, lease, queue, msg, result, seen, chordVars, faults>>

\* Adapter and evaluators succeed: the item's fields, its trace and results in
\* one commit.  The unique keys reject a second trace: then only Fail remains.
CompleteItem(w) ==
  /\ At(w, "call") /\ Item(w) \notin evidence
  /\ status' = [status EXCEPT ![Item(w)] = "completed"]
  /\ lease' = [lease EXCEPT ![Item(w)] = "none"]
  /\ evidence' = evidence \cup {Item(w)}
  /\ result' = [result EXCEPT ![w] = "completed"]
  /\ Goto(w, "count")
  /\ UNCHANGED <<runVars, owner, queue, msg, seen, chordVars, faults>>

\* _refresh_run_progress: one UPDATE whose counts come from the snapshot the
\* statement started with, even when it then waits for the lock of the run row.
CountItems(w) ==
  /\ At(w, "count")
  /\ seen' = [seen EXCEPT ![w] = ItemCounts]
  /\ Goto(w, "write")
  /\ UNCHANGED <<runVars, itemVars, queue, msg, result, chordVars, faults>>

\* (Variant: counters incremented per outcome instead of recounted.)
WriteIncrement(w) ==
  /\ At(w, "write")
  /\ run' = IF result[w] = "completed" THEN [run EXCEPT !.completed = @ + 1]
                                      ELSE [run EXCEPT !.errored = @ + 1]
  /\ seen' = [seen EXCEPT ![w] = ZeroTally]
  /\ Goto(w, "return")
  /\ UNCHANGED <<dispatch, itemVars, queue, msg, result, chordVars, faults>>

WriteProgress(w) ==
  /\ At(w, "write")
  /\ run' = [run EXCEPT !.completed = seen[w].completed, !.errored = seen[w].errored]
  /\ seen' = [seen EXCEPT ![w] = ZeroTally]
  /\ Goto(w, "return")
  /\ UNCHANGED <<dispatch, itemVars, queue, msg, result, chordVars, faults>>

\* Any exception in the try block; one raised by the handler itself is a
\* TaskFailure.
InTry(w) == w \in Workers /\ pc[w] \in TrySteps /\ result[w] # "errored"

\* Variants of a retry: without the max_retries bound, counted as a failure,
\* published along with the task it replaces, and not published at all.
RetryUnbounded(w) ==
  /\ InTry(w)
  /\ queue' = queue \cup {[msg[w] EXCEPT !.retries = @ + 1]}
  /\ Goto(w, "retried")
  /\ UNCHANGED <<runVars, itemVars, msg, result, seen, chordVars, faults>>

RetryCounted(w) ==
  /\ InTry(w) /\ msg[w].retries < MaxRetries
  /\ queue' = queue \cup {[msg[w] EXCEPT !.retries = @ + 1]}
  /\ run' = [run EXCEPT !.errored = @ + 1]
  /\ Goto(w, "retried")
  /\ UNCHANGED <<dispatch, itemVars, msg, result, seen, chordVars, faults>>

RetryDuplicated(w) ==
  /\ InTry(w) /\ msg[w].retries < MaxRetries
  /\ queue' = queue \cup {msg[w], [msg[w] EXCEPT !.retries = @ + 1]}
  /\ Goto(w, "retried")
  /\ UNCHANGED <<runVars, itemVars, msg, result, seen, chordVars, faults>>

RetryUnpublished(w) ==
  /\ InTry(w) /\ msg[w].retries < MaxRetries
  /\ Goto(w, "retried")
  /\ UNCHANGED <<runVars, itemVars, queue, msg, result, seen, chordVars, faults>>

\* Transient: self.retry publishes the task again, same id, one retry more.
FailTransient(w) ==
  /\ InTry(w) /\ msg[w].retries < MaxRetries
  /\ queue' = queue \cup {[msg[w] EXCEPT !.retries = @ + 1]}
  /\ Goto(w, "retried")
  /\ UNCHANGED <<runVars, itemVars, msg, result, seen, chordVars, faults>>

FailPermanent(w) ==
  /\ InTry(w)
  /\ Goto(w, "final")
  /\ UNCHANGED <<runVars, itemVars, queue, msg, result, seen, chordVars, faults>>

\* (Variant: the final failure does not look at the item again.)
ReadFinalNot(w) ==
  /\ At(w, "final")
  /\ Goto(w, "mark")
  /\ UNCHANGED <<runVars, itemVars, queue, msg, result, seen, chordVars, faults>>

\* The final failure reads the item again ...
ReadFinal(w) ==
  /\ At(w, "final")
  /\ IF status[Item(w)] \in Terminal
       THEN Goto(w, "return") /\ result' = [result EXCEPT ![w] = "errored"]
       ELSE Goto(w, "mark") /\ UNCHANGED result
  /\ UNCHANGED <<runVars, itemVars, queue, msg, seen, chordVars, faults>>

\* ... and marks it errored without locking it in between.
MarkErrored(w) ==
  /\ At(w, "mark")
  /\ status' = [status EXCEPT ![Item(w)] = "errored"]
  /\ lease' = [lease EXCEPT ![Item(w)] = "none"]
  /\ result' = [result EXCEPT ![w] = "errored"]
  /\ Goto(w, "count")
  /\ UNCHANGED <<runVars, owner, evidence, queue, msg, seen, chordVars, faults>>

-----------------------------------------------------------------------------
(* Celery: results, acknowledgement, redelivery                            *)

\* The chord keeps the set of distinct header results; the one that makes it
\* as large as the header ends it, with the callback unless a task failed.
RecordPart(p) ==
  LET all == parts \cup {p} IN
  IF Cardinality(all) = Cardinality(Items)
    THEN /\ parts' = {}
         /\ callbacks' = callbacks + (IF \A q \in all : q.result # "failure" THEN 1 ELSE 0)
    ELSE parts' = all /\ UNCHANGED callbacks

ReturnResult(w) ==
  /\ At(w, "return")
  /\ RecordPart([item |-> Item(w), result |-> result[w]])
  /\ Goto(w, "acking")
  /\ UNCHANGED <<runVars, itemVars, queue, msg, result, seen, check, failedTasks, faults>>

Acknowledge(w) ==
  /\ w \in Workers /\ pc[w] \in {"acking", "retried"}
  /\ Release(w)
  /\ UNCHANGED <<runVars, itemVars, queue, chordVars, faults>>

\* A worker's node dies, its consumer with it: nobody acknowledges the message,
\* so that the broker delivers it again.  Workers of one node die one by one.
NodeCrash(w) ==
  /\ w \in Workers /\ pc[w] \in CrashPoints
  /\ faults < MaxFaults
  /\ faults' = faults + 1
  /\ queue' = queue \cup {msg[w]}
  /\ Release(w)
  /\ UNCHANGED <<runVars, itemVars, chordVars>>

\* The broker loses the connection and delivers the message again, while the
\* first execution goes on.
ConnectionLoss(w) ==
  /\ w \in Workers /\ pc[w] # "idle"
  /\ Fault("connection_loss")
  /\ queue' = queue \cup {msg[w]}
  /\ UNCHANGED <<runVars, itemVars, workerVars, chordVars>>

\* The hard time limit, a pool process that is lost (killed, out of memory), or
\* an exception inside the handler.  The consumer survives: the task fails, and
\* since task_reject_on_worker_lost is not set its message is acknowledged all
\* the same; its chord will never call back.
TaskFailure(w) ==
  /\ w \in Workers /\ pc[w] # "idle"
  /\ Fault("task_failure")
  /\ RecordPart([item |-> Item(w), result |-> "failure"])
  /\ failedTasks' = failedTasks \cup {Item(w)}
  /\ Release(w)
  /\ UNCHANGED <<runVars, itemVars, queue, check>>

\* A lease outlives any execution (240s against the 180s hard limit): it can
\* lapse only when no worker is executing the item it was taken for.
LeaseLapses(i) ==
  /\ lease[i] = "live"
  /\ \A w \in Workers : pc[w] = "idle" \/ Item(w) # i
  /\ lease' = [lease EXCEPT ![i] = "lapsed"]
  /\ UNCHANGED <<runVars, status, owner, evidence, queue, workerVars, chordVars, faults>>

-----------------------------------------------------------------------------
(* check_run_completion                                                    *)

\* Variants: off by one, a verdict that tolerates
\* errors, and an UPDATE that trusts the progress counters.
AllButOneCounted(t) == t.completed + t.errored + 1 >= Cardinality(Items)
VerdictOfCompleted(t) == IF t.completed > 0 THEN "completed" ELSE "partial"
CheckWriteStatus ==
  /\ check.active
  /\ run' = [run EXCEPT !.status = IF check.tally.errored = 0 THEN "completed" ELSE "partial"]
  /\ check' = NoCheck
  /\ UNCHANGED <<dispatch, itemVars, queue, workerVars, parts, callbacks, failedTasks, faults>>

AllCounted(t) == t.completed + t.errored >= Cardinality(Items)
RunVerdict(t) == IF t.errored = 0 THEN "completed" ELSE "partial"

\* The SELECT: a run with open items is left alone, for good.
CheckRead ==
  /\ callbacks > 0 /\ ~ check.active
  /\ callbacks' = callbacks - 1
  /\ check' = IF AllCounted(ItemCounts) THEN [active |-> TRUE, tally |-> ItemCounts] ELSE check
  /\ UNCHANGED <<runVars, itemVars, queue, workerVars, parts, failedTasks, faults>>

\* The UPDATE, whatever the run's status has become.
CheckWrite ==
  /\ check.active
  /\ run' = [status |-> RunVerdict(check.tally),
             completed |-> check.tally.completed, errored |-> check.tally.errored]
  /\ check' = NoCheck
  /\ UNCHANGED <<dispatch, itemVars, queue, workerVars, parts, callbacks, failedTasks, faults>>

\* The callback has no retry: an exception ends it.
CheckFails ==
  /\ check.active
  /\ Fault("callback_error")
  /\ check' = NoCheck
  /\ UNCHANGED <<runVars, itemVars, queue, workerVars, parts, callbacks, failedTasks>>

-----------------------------------------------------------------------------
WorkerStep(w) ==
  \/ SkipTerminal(w) \/ GetItem(w) \/ ClaimItem(w) \/ ClaimRefused(w)
  \/ ClearStaleData(w) \/ CompleteItem(w) \/ CountItems(w) \/ WriteProgress(w)
  \/ FailTransient(w) \/ FailPermanent(w) \/ ReadFinal(w) \/ MarkErrored(w)
  \/ ReturnResult(w) \/ Acknowledge(w)

DispatchStep == CreateRun \/ Submit \/ SubmitRefused \/ UndoSubmit
CheckStep == CheckRead \/ CheckWrite

FaultStep ==
  \/ SubmitInterrupted \/ ApiCrash \/ CheckFails
  \/ \E w \in Workers : NodeCrash(w) \/ ConnectionLoss(w) \/ TaskFailure(w)

Next ==
  \/ DispatchStep \/ CheckStep \/ FaultStep
  \/ \E w \in Workers : WorkerStep(w) \/ \E m \in queue : Deliver(w, m)
  \/ \E i \in Items : LeaseLapses(i)

Spec == Init /\ [][Next]_vars

\* A started request, a running task and a consumed queue make progress; the
\* environment owes no fault and no lapse.
Fairness ==
  /\ WF_vars(DispatchStep) /\ WF_vars(CheckStep)
  /\ \A w \in Workers : WF_vars(WorkerStep(w))
  /\ WF_vars(\E w \in Workers, m \in queue : Deliver(w, m))

FairSpec == Spec /\ Fairness
-----------------------------------------------------------------------------
(* Properties                                                              *)

\* What the broker must guarantee for an item to have one live delivery: no
\* redelivery of a running task, none of a task whose retry is already
\* published, and no partly submitted run that is undone.
OneDelivery ==
  /\ Faults \cap {"connection_loss", "partial_submit"} = {}
  /\ "retried" \notin CrashPoints

\* However often a task is delivered, an item that is completed or errored
\* never becomes open again: the claim is a conditional update.
SettledStaysSettled ==
  [][\A i \in Items : status[i] \in Terminal => status'[i] \in Terminal]_vars

\* An execution that may still touch its item: not over, and not replaced by
\* a retry it has published.
Live(w) == pc[w] \notin {"idle", "retried"}

\* The exclusion the lease does not provide (every delivery of an item has the
\* same task id) is provided by the broker's bookkeeping: an item has at most
\* one message or live execution, through retries, crashes and redeliveries.
UniqueDelivery ==
  /\ \A w1, w2 \in Workers : Live(w1) /\ Live(w2) /\ Item(w1) = Item(w2) => w1 = w2
  /\ \A w \in Workers, m \in queue : Live(w) => m.item # Item(w)
  /\ \A m1, m2 \in queue : m1.item = m2.item => m1 = m2

\* With one live delivery per item, the first terminal status of an item is
\* its last: neither a retry, a redelivery after a crash nor a failure after
\* the commit (say, in the progress update) changes it.
TerminalItemsFinal ==
  [][\A i \in Items : status[i] \in Terminal => status'[i] = status[i]]_vars

\* The results page, comparison and gate read traces and results of completed
\* items: an item has them exactly when it is completed.
EvidenceMatchesStatus ==
  \A i \in Items : status[i] = "completed" <=> i \in evidence

\* Progress shown while a run is running may lag behind the items (a worker
\* died before its recount, or a stale snapshot was written last), but it never
\* reports an item that has not settled so.
CountersNeverAhead ==
  run.status # "failed" =>
    /\ run.completed <= ItemCounts.completed
    /\ run.errored <= ItemCounts.errored

\* Even under duplicate delivery the recount keeps progress within the run.
CountersBounded ==
  run.status # "failed" => run.completed + run.errored <= Cardinality(Items)

\* Whatever the deliveries, a run is only finalised once all its items settled.
FinishedRunIsSettled ==
  run.status \in Finished => \A i \in Items : status[i] \in Terminal

\* When every header result is recorded once, a final status and its counters
\* are those of the items, and no late progress update spoils them.
FinalRunIsExact ==
  run.status \in Finished =>
    /\ run.completed = ItemCounts.completed
    /\ run.errored = ItemCounts.errored
    /\ run.completed + run.errored = Cardinality(Items)
    /\ run.status = RunVerdict(ItemCounts)

\* While a submitted run has an open item, the broker or a worker holds a
\* delivery of its task, or the task is on record as failed: no message is
\* consumed silently, neither by a crash nor by a claim or skip that leaves the
\* item to an execution that is gone.
NoLostItem ==
  dispatch = "sent" =>
    \A i \in Items : status[i] \in Unsettled =>
      \/ \E m \in queue : m.item = i
      \/ \E w \in Workers : pc[w] # "idle" /\ Item(w) = i
      \/ i \in failedTasks

\* Every run that is created ends: the dashboard, CLI and comparison poll for
\* this.
RunEventuallyFinished ==
  run.status = "running" ~> run.status \in Finished \cup {"failed"}

\* The run seen by its readers implements RunLifecycle.
Lifecycle == INSTANCE RunLifecycle WITH
  phase <- run.status,
  outcome <- [i \in Items |-> IF status[i] \in Terminal THEN status[i] ELSE "pending"]

\* Items settle once and the run ends with their verdict.
LifecycleSpec == Lifecycle!Spec

\* ... and, without faults that lose the callback, it does end.
LifecycleFairSpec == Lifecycle!FairSpec
=============================================================================
