-------------------------- MODULE WorkerRun_proofs --------------------------
(* Proofs about WorkerRun, for every number of items, workers, retries and *)
(* faults.                                                                 *)
EXTENDS WorkerRun, FiniteSetTheorems, TLAPS

\* The number of items is a natural number.
LEMMA ItemsCard == Cardinality(Items) \in Nat
BY FS_CardinalityType, ConstantsAssumption

\* The counts the SQL computes are between zero and the number of items.
LEMMA CountsType == ItemCounts \in Tally
<1>1. ASSUME NEW s PROVE Cardinality(WithStatus(s)) \in 0 .. Cardinality(Items)
  <2>1. WithStatus(s) \in SUBSET Items
    BY DEF WithStatus
  <2>2. IsFiniteSet(WithStatus(s)) /\ Cardinality(WithStatus(s)) <= Cardinality(Items)
    BY <2>1, FS_Subset, ConstantsAssumption
  <2>3. Cardinality(WithStatus(s)) \in Nat
    BY <2>2, FS_CardinalityType
  <2> QED BY <2>2, <2>3, ItemsCard
<1> QED BY <1>1 DEF ItemCounts, Tally

\* Type correctness: whatever the faults, every variable keeps to its type; in
\* particular no retry exceeds max_retries and no counter the number of items.
THEOREM TypeCorrect == Spec => []TypeOK
<1> USE ConstantsAssumption, ItemsCard
<1>1. Init => TypeOK
  BY DEF Init, TypeOK, NoMessage, ZeroTally, NoCheck, Tally
<1>2. TypeOK /\ [Next]_vars => TypeOK'
  <2> SUFFICES ASSUME TypeOK, [Next]_vars PROVE TypeOK'
    OBVIOUS
  <2> USE DEF TypeOK, At, Goto, Item, runVars, itemVars, workerVars, chordVars,
              Steps, TrySteps, Terminal, Unsettled, Finished, Skips
  <2>1. CASE CreateRun
    BY <2>1 DEF CreateRun
  <2>2. CASE Submit
    BY <2>2 DEF Submit, FirstDelivery, Message
  <2>3. CASE SubmitRefused
    BY <2>3 DEF SubmitRefused
  <2>4. CASE UndoSubmit
    <3>1. Cardinality(Items) \in 0 .. Cardinality(Items)
      OBVIOUS
    <3>2. run' = [status |-> "failed", completed |-> run.completed,
                  errored |-> Cardinality(Items)]
      BY <2>4 DEF UndoSubmit
    <3> QED BY <2>4, <3>1, <3>2 DEF UndoSubmit
  <2>5. CASE CheckRead
    BY <2>5, CountsType DEF CheckRead, AllCounted
  <2>6. CASE CheckWrite
    BY <2>6 DEF CheckWrite, RunVerdict, NoCheck, ZeroTally, Tally
  <2>7. CASE SubmitInterrupted
    BY <2>7 DEF SubmitInterrupted, Fault, FirstDelivery, Message
  <2>8. CASE ApiCrash
    BY <2>8 DEF ApiCrash, Fault
  <2>9. CASE CheckFails
    BY <2>9 DEF CheckFails, Fault, NoCheck, ZeroTally, Tally
  <2>10. ASSUME NEW w \in Workers, NodeCrash(w) PROVE TypeOK'
    BY <2>10 DEF NodeCrash, Release, NoMessage, ZeroTally, Tally
  <2>11. ASSUME NEW w \in Workers, ConnectionLoss(w) PROVE TypeOK'
    BY <2>11 DEF ConnectionLoss, Fault
  <2>12. ASSUME NEW w \in Workers, TaskFailure(w) PROVE TypeOK'
    BY <2>12 DEF TaskFailure, Fault, Release, RecordPart, NoMessage, ZeroTally, Tally, Message
  <2>13. ASSUME NEW w \in Workers, SkipTerminal(w) PROVE TypeOK'
    BY <2>13 DEF SkipTerminal, Already, Message
  <2>14. ASSUME NEW w \in Workers, GetItem(w) PROVE TypeOK'
    BY <2>14 DEF GetItem
  <2>15. ASSUME NEW w \in Workers, ClaimItem(w) PROVE TypeOK'
    BY <2>15 DEF ClaimItem, Message
  <2>16. ASSUME NEW w \in Workers, ClaimRefused(w) PROVE TypeOK'
    BY <2>16 DEF ClaimRefused
  <2>17. ASSUME NEW w \in Workers, ClearStaleData(w) PROVE TypeOK'
    BY <2>17 DEF ClearStaleData
  <2>18. ASSUME NEW w \in Workers, CompleteItem(w) PROVE TypeOK'
    BY <2>18 DEF CompleteItem, Message
  <2>19. ASSUME NEW w \in Workers, CountItems(w) PROVE TypeOK'
    BY <2>19, CountsType DEF CountItems
  <2>20. ASSUME NEW w \in Workers, WriteProgress(w) PROVE TypeOK'
    <3>1. run' \in [status : {"none", "running", "failed"} \cup Finished,
                    completed : 0 .. Cardinality(Items), errored : 0 .. Cardinality(Items)]
      BY <2>20 DEF WriteProgress, Tally
    <3>2. seen' \in [Workers -> Tally]
      BY <2>20 DEF WriteProgress, ZeroTally, Tally
    <3> QED BY <2>20, <3>1, <3>2 DEF WriteProgress
  <2>21. ASSUME NEW w \in Workers, FailTransient(w) PROVE TypeOK'
    BY <2>21 DEF FailTransient, InTry, Message
  <2>22. ASSUME NEW w \in Workers, FailPermanent(w) PROVE TypeOK'
    BY <2>22 DEF FailPermanent, InTry
  <2>23. ASSUME NEW w \in Workers, ReadFinal(w) PROVE TypeOK'
    BY <2>23 DEF ReadFinal
  <2>24. ASSUME NEW w \in Workers, MarkErrored(w) PROVE TypeOK'
    BY <2>24 DEF MarkErrored
  <2>25. ASSUME NEW w \in Workers, ReturnResult(w) PROVE TypeOK'
    BY <2>25 DEF ReturnResult, RecordPart, Message
  <2>26. ASSUME NEW w \in Workers, Acknowledge(w) PROVE TypeOK'
    BY <2>26 DEF Acknowledge, Release, NoMessage, ZeroTally, Tally
  <2>27. ASSUME NEW w \in Workers, NEW m \in queue, Deliver(w, m) PROVE TypeOK'
    BY <2>27 DEF Deliver
  <2>28. ASSUME NEW i \in Items, LeaseLapses(i) PROVE TypeOK'
    BY <2>28 DEF LeaseLapses
  <2>29. CASE UNCHANGED vars
    BY <2>29 DEF vars
  <2> QED
    BY <2>1, <2>2, <2>3, <2>4, <2>5, <2>6, <2>7, <2>8, <2>9, <2>10, <2>11, <2>12, <2>13,
       <2>14, <2>15, <2>16, <2>17, <2>18, <2>19, <2>20, <2>21, <2>22, <2>23, <2>24, <2>25,
       <2>26, <2>27, <2>28, <2>29
       DEF Next, DispatchStep, CheckStep, FaultStep, WorkerStep
<1> QED BY <1>1, <1>2, PTL DEF Spec

-----------------------------------------------------------------------------
(* Under every fault                                                       *)

\* Only these actions change an item's status.
LEMMA StatusSteps ==
  ASSUME [Next]_vars
  PROVE  \/ UNCHANGED status
         \/ CreateRun
         \/ UndoSubmit
         \/ \E w \in Workers : ClaimItem(w) \/ CompleteItem(w) \/ MarkErrored(w)
<1> USE DEF runVars, itemVars, workerVars, chordVars
<1>1. CASE UNCHANGED vars
  BY <1>1 DEF vars
<1>2. CASE DispatchStep
  BY <1>2 DEF DispatchStep, Submit, SubmitRefused
<1>3. CASE CheckStep
  BY <1>3 DEF CheckStep, CheckRead, CheckWrite
<1>4. CASE FaultStep
  BY <1>4 DEF FaultStep, SubmitInterrupted, ApiCrash, CheckFails, NodeCrash,
              ConnectionLoss, TaskFailure
<1>5. ASSUME NEW w \in Workers, WorkerStep(w)
      PROVE  UNCHANGED status \/ ClaimItem(w) \/ CompleteItem(w) \/ MarkErrored(w)
  BY <1>5 DEF WorkerStep, SkipTerminal, GetItem, ClaimRefused, ClearStaleData, CountItems,
              WriteProgress, FailTransient, FailPermanent, ReadFinal, ReturnResult, Acknowledge
<1>6. ASSUME NEW w \in Workers, NEW m \in queue, Deliver(w, m)
      PROVE  UNCHANGED status
  BY <1>6 DEF Deliver
<1>7. ASSUME NEW i \in Items, LeaseLapses(i)
      PROVE  UNCHANGED status
  BY <1>7 DEF LeaseLapses
<1> QED BY <1>1, <1>2, <1>3, <1>4, <1>5, <1>6, <1>7 DEF Next

\* Before dispatch_run commits its rows nothing exists, nothing is queued and
\* no worker or callback runs.
NotStarted ==
  dispatch = "start" =>
    /\ run.status = "none"
    /\ \A i \in Items : status[i] = "absent"
    /\ queue = {} /\ callbacks = 0 /\ ~ check.active
    /\ \A w \in Workers : pc[w] = "idle"

LEMMA NotStartedInvariant == Spec => []NotStarted
<1>1. Init => NotStarted
  BY DEF Init, NotStarted, NoCheck
<1>2. TypeOK /\ NotStarted /\ [Next]_vars => NotStarted'
  <2> SUFFICES ASSUME TypeOK, NotStarted, [Next]_vars PROVE NotStarted'
    OBVIOUS
  <2> USE DEF NotStarted, runVars, itemVars, workerVars, chordVars, At, InTry, Fault
  <2>1. CASE DispatchStep
    BY <2>1 DEF DispatchStep, CreateRun, Submit, SubmitRefused, UndoSubmit
  <2>2. CASE CheckStep
    BY <2>2 DEF CheckStep, CheckRead, CheckWrite
  <2>3. CASE SubmitInterrupted \/ ApiCrash \/ CheckFails
    BY <2>3 DEF SubmitInterrupted, ApiCrash, CheckFails
  <2>4. ASSUME NEW w \in Workers, NodeCrash(w) \/ ConnectionLoss(w) \/ TaskFailure(w)
        PROVE  NotStarted'
    BY <2>4, ConstantsAssumption DEF NodeCrash, ConnectionLoss, TaskFailure, Steps, TrySteps
  <2>5. ASSUME NEW w \in Workers, WorkerStep(w) PROVE NotStarted'
    <3>1. pc[w] # "idle" /\ UNCHANGED dispatch
      BY <2>5 DEF WorkerStep, SkipTerminal, GetItem, ClaimItem, ClaimRefused, ClearStaleData,
           CompleteItem, CountItems, WriteProgress, FailTransient, FailPermanent, ReadFinal,
           MarkErrored, ReturnResult, Acknowledge, TrySteps
    <3> QED BY <3>1
  <2>6. ASSUME NEW w \in Workers, NEW m \in queue, Deliver(w, m) PROVE NotStarted'
    BY <2>6 DEF Deliver
  <2>7. ASSUME NEW i \in Items, LeaseLapses(i) PROVE NotStarted'
    BY <2>7 DEF LeaseLapses
  <2>8. CASE UNCHANGED vars
    BY <2>8 DEF vars
  <2> QED BY <2>1, <2>2, <2>3, <2>4, <2>5, <2>6, <2>7, <2>8 DEF Next, FaultStep
<1> QED BY <1>1, <1>2, TypeCorrect, PTL DEF Spec

LEMMA SettledStep ==
  ASSUME TypeOK, NotStarted, [Next]_vars, NEW i \in Items, status[i] \in Terminal
  PROVE  status'[i] \in Terminal
<1> USE DEF TypeOK, Terminal, Unsettled
<1>1. CASE UNCHANGED status
  BY <1>1
<1>2. CASE CreateRun
  BY <1>2 DEF CreateRun, NotStarted
<1>3. CASE UndoSubmit
  BY <1>3 DEF UndoSubmit
<1>4. ASSUME NEW w \in Workers, ClaimItem(w) PROVE status'[i] \in Terminal
  BY <1>4 DEF ClaimItem, Claimable
<1>5. ASSUME NEW w \in Workers, CompleteItem(w) PROVE status'[i] \in Terminal
  BY <1>5 DEF CompleteItem
<1>6. ASSUME NEW w \in Workers, MarkErrored(w) PROVE status'[i] \in Terminal
  BY <1>6 DEF MarkErrored
<1> QED BY <1>1, <1>2, <1>3, <1>4, <1>5, <1>6, StatusSteps

\* However tasks are lost, killed, duplicated or undone, a settled item never
\* reopens: run_eval_case only takes an item through the conditional claim.
THEOREM SettledItemsStaySettled == Spec => SettledStaysSettled
<1>1. TypeOK /\ NotStarted /\ [Next]_vars =>
        [\A i \in Items : status[i] \in Terminal => status'[i] \in Terminal]_vars
  BY SettledStep
<1> QED BY <1>1, TypeCorrect, NotStartedInvariant, PTL DEF Spec, SettledStaysSettled

\* Counting as many completed and errored items as the run has items means
\* that every item is completed or errored.
LEMMA AllCountedAllSettled ==
  ASSUME AllCounted(ItemCounts)
  PROVE  \A i \in Items : status[i] \in Terminal
<1> DEFINE C == WithStatus("completed")
           E == WithStatus("errored")
<1>1. C \in SUBSET Items /\ E \in SUBSET Items /\ C \cap E = {}
  BY DEF WithStatus
<1>2. IsFiniteSet(C) /\ IsFiniteSet(E)
  BY <1>1, FS_Subset, ConstantsAssumption
<1>3. Cardinality(C) \in Nat /\ Cardinality(E) \in Nat
  BY <1>2, FS_CardinalityType
<1>4. Cardinality(C \cap E) = 0
  BY <1>1, FS_EmptySet
<1>5. Cardinality(C \cup E) = Cardinality(C) + Cardinality(E)
  <2> HIDE DEF C, E
  <2>1. Cardinality(C \cup E) = Cardinality(C) + Cardinality(E) - Cardinality(C \cap E)
    BY <1>2, FS_Union
  <2> QED BY <2>1, <1>3, <1>4
<1>6. Cardinality(C) + Cardinality(E) >= Cardinality(Items)
  BY DEF AllCounted, ItemCounts
<1>7. C \cup E \in SUBSET Items
  BY <1>1
<1>8. C \cup E = Items
  <2> HIDE DEF C, E
  <2>1. Cardinality(C \cup E) <= Cardinality(Items)
    BY <1>7, FS_Subset, ConstantsAssumption
  <2>2. Cardinality(C \cup E) = Cardinality(Items)
    BY <2>1, <1>3, <1>5, <1>6, ItemsCard
  <2> QED BY <2>2, <1>7, FS_Subset, ConstantsAssumption
<1> QED BY <1>8 DEF WithStatus, Terminal

AllSettled == \A i \in Items : status[i] \in Terminal

\* A callback that is going to finalise the run has seen settled items only.
FinalisesSettled ==
  /\ check.active => AllSettled
  /\ run.status \in Finished => AllSettled

\* The run's status becomes final in check_run_completion only.
LEMMA RunStatusSteps ==
  ASSUME TypeOK, [Next]_vars
  PROVE  \/ UNCHANGED <<run.status, check>>
         \/ CreateRun /\ UNCHANGED check
         \/ UndoSubmit /\ UNCHANGED check
         \/ CheckRead
         \/ CheckWrite
         \/ UNCHANGED run.status /\ check' = NoCheck
<1> USE DEF runVars, itemVars, workerVars, chordVars, TypeOK
<1>1. CASE UNCHANGED vars
  BY <1>1 DEF vars
<1>2. CASE DispatchStep
  BY <1>2 DEF DispatchStep, Submit, SubmitRefused, CreateRun, UndoSubmit
<1>3. CASE CheckStep
  BY <1>3 DEF CheckStep
<1>4. CASE FaultStep
  BY <1>4 DEF FaultStep, SubmitInterrupted, ApiCrash, CheckFails, NodeCrash,
              ConnectionLoss, TaskFailure
<1>5. ASSUME NEW w \in Workers, WorkerStep(w), ~ WriteProgress(w)
      PROVE  UNCHANGED <<run, check>>
  BY <1>5 DEF WorkerStep, SkipTerminal, GetItem, ClaimItem, ClaimRefused, ClearStaleData,
     CompleteItem, CountItems, MarkErrored,
     FailTransient, FailPermanent, ReadFinal, ReturnResult, Acknowledge
<1>6. ASSUME NEW w \in Workers, WriteProgress(w)
      PROVE  UNCHANGED <<run.status, check>>
  BY <1>6 DEF WriteProgress
<1>7. ASSUME NEW w \in Workers, NEW m \in queue, Deliver(w, m)
      PROVE  UNCHANGED <<run, check>>
  BY <1>7 DEF Deliver
<1>8. ASSUME NEW i \in Items, LeaseLapses(i)
      PROVE  UNCHANGED <<run, check>>
  BY <1>8 DEF LeaseLapses
<1> QED BY <1>1, <1>2, <1>3, <1>4, <1>5, <1>6, <1>7, <1>8 DEF Next

\* Whatever the deliveries, a run is completed or partial only when all of its
\* items are completed or errored.
THEOREM FinishedRunsAreSettled == Spec => []FinishedRunIsSettled
<1>1. Init => FinalisesSettled
  BY DEF Init, FinalisesSettled, NoCheck, Finished
<1>2. TypeOK /\ NotStarted /\ FinalisesSettled /\ [Next]_vars => FinalisesSettled'
  <2> SUFFICES ASSUME TypeOK, NotStarted, FinalisesSettled, [Next]_vars
               PROVE  FinalisesSettled'
    OBVIOUS
  <2>1. AllSettled => AllSettled'
    BY SettledStep DEF AllSettled
  <2>2. CASE UNCHANGED <<run.status, check>>
    BY <2>1, <2>2 DEF FinalisesSettled
  <2>3. CASE CreateRun /\ UNCHANGED check
    BY <2>1, <2>3 DEF CreateRun, FinalisesSettled, TypeOK, Finished
  <2>4. CASE UndoSubmit /\ UNCHANGED check
    BY <2>1, <2>4 DEF UndoSubmit, FinalisesSettled, TypeOK, Finished
  <2>5. CASE CheckRead
    <3>1. UNCHANGED status /\ UNCHANGED run
      BY <2>5 DEF CheckRead, itemVars, runVars
    <3>2. AllCounted(ItemCounts) => AllSettled
      BY AllCountedAllSettled DEF AllSettled
    <3>3. check'.active => AllSettled
      BY <2>5, <3>2 DEF CheckRead, FinalisesSettled
    <3> QED BY <3>1, <3>3 DEF FinalisesSettled, AllSettled
  <2>6. CASE CheckWrite
    BY <2>1, <2>6 DEF CheckWrite, FinalisesSettled, NoCheck
  <2>7. CASE UNCHANGED run.status /\ check' = NoCheck
    BY <2>1, <2>7 DEF FinalisesSettled, NoCheck
  <2> QED BY <2>2, <2>3, <2>4, <2>5, <2>6, <2>7, RunStatusSteps
<1>3. FinalisesSettled => FinishedRunIsSettled
  BY DEF FinalisesSettled, FinishedRunIsSettled, AllSettled
<1> QED BY <1>1, <1>2, <1>3, TypeCorrect, NotStartedInvariant, PTL DEF Spec

-----------------------------------------------------------------------------
(* Progress counters                                                       *)

Fits(t) == t.completed + t.errored <= Cardinality(Items)

\* No item is both completed and errored, so no count exceeds the number of items.
LEMMA CountsFit == Fits(ItemCounts)
<1> DEFINE C == WithStatus("completed")
           E == WithStatus("errored")
<1>1. C \in SUBSET Items /\ E \in SUBSET Items /\ C \cap E = {}
  BY DEF WithStatus
<1>2. IsFiniteSet(C) /\ IsFiniteSet(E)
  BY <1>1, FS_Subset, ConstantsAssumption
<1>3. Cardinality(C) \in Nat /\ Cardinality(E) \in Nat /\ Cardinality(C \cap E) = 0
  BY <1>1, <1>2, FS_CardinalityType, FS_EmptySet
<1>4. Cardinality(C \cup E) <= Cardinality(Items)
  <2>1. C \cup E \in SUBSET Items
    BY <1>1
  <2> HIDE DEF C, E
  <2> QED BY <2>1, FS_Subset, ConstantsAssumption
<1>5. Cardinality(C \cup E) = Cardinality(C) + Cardinality(E) - Cardinality(C \cap E)
  <2> HIDE DEF C, E
  <2> QED BY <1>2, FS_Union
<1>6. Cardinality(C) + Cardinality(E) <= Cardinality(Items)
  <2> HIDE DEF C, E
  <2> QED BY <1>3, <1>4, <1>5, ItemsCard
<1> QED BY <1>6 DEF Fits, ItemCounts

\* Counts come from one snapshot of the items, and the run's counters from such a
\* count, but for the undone submission's.
LEMMA CounterSteps ==
  ASSUME TypeOK, [Next]_vars
  PROVE  /\ \A w \in Workers : seen'[w] \in {seen[w], ZeroTally, ItemCounts}
         /\ check'.tally \in {check.tally, ZeroTally, ItemCounts}
         /\ \/ UNCHANGED run
            \/ CreateRun
            \/ UndoSubmit
            \/ \E w \in Workers : WriteProgress(w)
            \/ CheckWrite
<1> USE DEF runVars, itemVars, workerVars, chordVars, TypeOK
<1>1. CASE UNCHANGED vars
  BY <1>1 DEF vars
<1>2. CASE DispatchStep
  BY <1>2 DEF DispatchStep, Submit, SubmitRefused, CreateRun, UndoSubmit
<1>3. CASE CheckStep
  BY <1>3 DEF CheckStep, CheckRead, CheckWrite, NoCheck
<1>4. CASE SubmitInterrupted \/ ApiCrash \/ CheckFails
  BY <1>4 DEF SubmitInterrupted, ApiCrash, CheckFails, NoCheck
<1>5. ASSUME NEW w \in Workers, NodeCrash(w) \/ ConnectionLoss(w) \/ TaskFailure(w)
      PROVE  /\ \A v \in Workers : seen'[v] \in {seen[v], ZeroTally}
             /\ UNCHANGED <<run, check>>
  BY <1>5 DEF NodeCrash, ConnectionLoss, TaskFailure, Release
<1>6. ASSUME NEW w \in Workers, WorkerStep(w)
      PROVE  /\ \A v \in Workers : seen'[v] \in {seen[v], ZeroTally, ItemCounts}
             /\ UNCHANGED check
             /\ UNCHANGED run \/ WriteProgress(w)
  <2>1. CASE CountItems(w)
    BY <2>1 DEF CountItems
  <2>2. CASE WriteProgress(w)
    BY <2>2 DEF WriteProgress
  <2>3. CASE Acknowledge(w)
    BY <2>3 DEF Acknowledge, Release
  <2>4. CASE UNCHANGED <<seen, run, check>>
    BY <2>4
  <2> QED BY <1>6, <2>1, <2>2, <2>3, <2>4
          DEF WorkerStep, SkipTerminal, GetItem, ClaimItem, ClaimRefused, ClearStaleData,
              CompleteItem, FailTransient, FailPermanent, ReadFinal, MarkErrored, ReturnResult
<1>7. ASSUME NEW w \in Workers, NEW m \in queue, Deliver(w, m)
      PROVE  UNCHANGED <<run, check, seen>>
  BY <1>7 DEF Deliver
<1>8. ASSUME NEW i \in Items, LeaseLapses(i)
      PROVE  UNCHANGED <<run, check, seen>>
  BY <1>8 DEF LeaseLapses
<1> QED BY <1>1, <1>2, <1>3, <1>4, <1>5, <1>6, <1>7, <1>8 DEF Next, FaultStep

\* What is about to be written fits as well.
BoundedInv ==
  /\ \A w \in Workers : Fits(seen[w])
  /\ Fits(check.tally)
  /\ run.status # "failed" => Fits(run)

\* However often tasks are delivered, the progress shown never exceeds the run.
THEOREM CountersStayBounded == Spec => []CountersBounded
<1>1. Init => BoundedInv
  BY ItemsCard DEF Init, BoundedInv, Fits, ZeroTally, NoCheck
<1>2. TypeOK /\ NotStarted /\ BoundedInv /\ [Next]_vars => BoundedInv'
  <2> SUFFICES ASSUME TypeOK, NotStarted, BoundedInv, [Next]_vars PROVE BoundedInv'
    OBVIOUS
  <2>1. Fits(ZeroTally) /\ Fits(ItemCounts)
    BY ItemsCard, CountsFit DEF Fits, ZeroTally
  <2>2. (\A w \in Workers : Fits(seen[w]))' /\ Fits(check.tally)'
    BY <2>1, CounterSteps DEF BoundedInv, Fits
  <2>3. (run.status # "failed" => Fits(run))'
    <3>1. CASE UNCHANGED run
      BY <3>1 DEF BoundedInv, Fits
    <3>2. CASE CreateRun
      BY <3>2 DEF CreateRun, NotStarted, BoundedInv, Fits, TypeOK
    <3>3. CASE UndoSubmit
      BY <3>3 DEF UndoSubmit, TypeOK
    <3>4. ASSUME NEW w \in Workers, WriteProgress(w) PROVE Fits(run)'
      BY <3>4 DEF WriteProgress, BoundedInv, Fits, TypeOK
    <3>5. CASE CheckWrite
      BY <3>5 DEF CheckWrite, BoundedInv, Fits
    <3> QED BY <3>1, <3>2, <3>3, <3>4, <3>5, CounterSteps
  <2> QED BY <2>2, <2>3 DEF BoundedInv
<1>3. BoundedInv => CountersBounded
  BY DEF BoundedInv, CountersBounded, Fits
<1> QED BY <1>1, <1>2, <1>3, TypeCorrect, NotStartedInvariant, PTL DEF Spec

-----------------------------------------------------------------------------
(* Deliveries                                                              *)

\* A message of the item, an execution that no retry has replaced, or a failure of its
\* task on record.
Delivered(i) ==
  \/ \E m \in queue : m.item = i
  \/ \E w \in Workers : Live(w) /\ Item(w) = i
  \/ i \in failedTasks

\* A task returns, or fails for good, once its item has settled, and an open item's
\* next delivery can claim it.
KeptInv ==
  /\ \A i \in Items : status[i] = "absent" => dispatch = "start"
  /\ \A i \in Items : status[i] = "running" => owner[i] = i
  /\ \A w \in Workers : pc[w] \in {"count", "write", "return", "acking"} => status[Item(w)] \in Terminal
  /\ dispatch = "sent" => \A i \in Items : status[i] \in Unsettled => Delivered(i)

\* Rows keep the task that claimed them.
LEMMA OwnerStep ==
  ASSUME TypeOK, NotStarted, KeptInv, [Next]_vars
  PROVE  /\ \A i \in Items : status'[i] = "absent" => dispatch' = "start"
         /\ \A i \in Items : status'[i] = "running" => owner'[i] = i
<1> USE DEF runVars, itemVars, workerVars, chordVars, TypeOK, KeptInv, At, Item
<1>1. CASE UNCHANGED vars
  BY <1>1 DEF vars
<1>2. CASE DispatchStep
  BY <1>2 DEF DispatchStep, CreateRun, UndoSubmit, Submit, SubmitRefused
<1>3. CASE CheckStep
  BY <1>3 DEF CheckStep, CheckRead, CheckWrite
<1>4. CASE FaultStep
  BY <1>4 DEF FaultStep, SubmitInterrupted, ApiCrash, CheckFails, NodeCrash, ConnectionLoss, TaskFailure
<1>5. ASSUME NEW w \in Workers, ClaimItem(w) \/ CompleteItem(w) \/ MarkErrored(w)
      PROVE  /\ \A i \in Items : status'[i] = "absent" => dispatch' = "start"
             /\ \A i \in Items : status'[i] = "running" => owner'[i] = i
  BY <1>5 DEF ClaimItem, CompleteItem, MarkErrored
<1>6. ASSUME NEW w \in Workers, WorkerStep(w), ~ (ClaimItem(w) \/ CompleteItem(w) \/ MarkErrored(w))
      PROVE  UNCHANGED <<status, owner, dispatch>>
  BY <1>6 DEF WorkerStep, SkipTerminal, GetItem, ClaimRefused, ClearStaleData, CountItems,
      WriteProgress, FailTransient, FailPermanent, ReadFinal, ReturnResult, Acknowledge
<1>7. ASSUME NEW w \in Workers, NEW m \in queue, Deliver(w, m) PROVE UNCHANGED <<status, owner, dispatch>>
  BY <1>7 DEF Deliver
<1>8. ASSUME NEW i \in Items, LeaseLapses(i) PROVE UNCHANGED <<status, owner, dispatch>>
  BY <1>8 DEF LeaseLapses
<1> QED BY <1>1, <1>2, <1>3, <1>4, <1>5, <1>6, <1>7, <1>8 DEF Next

\* An execution that is past its work has a settled item.
LEMMA ReturnStep ==
  ASSUME TypeOK, NotStarted, KeptInv, [Next]_vars, NEW w \in Workers,
         pc'[w] \in {"count", "write", "return", "acking"}
  PROVE  status'[Item(w)'] \in Terminal
<1> USE DEF runVars, itemVars, workerVars, chordVars, TypeOK, KeptInv, At, Item, Goto, Release
<1>1. CASE pc[w] \in {"count", "write", "return", "acking"} /\ msg'[w] = msg[w]
  <2>1. status[msg[w].item] \in Terminal /\ msg[w].item \in Items
    BY <1>1 DEF Message
  <2> QED BY <1>1, <2>1, SettledStep
<1>2. CASE SkipTerminal(w) \/ ReadFinal(w)
  BY <1>2 DEF SkipTerminal, ReadFinal, Message
<1>3. CASE ClaimRefused(w)
  <2>1. msg[w].item \in Items /\ status[msg[w].item] # "absent"
    BY <1>3 DEF ClaimRefused, Message, NotStarted
  <2> QED BY <1>3, <2>1 DEF ClaimRefused, Claimable, Terminal, Unsettled
<1>4. CASE CompleteItem(w) \/ MarkErrored(w)
  BY <1>4 DEF CompleteItem, MarkErrored, Message, Terminal
<1>5. CASE UNCHANGED <<pc, msg>>
  BY <1>1, <1>5
<1>6. ASSUME NEW v \in Workers, WorkerStep(v), v # w PROVE pc'[w] = pc[w] /\ msg'[w] = msg[w]
  BY <1>6 DEF WorkerStep, SkipTerminal, GetItem, ClaimItem, ClaimRefused, ClearStaleData,
      CompleteItem, CountItems, WriteProgress, FailTransient, FailPermanent, ReadFinal,
      MarkErrored, ReturnResult, Acknowledge
<1>7. CASE WorkerStep(w)
  <2>1. CASE CountItems(w) \/ WriteProgress(w) \/ ReturnResult(w)
    BY <1>1, <2>1 DEF CountItems, WriteProgress, ReturnResult
  <2>2. CASE GetItem(w) \/ ClaimItem(w) \/ ClearStaleData(w) \/ FailTransient(w)
             \/ FailPermanent(w) \/ Acknowledge(w)
    BY <2>2 DEF GetItem, ClaimItem, ClearStaleData, FailTransient, FailPermanent, Acknowledge
  <2> QED BY <1>2, <1>3, <1>4, <1>7, <2>1, <2>2 DEF WorkerStep
<1>8. ASSUME NEW v \in Workers, NodeCrash(v) \/ ConnectionLoss(v) \/ TaskFailure(v)
      PROVE  pc'[w] = pc[w] /\ msg'[w] = msg[w]
  BY <1>8 DEF NodeCrash, ConnectionLoss, TaskFailure
<1>9. ASSUME NEW v \in Workers, NEW m \in queue, Deliver(v, m)
      PROVE  pc'[w] = pc[w] /\ msg'[w] = msg[w]
  BY <1>9 DEF Deliver
<1>10. ASSUME NEW i \in Items, LeaseLapses(i) PROVE UNCHANGED <<pc, msg>>
  BY <1>10 DEF LeaseLapses
<1>11. CASE DispatchStep \/ CheckStep \/ SubmitInterrupted \/ ApiCrash \/ CheckFails \/ UNCHANGED vars
  BY <1>5, <1>11 DEF DispatchStep, CheckStep, CreateRun, Submit, SubmitRefused, UndoSubmit, CheckRead,
      CheckWrite, SubmitInterrupted, ApiCrash, CheckFails, vars
<1> QED BY <1>1, <1>5, <1>6, <1>7, <1>8, <1>9, <1>10, <1>11 DEF Next, FaultStep

\* A recorded failure stays on record.
LEMMA FailuresStay ==
  ASSUME [Next]_vars
  PROVE  failedTasks \subseteq failedTasks'
BY DEF Next, vars, runVars, itemVars, workerVars, chordVars, DispatchStep, CheckStep, FaultStep, WorkerStep,
   CreateRun, Submit, SubmitRefused, UndoSubmit, CheckRead, CheckWrite, SubmitInterrupted, ApiCrash,
   CheckFails, NodeCrash, ConnectionLoss, TaskFailure, SkipTerminal, GetItem, ClaimItem, ClaimRefused,
   ClearStaleData, CompleteItem, CountItems, WriteProgress, FailTransient, FailPermanent, ReadFinal,
   MarkErrored, ReturnResult, Acknowledge, Deliver, LeaseLapses

\* A message or execution is given up for another of the same item, for a recorded
\* failure, or because its item has settled.
LEMMA DeliveredStep ==
  ASSUME TypeOK, KeptInv, [Next]_vars,
         NEW i \in Items, Delivered(i), status[i] \notin Terminal, dispatch = "sent"
  PROVE  Delivered(i)'
<1> USE DEF runVars, itemVars, workerVars, chordVars, TypeOK, At, Item, Goto, Release
<1>0. CASE i \in failedTasks
  BY <1>0, FailuresStay DEF Delivered
<1> SUFFICES ASSUME i \notin failedTasks PROVE Delivered(i)'
  BY <1>0
<1>1. CASE UNCHANGED <<queue, pc, msg>>
  BY <1>1 DEF Delivered, Live
<1>2. CASE DispatchStep \/ CheckStep \/ SubmitInterrupted \/ ApiCrash \/ CheckFails \/ UNCHANGED vars
  BY <1>1, <1>2 DEF DispatchStep, CheckStep, CreateRun, Submit, SubmitRefused, UndoSubmit, CheckRead,
      CheckWrite, SubmitInterrupted, ApiCrash, CheckFails, vars
<1>3. ASSUME NEW w \in Workers, NodeCrash(w) PROVE Delivered(i)'
  BY <1>3, ConstantsAssumption DEF NodeCrash, Delivered, Live, Steps, TrySteps
<1>4. ASSUME NEW w \in Workers, ConnectionLoss(w) \/ TaskFailure(w) PROVE Delivered(i)'
  BY <1>4 DEF ConnectionLoss, TaskFailure, Fault, Delivered, Live
<1>5. ASSUME NEW w \in Workers, NEW m \in queue, Deliver(w, m) PROVE Delivered(i)'
  BY <1>5 DEF Deliver, Delivered, Live
<1>6. ASSUME NEW j \in Items, LeaseLapses(j) PROVE Delivered(i)'
  BY <1>1, <1>6 DEF LeaseLapses
<1>7. ASSUME NEW w \in Workers, WorkerStep(w) PROVE Delivered(i)'
  <2>1. CASE FailTransient(w)
    <3>1. msg[w] \in Message /\ [msg[w] EXCEPT !.retries = @ + 1] \in queue'
      BY <2>1 DEF FailTransient, InTry, TrySteps
    <3>2. [msg[w] EXCEPT !.retries = @ + 1].item = msg[w].item
      BY <3>1 DEF Message
    <3> QED BY <2>1, <3>1, <3>2 DEF FailTransient, Delivered, Live
  <2>2. CASE Acknowledge(w)
    <3>1. pc[w] = "acking" => msg[w].item # i
      BY DEF KeptInv
    <3> QED BY <2>2, <3>1 DEF Acknowledge, Delivered, Live
  <2>3. CASE pc'[w] \in Steps \ {"retried"} /\ pc' = [pc EXCEPT ![w] = pc'[w]] /\ UNCHANGED <<queue, msg>>
    BY <2>3 DEF Delivered, Live, Steps, TrySteps
  <2>4. CASE SkipTerminal(w) \/ GetItem(w) \/ ClaimItem(w) \/ ClaimRefused(w) \/ ClearStaleData(w)
             \/ CompleteItem(w) \/ CountItems(w)
    BY <2>3, <2>4 DEF SkipTerminal, GetItem, ClaimItem, ClaimRefused, ClearStaleData, CompleteItem,
        CountItems, Steps, TrySteps
  <2>5. CASE WriteProgress(w) \/ FailPermanent(w) \/ ReadFinal(w) \/ MarkErrored(w) \/ ReturnResult(w)
    BY <2>3, <2>5 DEF WriteProgress, FailPermanent, ReadFinal, MarkErrored, ReturnResult, Steps, TrySteps
  <2> QED BY <1>7, <2>1, <2>2, <2>4, <2>5 DEF WorkerStep
<1> QED BY <1>2, <1>3, <1>4, <1>5, <1>6, <1>7 DEF Next, FaultStep

\* Every open item of a submitted run keeps a delivery, or a failure on record.
LEMMA KeptInvariant == Spec => []KeptInv
<1>1. Init => KeptInv
  BY DEF Init, KeptInv
<1>2. TypeOK /\ NotStarted /\ KeptInv /\ [Next]_vars => KeptInv'
  <2> SUFFICES ASSUME TypeOK, NotStarted, KeptInv, [Next]_vars PROVE KeptInv'
    OBVIOUS
  <2>1. ASSUME dispatch' = "sent", NEW i \in Items, status'[i] \in Unsettled PROVE Delivered(i)'
    <3>1. CASE Submit
      <4>1. [item |-> i, retries |-> 0] \in queue'
        BY <3>1 DEF Submit, FirstDelivery
      <4> QED BY <4>1 DEF Delivered
    <3>2. CASE ~ Submit
      <4>1. dispatch = "sent"
        BY <2>1, <3>2 DEF Next, vars, runVars, DispatchStep, CheckStep, FaultStep, WorkerStep, CreateRun,
           SubmitRefused, UndoSubmit, CheckRead, CheckWrite, SubmitInterrupted, ApiCrash, CheckFails,
           NodeCrash, ConnectionLoss, TaskFailure, SkipTerminal, GetItem, ClaimItem, ClaimRefused,
           ClearStaleData, CompleteItem, CountItems, WriteProgress, FailTransient, FailPermanent,
           ReadFinal, MarkErrored, ReturnResult, Acknowledge, Deliver, LeaseLapses
      <4>2. status[i] \notin Terminal
        BY <2>1, SettledStep DEF Unsettled, Terminal
      <4>3. status[i] \in Unsettled
        BY <4>1, <4>2 DEF KeptInv, TypeOK
      <4> QED BY <4>1, <4>2, <4>3, DeliveredStep DEF KeptInv
    <3> QED BY <3>1, <3>2
  <2>2. \A w \in Workers : pc'[w] \in {"count", "write", "return", "acking"} => status'[Item(w)'] \in Terminal
    BY ReturnStep
  <2> QED BY <2>1, <2>2, OwnerStep DEF KeptInv
<1> QED BY <1>1, <1>2, TypeCorrect, NotStartedInvariant, PTL DEF Spec

\* No node crash, retry, redelivery, skip or refused claim consumes the last delivery of
\* an open item: only a task failure does, and that is on record.
THEOREM NoItemIsLost == Spec => []NoLostItem
<1>1. KeptInv => NoLostItem
  BY DEF KeptInv, NoLostItem, Delivered, Live
<1> QED BY <1>1, KeptInvariant, PTL
-----------------------------------------------------------------------------
(* The rest holds when the broker never delivers a task twice at the same  *)
(* time: items settle once, their evidence agrees with their status, and   *)
(* the run implements RunLifecycle.                                        *)

\* Until its tasks are submitted a run is idle, and a run whose submission
\* failed stays so.
Unsent ==
  /\ dispatch # "sent" =>
       /\ queue = {} /\ callbacks = 0 /\ ~ check.active
       /\ \A w \in Workers : pc[w] = "idle"
       /\ \A i \in Items : status[i] = CASE dispatch = "start" -> "absent"
                                         [] dispatch = "failed" -> "errored"
                                         [] OTHER -> "queued"
  /\ dispatch = "sent" => \A i \in Items : status[i] # "absent"

\* An execution past its status check and before its write works on an item
\* that is still open.
WorksOnOpenItem ==
  \A w \in Workers :
    pc[w] \in {"claim", "clear", "call", "mark"} => status[Item(w)] \in Unsettled

\* The inductive invariant but for the evidence.
DeliveryInv == UniqueDelivery /\ Unsent /\ WorksOnOpenItem

LEMMA DeliveryInit == Init => DeliveryInv /\ EvidenceMatchesStatus
BY DEF Init, DeliveryInv, UniqueDelivery, Live, Unsent, WorksOnOpenItem, EvidenceMatchesStatus,
       NoCheck

LEMMA DeliveryStep ==
  ASSUME OneDelivery, TypeOK, DeliveryInv, [Next]_vars
  PROVE  DeliveryInv'
<1> USE ConstantsAssumption
    DEF DeliveryInv, UniqueDelivery, Live, Unsent, WorksOnOpenItem, TypeOK, At, Goto, Item,
        runVars, itemVars, workerVars, chordVars, Unsettled, Terminal
<1>1. CASE CreateRun
  BY <1>1 DEF CreateRun
<1>2. CASE Submit
  BY <1>2 DEF Submit, FirstDelivery
<1>3. CASE SubmitRefused
  BY <1>3 DEF SubmitRefused
<1>4. CASE UndoSubmit
  BY <1>4 DEF UndoSubmit
<1>5. CASE CheckRead
  BY <1>5 DEF CheckRead
<1>6. CASE CheckWrite
  BY <1>6 DEF CheckWrite, NoCheck
<1>7. CASE SubmitInterrupted
  BY <1>7 DEF SubmitInterrupted, Fault, OneDelivery
<1>8. CASE ApiCrash
  BY <1>8 DEF ApiCrash
<1>9. CASE CheckFails
  BY <1>9 DEF CheckFails, NoCheck
<1>10. ASSUME NEW w \in Workers, NodeCrash(w) PROVE DeliveryInv'
  BY <1>10 DEF NodeCrash, Release, OneDelivery, Steps, TrySteps
<1>11. ASSUME NEW w \in Workers, ConnectionLoss(w) PROVE DeliveryInv'
  BY <1>11 DEF ConnectionLoss, Fault, OneDelivery
<1>12. ASSUME NEW w \in Workers, TaskFailure(w) PROVE DeliveryInv'
  BY <1>12 DEF TaskFailure, Release
<1>13. ASSUME NEW w \in Workers, SkipTerminal(w) PROVE DeliveryInv'
  BY <1>13 DEF SkipTerminal
<1>14. ASSUME NEW w \in Workers, GetItem(w) PROVE DeliveryInv'
  BY <1>14 DEF GetItem, Message
<1>15. ASSUME NEW w \in Workers, ClaimItem(w) PROVE DeliveryInv'
  BY <1>15 DEF ClaimItem, Claimable, Message
<1>16. ASSUME NEW w \in Workers, ClaimRefused(w) PROVE DeliveryInv'
  BY <1>16 DEF ClaimRefused
<1>17. ASSUME NEW w \in Workers, ClearStaleData(w) PROVE DeliveryInv'
  BY <1>17 DEF ClearStaleData
<1>18. ASSUME NEW w \in Workers, CompleteItem(w) PROVE DeliveryInv'
  BY <1>18 DEF CompleteItem, Message
<1>19. ASSUME NEW w \in Workers, CountItems(w) PROVE DeliveryInv'
  BY <1>19 DEF CountItems
<1>20. ASSUME NEW w \in Workers, WriteProgress(w) PROVE DeliveryInv'
  BY <1>20 DEF WriteProgress
<1>21. ASSUME NEW w \in Workers, FailTransient(w) PROVE DeliveryInv'
  BY <1>21 DEF FailTransient, InTry, TrySteps, Message
<1>22. ASSUME NEW w \in Workers, FailPermanent(w) PROVE DeliveryInv'
  BY <1>22 DEF FailPermanent, InTry, TrySteps
<1>23. ASSUME NEW w \in Workers, ReadFinal(w) PROVE DeliveryInv'
  BY <1>23 DEF ReadFinal, Message
<1>24. ASSUME NEW w \in Workers, MarkErrored(w) PROVE DeliveryInv'
  BY <1>24 DEF MarkErrored, Message
<1>25. ASSUME NEW w \in Workers, ReturnResult(w) PROVE DeliveryInv'
  BY <1>25 DEF ReturnResult
<1>26. ASSUME NEW w \in Workers, Acknowledge(w) PROVE DeliveryInv'
  BY <1>26 DEF Acknowledge, Release
<1>27. ASSUME NEW w \in Workers, NEW m \in queue, Deliver(w, m) PROVE DeliveryInv'
  BY <1>27 DEF Deliver
<1>28. ASSUME NEW i \in Items, LeaseLapses(i) PROVE DeliveryInv'
  BY <1>28 DEF LeaseLapses
<1>29. CASE UNCHANGED vars
  BY <1>29 DEF vars
<1> QED
  BY <1>1, <1>2, <1>3, <1>4, <1>5, <1>6, <1>7, <1>8, <1>9, <1>10, <1>11, <1>12, <1>13,
     <1>14, <1>15, <1>16, <1>17, <1>18, <1>19, <1>20, <1>21, <1>22, <1>23, <1>24, <1>25,
     <1>26, <1>27, <1>28, <1>29
     DEF Next, DispatchStep, CheckStep, FaultStep, WorkerStep

\* With one live delivery of each task the broker's bookkeeping excludes
\* concurrent executions of an item, and executions write open items only.
THEOREM DeliveryIsUnique == OneDelivery => (Spec => [](UniqueDelivery /\ DeliveryInv))
<1> SUFFICES ASSUME OneDelivery PROVE Spec => [](UniqueDelivery /\ DeliveryInv)
  OBVIOUS
<1>1. Init => DeliveryInv
  BY DeliveryInit
<1>2. TypeOK /\ DeliveryInv /\ [Next]_vars => DeliveryInv'
  BY DeliveryStep
<1>3. DeliveryInv => UniqueDelivery
  BY DEF DeliveryInv
<1> QED BY <1>1, <1>2, <1>3, TypeCorrect, PTL DEF Spec

\* Only these actions change which items have a trace and results.
LEMMA EvidenceSteps ==
  ASSUME [Next]_vars
  PROVE  UNCHANGED evidence \/ \E w \in Workers : ClearStaleData(w) \/ CompleteItem(w)
<1> USE DEF runVars, itemVars, workerVars, chordVars
<1>1. CASE UNCHANGED vars
  BY <1>1 DEF vars
<1>2. CASE DispatchStep \/ CheckStep
  BY <1>2 DEF DispatchStep, CreateRun, UndoSubmit, Submit, SubmitRefused, CheckStep,
              CheckRead, CheckWrite
<1>3. CASE FaultStep
  BY <1>3 DEF FaultStep, SubmitInterrupted, ApiCrash, CheckFails, NodeCrash,
              ConnectionLoss, TaskFailure
<1>4. ASSUME NEW w \in Workers, WorkerStep(w)
      PROVE  UNCHANGED evidence \/ ClearStaleData(w) \/ CompleteItem(w)
  BY <1>4 DEF WorkerStep, SkipTerminal, GetItem, ClaimItem, ClaimRefused, CountItems,
      WriteProgress, FailTransient, FailPermanent, ReadFinal, MarkErrored, ReturnResult,
      Acknowledge
<1>5. ASSUME NEW w \in Workers, NEW m \in queue, Deliver(w, m)
      PROVE  UNCHANGED evidence
  BY <1>5 DEF Deliver
<1>6. ASSUME NEW i \in Items, LeaseLapses(i)
      PROVE  UNCHANGED evidence
  BY <1>6 DEF LeaseLapses
<1> QED BY <1>1, <1>2, <1>3, <1>4, <1>5, <1>6 DEF Next

\* The first terminal status of an item is its last.
LEMMA FinalStep ==
  ASSUME TypeOK, DeliveryInv, [Next]_vars, NEW i \in Items, status[i] \in Terminal
  PROVE  status'[i] = status[i]
<1> USE DEF TypeOK, DeliveryInv, Terminal, Unsettled, At, Item
<1>1. CASE UNCHANGED status
  BY <1>1
<1>2. CASE CreateRun
  BY <1>2 DEF CreateRun, Unsent
<1>3. CASE UndoSubmit
  BY <1>3 DEF UndoSubmit, Unsent
<1>4. ASSUME NEW w \in Workers, ClaimItem(w) PROVE status'[i] = status[i]
  BY <1>4 DEF ClaimItem, Claimable
<1>5. ASSUME NEW w \in Workers, CompleteItem(w) PROVE status'[i] = status[i]
  BY <1>5 DEF CompleteItem, WorksOnOpenItem
<1>6. ASSUME NEW w \in Workers, MarkErrored(w) PROVE status'[i] = status[i]
  BY <1>6 DEF MarkErrored, WorksOnOpenItem
<1> QED BY <1>1, <1>2, <1>3, <1>4, <1>5, <1>6, StatusSteps

\* Retries, crashes, hard kills and failures after the commit never change a
\* terminal item.
THEOREM ItemsSettleOnce == OneDelivery => (Spec => TerminalItemsFinal)
<1> SUFFICES ASSUME OneDelivery PROVE Spec => TerminalItemsFinal
  OBVIOUS
<1>1. TypeOK /\ DeliveryInv /\ [Next]_vars =>
        [\A i \in Items : status[i] \in Terminal => status'[i] = status[i]]_vars
  BY FinalStep
<1>2. Spec => []DeliveryInv
  BY DeliveryIsUnique, PTL
<1> QED BY <1>1, <1>2, TypeCorrect, PTL DEF Spec, TerminalItemsFinal

\* Every count taken of the items, written or about to be, still holds of them: with
\* one live delivery the sets of completed and of errored items only grow.
Behind(t) == t.completed <= ItemCounts.completed /\ t.errored <= ItemCounts.errored
BehindInv ==
  /\ \A w \in Workers : Behind(seen[w])
  /\ Behind(check.tally)
  /\ Behind(run)

LEMMA CountsGrow ==
  ASSUME TypeOK, DeliveryInv, [Next]_vars
  PROVE  /\ ItemCounts.completed <= ItemCounts'.completed
         /\ ItemCounts.errored <= ItemCounts'.errored
<1>1. ASSUME NEW s \in Terminal
      PROVE  Cardinality(WithStatus(s)) <= Cardinality(WithStatus(s)')
  <2>1. WithStatus(s) \in SUBSET (WithStatus(s)')
    BY FinalStep DEF WithStatus
  <2>2. WithStatus(s)' \in SUBSET Items
    BY DEF WithStatus
  <2>3. IsFiniteSet(WithStatus(s)')
    BY <2>2, FS_Subset, ConstantsAssumption
  <2> QED BY <2>1, <2>3, FS_Subset
<1> QED BY <1>1 DEF ItemCounts, Terminal

\* Progress may lag behind the items but never reports one that has not settled so.
THEOREM CountersLag == OneDelivery => (Spec => []CountersNeverAhead)
<1> SUFFICES ASSUME OneDelivery PROVE Spec => []CountersNeverAhead
  OBVIOUS
<1>1. Init => BehindInv
  BY CountsType DEF Init, BehindInv, Behind, ZeroTally, NoCheck, Tally
<1>2. TypeOK /\ DeliveryInv /\ BehindInv /\ [Next]_vars => BehindInv'
  <2> SUFFICES ASSUME TypeOK, DeliveryInv, BehindInv, [Next]_vars PROVE BehindInv'
    OBVIOUS
  <2>1. /\ ItemCounts \in Tally /\ ItemCounts' \in Tally
        /\ ItemCounts.completed <= ItemCounts'.completed
        /\ ItemCounts.errored <= ItemCounts'.errored
    <3>1. (ItemCounts \in Tally)'
      BY CountsType, PTL
    <3> QED BY <3>1, CountsType, CountsGrow DEF Tally
  <2> DEFINE Kept(t) == t.completed <= ItemCounts'.completed /\ t.errored <= ItemCounts'.errored
  <2>2. ASSUME NEW c \in 0 .. Cardinality(Items), NEW e \in 0 .. Cardinality(Items),
               c <= ItemCounts.completed, e <= ItemCounts.errored
        PROVE  c <= ItemCounts'.completed /\ e <= ItemCounts'.errored
    BY <2>1, <2>2, ItemsCard DEF Tally
  <2>3. ASSUME NEW t \in Tally, Behind(t) PROVE Kept(t)
    BY <2>2, <2>3 DEF Tally, Behind
  <2>4. Kept(ZeroTally) /\ Kept(ItemCounts)
    BY <2>1, ItemsCard DEF ZeroTally, Tally
  <2>5. (\A w \in Workers : Behind(seen[w]))'
    BY <2>3, <2>4, CounterSteps DEF BehindInv, Behind, TypeOK
  <2>6. Behind(check.tally)'
    BY <2>3, <2>4, CounterSteps DEF BehindInv, Behind, TypeOK
  <2>7. Behind(run)'
    <3>1. CASE UNCHANGED <<run.completed, run.errored>>
      BY <2>2, <3>1 DEF BehindInv, Behind, TypeOK
    <3>2. CASE UndoSubmit
      <4>1. run'.completed = run.completed /\ run'.errored = Cardinality(Items)
        BY <3>2 DEF UndoSubmit, TypeOK
      <4>2. ItemCounts'.errored = Cardinality(Items)
        BY <3>2 DEF UndoSubmit, ItemCounts, WithStatus
      <4> QED BY <2>2, <4>1, <4>2, ItemsCard DEF BehindInv, Behind, TypeOK
    <3>3. ASSUME NEW w \in Workers, WriteProgress(w) PROVE Behind(run)'
      BY <2>3, <3>3 DEF WriteProgress, BehindInv, Behind, TypeOK
    <3>4. CASE CheckWrite
      BY <2>3, <3>4 DEF CheckWrite, BehindInv, Behind, TypeOK
    <3>5. CASE CreateRun
      BY <3>1, <3>5 DEF CreateRun, TypeOK
    <3> QED BY <3>1, <3>2, <3>3, <3>4, <3>5, CounterSteps
  <2> QED BY <2>5, <2>6, <2>7 DEF BehindInv
<1>3. BehindInv => CountersNeverAhead
  BY DEF BehindInv, Behind, CountersNeverAhead
<1>4. Spec => []DeliveryInv
  BY DeliveryIsUnique, PTL
<1> QED BY <1>1, <1>2, <1>3, <1>4, TypeCorrect, PTL DEF Spec

\* Completed items, and only they, have a trace and results: a retry clears
\* nothing that another attempt has completed, and a failure after the commit
\* leaves the item completed.
THEOREM EvidenceIsOfCompletedItems == OneDelivery => (Spec => []EvidenceMatchesStatus)
<1> SUFFICES ASSUME OneDelivery PROVE Spec => []EvidenceMatchesStatus
  OBVIOUS
<1>1. Init => EvidenceMatchesStatus
  BY DeliveryInit
<1>2. TypeOK /\ DeliveryInv /\ EvidenceMatchesStatus /\ [Next]_vars => EvidenceMatchesStatus'
  <2> SUFFICES ASSUME TypeOK, DeliveryInv, EvidenceMatchesStatus, [Next]_vars
               PROVE  EvidenceMatchesStatus'
    OBVIOUS
  <2> USE DEF TypeOK, DeliveryInv, EvidenceMatchesStatus, WorksOnOpenItem, At, Item, Unsettled
  <2>1. ASSUME NEW w \in Workers, ClearStaleData(w) PROVE EvidenceMatchesStatus'
    BY <2>1 DEF ClearStaleData
  <2>2. ASSUME NEW w \in Workers, CompleteItem(w) PROVE EvidenceMatchesStatus'
    BY <2>2 DEF CompleteItem
  <2>3. CASE UNCHANGED <<evidence, status>>
    BY <2>3
  <2>4. CASE UNCHANGED evidence /\ CreateRun
    BY <2>4 DEF CreateRun, Unsent
  <2>5. CASE UNCHANGED evidence /\ UndoSubmit
    BY <2>5 DEF UndoSubmit, Unsent
  <2>6. ASSUME NEW w \in Workers, UNCHANGED evidence, ClaimItem(w)
        PROVE  EvidenceMatchesStatus'
    BY <2>6 DEF ClaimItem
  <2>7. ASSUME NEW w \in Workers, UNCHANGED evidence, MarkErrored(w)
        PROVE  EvidenceMatchesStatus'
    BY <2>7 DEF MarkErrored
  <2> QED BY <2>1, <2>2, <2>3, <2>4, <2>5, <2>6, <2>7, StatusSteps, EvidenceSteps
<1>3. Spec => []DeliveryInv
  BY DeliveryIsUnique, PTL
<1> QED BY <1>1, <1>2, <1>3, TypeCorrect, PTL DEF Spec

-----------------------------------------------------------------------------
(* The run implements RunLifecycle                                         *)

\* The verdict the item rows deserve.
ItemVerdict == IF \A i \in Items : status[i] = "completed" THEN "completed" ELSE "partial"

\* The run's status follows dispatch_run, and a verdict given or about to be
\* given is that of settled items.
VerdictInv ==
  /\ run.status \in CASE dispatch = "start" -> {"none"}
                      [] dispatch = "failed" -> {"failed"}
                      [] dispatch = "sent" -> {"running"} \cup Finished
                      [] OTHER -> {"running"}
  /\ check.active => AllSettled /\ RunVerdict(check.tally) = ItemVerdict
  /\ run.status \in Finished => AllSettled /\ run.status = ItemVerdict

\* No errored item is counted exactly when all the settled items completed.
LEMMA CountedVerdict ==
  ASSUME AllSettled
  PROVE  RunVerdict(ItemCounts) = ItemVerdict
<1>1. WithStatus("errored") \in SUBSET Items
  BY DEF WithStatus
<1>2. IsFiniteSet(WithStatus("errored"))
  BY <1>1, FS_Subset, ConstantsAssumption
<1>3. ItemCounts.errored = 0 <=> WithStatus("errored") = {}
  BY <1>2, FS_EmptySet DEF ItemCounts
<1>4. WithStatus("errored") = {} <=> \A i \in Items : status[i] = "completed"
  BY DEF WithStatus, AllSettled, Terminal
<1> QED BY <1>3, <1>4 DEF RunVerdict, ItemVerdict

LEMMA VerdictStep ==
  ASSUME TypeOK, NotStarted, DeliveryInv, VerdictInv, [Next]_vars
  PROVE  VerdictInv'
<1>1. ASSUME AllSettled PROVE AllSettled' /\ ItemVerdict' = ItemVerdict
  <2>1. \A i \in Items : status'[i] = status[i]
    BY <1>1, FinalStep DEF AllSettled
  <2> QED BY <1>1, <2>1 DEF AllSettled, ItemVerdict
<1> USE DEF runVars, itemVars, workerVars, chordVars
<1>2. ASSUME UNCHANGED <<run.status, check, dispatch>> PROVE VerdictInv'
  BY <1>1, <1>2 DEF VerdictInv
<1>3. CASE CreateRun
  BY <1>3 DEF CreateRun, VerdictInv, NotStarted, TypeOK, Finished
<1>4. CASE Submit \/ SubmitRefused
  BY <1>1, <1>4 DEF Submit, SubmitRefused, VerdictInv
<1>5. CASE UndoSubmit
  BY <1>5 DEF UndoSubmit, VerdictInv, DeliveryInv, Unsent, TypeOK, Finished
<1>6. CASE CheckRead
  <2>1. UNCHANGED <<run, dispatch, status>>
    BY <1>6 DEF CheckRead
  <2>2. AllCounted(ItemCounts) => AllSettled
    BY AllCountedAllSettled DEF AllSettled
  <2>3. check'.active => AllSettled /\ RunVerdict(check'.tally) = ItemVerdict
    BY <1>6, <2>2, CountedVerdict DEF CheckRead, VerdictInv
  <2> QED BY <2>1, <2>3 DEF VerdictInv, AllSettled, ItemVerdict
<1>7. CASE CheckWrite
  <2>1. dispatch = "sent" /\ UNCHANGED dispatch
    BY <1>7 DEF CheckWrite, DeliveryInv, Unsent
  <2>2. run'.status = ItemVerdict /\ AllSettled /\ ~ check'.active
    BY <1>7 DEF CheckWrite, VerdictInv, NoCheck
  <2>3. run'.status = ItemVerdict' /\ AllSettled'
    BY <2>2, <1>1
  <2> QED BY <2>1, <2>2, <2>3 DEF VerdictInv, ItemVerdict, Finished
<1>8. CASE CheckFails
  BY <1>1, <1>8 DEF CheckFails, VerdictInv, NoCheck
<1>9. CASE SubmitInterrupted \/ ApiCrash
  BY <1>1, <1>9 DEF SubmitInterrupted, ApiCrash, VerdictInv
<1>10. ASSUME NEW w \in Workers, NodeCrash(w) \/ ConnectionLoss(w) \/ TaskFailure(w)
       PROVE  UNCHANGED <<run.status, check, dispatch>>
  BY <1>10 DEF NodeCrash, ConnectionLoss, TaskFailure
<1>11. ASSUME NEW w \in Workers, WorkerStep(w), ~ WriteProgress(w)
       PROVE  UNCHANGED <<run.status, check, dispatch>>
  BY <1>11 DEF WorkerStep, SkipTerminal, GetItem, ClaimItem, ClaimRefused, ClearStaleData,
     CompleteItem, CountItems, MarkErrored, FailTransient, FailPermanent, ReadFinal,
     ReturnResult, Acknowledge
<1>12. ASSUME NEW w \in Workers, WriteProgress(w)
       PROVE  UNCHANGED <<run.status, check, dispatch>>
  BY <1>12 DEF WriteProgress, TypeOK
<1>13. ASSUME NEW w \in Workers, NEW m \in queue, Deliver(w, m)
       PROVE  UNCHANGED <<run.status, check, dispatch>>
  BY <1>13 DEF Deliver
<1>14. ASSUME NEW i \in Items, LeaseLapses(i)
       PROVE  UNCHANGED <<run.status, check, dispatch>>
  BY <1>14 DEF LeaseLapses
<1>15. CASE UNCHANGED vars
  BY <1>2, <1>15 DEF vars
<1> QED
  BY <1>2, <1>3, <1>4, <1>5, <1>6, <1>7, <1>8, <1>9, <1>10, <1>11, <1>12, <1>13, <1>14, <1>15
     DEF Next, DispatchStep, CheckStep, FaultStep

LEMMA LifecycleInit == Init => Lifecycle!Init
BY DEF Init, Lifecycle!Init, Terminal

\* Every step of the workers, the dispatcher, the callback and the faults is a
\* step of RunLifecycle or invisible in it.
LEMMA LifecycleStep ==
  ASSUME TypeOK, NotStarted, DeliveryInv, VerdictInv, [Next]_vars
  PROVE  [Lifecycle!Next]_(Lifecycle!vars)
<1> USE DEF TypeOK, Terminal, Unsettled
<1>1. ASSUME UNCHANGED <<run.status, status>> PROVE UNCHANGED Lifecycle!vars
  BY <1>1 DEF Lifecycle!vars
<1>2. CASE CreateRun
  <2>1. run'.status = "running" /\ run.status = "none"
    BY <1>2 DEF CreateRun, NotStarted
  <2>2. \A i \in Items : status[i] \notin Terminal /\ status'[i] \notin Terminal
    BY <1>2 DEF CreateRun, NotStarted
  <2>3. Lifecycle!Start
    BY <2>1, <2>2 DEF Lifecycle!Start
  <2> QED BY <2>3 DEF Lifecycle!Next
<1>3. CASE UndoSubmit
  <2>1. run.status = "running" /\ run'.status = "failed"
    BY <1>3 DEF UndoSubmit, VerdictInv
  <2>2. \A i \in Items : status[i] \notin Terminal /\ status'[i] = "errored"
    BY <1>3 DEF UndoSubmit, DeliveryInv, Unsent
  <2>3. Lifecycle!Abort
    BY <2>1, <2>2 DEF Lifecycle!Abort
  <2> QED BY <2>3 DEF Lifecycle!Next
<1>4. ASSUME NEW w \in Workers, ClaimItem(w) PROVE UNCHANGED Lifecycle!vars
  <2>1. UNCHANGED run.status
    BY <1>4 DEF ClaimItem, runVars
  <2>2. status[Item(w)] \in Unsettled /\ status' = [status EXCEPT ![Item(w)] = "running"]
    BY <1>4 DEF ClaimItem, Claimable
  <2>3. ASSUME NEW i \in Items
        PROVE  (IF status'[i] \in Terminal THEN status'[i] ELSE "pending")
                 = (IF status[i] \in Terminal THEN status[i] ELSE "pending")
    <3>1. CASE i # Item(w)
      BY <2>2, <3>1
    <3>2. CASE i = Item(w)
      BY <2>2, <3>2
    <3> QED BY <3>1, <3>2
  <2> QED BY <2>1, <2>3 DEF Lifecycle!vars
<1>5. ASSUME NEW w \in Workers, CompleteItem(w) \/ MarkErrored(w)
      PROVE  Lifecycle!Next
  <2>1. PICK o \in {"completed", "errored"} : status' = [status EXCEPT ![Item(w)] = o]
    BY <1>5 DEF CompleteItem, MarkErrored
  <2>2. Item(w) \in Items /\ status[Item(w)] \notin Terminal /\ UNCHANGED run
    BY <1>5 DEF CompleteItem, MarkErrored, At, Item, DeliveryInv, WorksOnOpenItem, runVars,
                Message, NoMessage
  <2>3. dispatch = "sent"
    BY <1>5 DEF CompleteItem, MarkErrored, At, DeliveryInv, Unsent
  <2>4. run.status = "running"
    BY <2>2, <2>3 DEF VerdictInv, AllSettled
  <2>5. ASSUME NEW j \in Items, j = Item(w) PROVE Lifecycle!Settle(j)
    BY <2>1, <2>2, <2>4, <2>5 DEF Lifecycle!Settle
  <2> QED BY <2>2, <2>5 DEF Lifecycle!Next
<1>6. CASE CheckWrite
  <2>1. dispatch = "sent" /\ UNCHANGED status
    BY <1>6 DEF CheckWrite, DeliveryInv, Unsent, itemVars
  <2>2. AllSettled /\ run'.status = ItemVerdict
    BY <1>6 DEF CheckWrite, VerdictInv
  <2>3. CASE run.status = "running"
    <3>1. Lifecycle!Finish
      BY <2>1, <2>2, <2>3
         DEF Lifecycle!Finish, Lifecycle!Settled, Lifecycle!Verdict, AllSettled, ItemVerdict
    <3> QED BY <3>1 DEF Lifecycle!Next
  <2>4. CASE run.status \in Finished
    BY <1>1, <2>1, <2>2, <2>4 DEF VerdictInv
  <2> QED BY <2>1, <2>3, <2>4 DEF VerdictInv
<1>7. CASE CheckRead
  BY <1>1, <1>7 DEF CheckRead, runVars, itemVars
<1>8. CASE UNCHANGED status /\ UNCHANGED run.status
  BY <1>1, <1>8
<1> QED BY <1>2, <1>3, <1>4, <1>5, <1>6, <1>7, <1>8, StatusSteps, RunStatusSteps

\* With one live delivery of each task, an asynchronous run behaves as
\* RunLifecycle promises: items settle once, and the run ends, if it does, with
\* the verdict of its settled items.
THEOREM ImplementsLifecycle == OneDelivery => (Spec => LifecycleSpec)
<1> SUFFICES ASSUME OneDelivery PROVE Spec => LifecycleSpec
  OBVIOUS
<1>1. Init => VerdictInv
  BY DEF Init, VerdictInv, NoCheck, Finished
<1>2. TypeOK /\ NotStarted /\ DeliveryInv /\ VerdictInv /\ [Next]_vars => VerdictInv'
  BY VerdictStep
<1>3. TypeOK /\ NotStarted /\ DeliveryInv /\ VerdictInv /\ [Next]_vars
        => [Lifecycle!Next]_(Lifecycle!vars)
  BY LifecycleStep
<1>4. Spec => []DeliveryInv
  BY DeliveryIsUnique, PTL
<1> QED
  BY <1>1, <1>2, <1>3, <1>4, LifecycleInit, TypeCorrect, NotStartedInvariant, PTL
     DEF Spec, LifecycleSpec, Lifecycle!Spec

-----------------------------------------------------------------------------
(* The final status                                                        *)

\* What makes the chord record each header result once: also no task failure, and
\* no crash between recording a result and acknowledging its task.
ExactDelivery ==
  /\ OneDelivery
  /\ "task_failure" \notin Faults
  /\ "acking" \notin CrashPoints

\* Nothing will touch the item again.
Over(i) ==
  /\ status[i] \in Terminal
  /\ \A m \in queue : m.item # i
  /\ \A w \in Workers : pc[w] \notin {"idle", "retried", "acking"} => Item(w) # i

Quiet == dispatch = "sent" /\ \A i \in Items : Over(i)

\* The chord's parts are of different items, each over; once it has called back,
\* all are, so that what the callback read and writes stays true.
ExactInv ==
  /\ \A p \in parts : Over(p.item)
  /\ \A p, q \in parts : p.item = q.item => p = q
  /\ callbacks > 0 \/ check.active \/ run.status \in Finished => Quiet
  /\ check.active => AllCounted(ItemCounts) /\ check.tally = ItemCounts
  /\ run.status \in Finished =>
       /\ AllCounted(ItemCounts)
       /\ run.completed = ItemCounts.completed
       /\ run.errored = ItemCounts.errored
       /\ run.status = RunVerdict(ItemCounts)

\* Parts of different items that are as many as the items are of all of them.
LEMMA PartsCover ==
  ASSUME NEW S, \A p \in S : p.item \in Items, \A p, q \in S : p.item = q.item => p = q,
         Cardinality(S) = Cardinality(Items)
  PROVE  \A i \in Items : \E p \in S : p.item = i
<1> DEFINE f == [p \in S |-> p.item]
<1>1. f \in Injection(S, Items)
  BY DEF Injection, IsInjective
<1>2. f \in Surjection(S, Items)
  <2> HIDE DEF f
  <2> QED BY <1>1, FS_Injection, ConstantsAssumption
<1> QED BY <1>2 DEF Surjection

\* An item that is over stays so.
LEMMA OverStep ==
  ASSUME ExactDelivery, TypeOK, DeliveryInv, [Next]_vars, NEW i \in Items, Over(i)
  PROVE  Over(i)' /\ status'[i] = status[i]
<1> USE DEF runVars, itemVars, workerVars, chordVars, TypeOK, At, Item, Goto, Release
<1>1. status'[i] = status[i]
  BY FinalStep DEF Over
<1>2. CASE UNCHANGED <<queue, pc, msg>>
  BY <1>1, <1>2 DEF Over
<1>3. CASE Submit \/ SubmitInterrupted
  BY <1>3 DEF Submit, SubmitInterrupted, DeliveryInv, Unsent, Over, Terminal
<1>4. ASSUME NEW w \in Workers, NodeCrash(w) PROVE Over(i)'
  BY <1>1, <1>4, ConstantsAssumption DEF NodeCrash, Over, ExactDelivery, OneDelivery, Steps, TrySteps
<1>5. ASSUME NEW w \in Workers, ConnectionLoss(w) \/ TaskFailure(w) PROVE Over(i)'
  BY <1>5 DEF ConnectionLoss, TaskFailure, Fault, ExactDelivery, OneDelivery
<1>6. ASSUME NEW w \in Workers, NEW m \in queue, Deliver(w, m) PROVE Over(i)'
  BY <1>1, <1>6 DEF Deliver, Over
<1>7. ASSUME NEW w \in Workers, FailTransient(w) PROVE Over(i)'
  <2>1. msg[w] \in Message /\ msg[w].item # i
    BY <1>7 DEF FailTransient, InTry, TrySteps, Over
  <2>2. [msg[w] EXCEPT !.retries = @ + 1].item # i
    BY <2>1 DEF Message
  <2> QED BY <1>1, <1>7, <2>2 DEF FailTransient, Over
<1>8. ASSUME NEW w \in Workers, WorkerStep(w), ~ FailTransient(w) PROVE Over(i)'
  <2>1. CASE Acknowledge(w)
    BY <1>1, <2>1 DEF Acknowledge, Over
  <2>2. CASE UNCHANGED <<queue, msg>> /\ pc' = [pc EXCEPT ![w] = pc'[w]]
             /\ pc[w] \notin {"idle", "retried", "acking"}
    BY <1>1, <2>2 DEF Over
  <2>3. CASE SkipTerminal(w) \/ GetItem(w) \/ ClaimItem(w) \/ ClaimRefused(w) \/ ClearStaleData(w)
             \/ CompleteItem(w) \/ CountItems(w)
    BY <2>2, <2>3 DEF SkipTerminal, GetItem, ClaimItem, ClaimRefused, ClearStaleData, CompleteItem,
        CountItems
  <2>4. CASE WriteProgress(w) \/ FailPermanent(w) \/ ReadFinal(w) \/ MarkErrored(w) \/ ReturnResult(w)
    BY <2>2, <2>4 DEF WriteProgress, FailPermanent, ReadFinal, MarkErrored, ReturnResult, InTry, TrySteps
  <2> QED BY <1>8, <2>1, <2>3, <2>4 DEF WorkerStep
<1>9. ASSUME NEW j \in Items, LeaseLapses(j) PROVE Over(i)'
  BY <1>2, <1>9 DEF LeaseLapses
<1>10. CASE CreateRun \/ SubmitRefused \/ UndoSubmit \/ CheckStep \/ ApiCrash \/ CheckFails \/ UNCHANGED vars
  BY <1>2, <1>10 DEF CreateRun, SubmitRefused, UndoSubmit, CheckStep, CheckRead, CheckWrite, ApiCrash,
      CheckFails, vars
<1> QED BY <1>1, <1>3, <1>4, <1>5, <1>6, <1>7, <1>8, <1>9, <1>10 DEF Next, DispatchStep, FaultStep

\* Only a header result ends a chord, and only the callback's start consumes its message.
LEMMA ChordSteps ==
  ASSUME [Next]_vars, "task_failure" \notin Faults
  PROVE  \/ UNCHANGED <<parts, callbacks>>
         \/ CheckRead /\ UNCHANGED parts
         \/ \E w \in Workers : ReturnResult(w)
BY DEF Next, vars, runVars, itemVars, workerVars, chordVars, DispatchStep, CheckStep, FaultStep, WorkerStep,
   CreateRun, Submit, SubmitRefused, UndoSubmit, CheckRead, CheckWrite, SubmitInterrupted, ApiCrash,
   CheckFails, NodeCrash, ConnectionLoss, TaskFailure, Fault, SkipTerminal, GetItem, ClaimItem,
   ClaimRefused, ClearStaleData, CompleteItem, CountItems, WriteProgress, FailTransient, FailPermanent,
   ReadFinal, MarkErrored, Acknowledge, Deliver, LeaseLapses

\* What recording a result adds to the chord.
LEMMA RecordStep ==
  ASSUME ExactDelivery, TypeOK, DeliveryInv, KeptInv, ExactInv, [Next]_vars,
         NEW w \in Workers, ReturnResult(w)
  PROVE  /\ \A p \in parts' : Over(p.item)'
         /\ \A p, q \in parts' : p.item = q.item => p = q
         /\ callbacks' # callbacks => Quiet'
<1>0. PICK new, all : new = [item |-> Item(w), result |-> result[w]] /\ all = parts \cup {new}
  OBVIOUS
<1>1. pc[w] = "return" /\ msg[w] \in Message /\ new.item \in Items /\ new.item = Item(w)
  BY <1>0 DEF ReturnResult, At, TypeOK, Message, Item
<1>2. \A p \in parts : p.item \in Items /\ p.item # new.item
  BY <1>1 DEF ExactInv, Over, TypeOK
<1>3. Over(new.item)'
  <2>1. /\ pc' = [pc EXCEPT ![w] = "acking"]
        /\ UNCHANGED <<status, queue, msg>>
    BY DEF ReturnResult, Goto, itemVars
  <2>2. status[Item(w)] \in Terminal
    BY <1>1 DEF KeptInv
  <2> QED BY <1>1, <2>1, <2>2 DEF Over, DeliveryInv, UniqueDelivery, Live, Item, TypeOK
<1>4. \A p \in all : p.item \in Items /\ Over(p.item)'
  BY <1>0, <1>1, <1>2, <1>3, OverStep DEF ExactInv
<1>5. \A p, q \in all : p.item = q.item => p = q
  BY <1>0, <1>2 DEF ExactInv
<1>6. dispatch' = "sent"
  BY <1>1 DEF DeliveryInv, Unsent, ReturnResult, runVars
<1>7. /\ parts' \in {{}, all}
      /\ callbacks' # callbacks => Cardinality(all) = Cardinality(Items)
  BY <1>0 DEF ReturnResult, RecordPart
<1>8. Cardinality(all) = Cardinality(Items) => Quiet'
  <2> SUFFICES ASSUME Cardinality(all) = Cardinality(Items), NEW i \in Items PROVE Over(i)'
    BY <1>6 DEF Quiet
  <2>1. \E p \in all : p.item = i
    BY <1>4, <1>5, PartsCover
  <2> QED BY <2>1, <1>4
<1> QED BY <1>4, <1>5, <1>7, <1>8

\* Nothing but the callback writes a run whose items are all over.
LEMMA QuietStep ==
  ASSUME ExactDelivery, TypeOK, DeliveryInv, [Next]_vars, Quiet
  PROVE  Quiet' /\ ItemCounts' = ItemCounts /\ (UNCHANGED run \/ CheckWrite)
<1>1. \A i \in Items : Over(i)' /\ status'[i] = status[i]
  BY OverStep DEF Quiet
<1>2. ItemCounts' = ItemCounts
  <2>1. \A s : WithStatus(s)' = WithStatus(s)
    BY <1>1 DEF WithStatus
  <2> QED BY <2>1 DEF ItemCounts
<1>3. dispatch' = "sent"
  BY DEF Quiet, Next, vars, runVars, DispatchStep, CheckStep, FaultStep, WorkerStep,
     CreateRun, Submit, SubmitRefused, UndoSubmit, CheckRead, CheckWrite, SubmitInterrupted, ApiCrash,
     CheckFails, NodeCrash, ConnectionLoss, TaskFailure, SkipTerminal, GetItem, ClaimItem,
     ClaimRefused, ClearStaleData, CompleteItem, CountItems, WriteProgress, FailTransient, FailPermanent,
     ReadFinal, MarkErrored, ReturnResult, Acknowledge, Deliver, LeaseLapses
<1>4. UNCHANGED run \/ CheckWrite
  <2>1. ASSUME NEW w \in Workers, WriteProgress(w) PROVE FALSE
    BY <2>1 DEF WriteProgress, At, Quiet, Over, TypeOK, Message, Item
  <2> QED BY <2>1, CounterSteps DEF Quiet, CreateRun, UndoSubmit
<1> QED BY <1>1, <1>2, <1>3, <1>4 DEF Quiet

\* When every header result is recorded once, a final status and its counters are the
\* items', and no late progress update or second callback spoils them.
THEOREM FinalRunsAreExact == ExactDelivery => (Spec => []FinalRunIsExact)
<1> SUFFICES ASSUME ExactDelivery PROVE Spec => []FinalRunIsExact
  OBVIOUS
<1>1. Init => ExactInv
  BY DEF Init, ExactInv, NoCheck, Finished
<1>2. TypeOK /\ DeliveryInv /\ KeptInv /\ ExactInv /\ [Next]_vars => ExactInv'
  <2> SUFFICES ASSUME TypeOK, DeliveryInv, KeptInv, ExactInv, [Next]_vars PROVE ExactInv'
    OBVIOUS
  <2>1. /\ \A p \in parts' : Over(p.item)'
        /\ \A p, q \in parts' : p.item = q.item => p = q
    <3>1. CASE UNCHANGED parts
      BY <3>1, OverStep DEF ExactInv, TypeOK
    <3>2. CASE \E w \in Workers : ReturnResult(w)
      BY <3>2, RecordStep
    <3> QED BY <3>1, <3>2, ChordSteps DEF ExactDelivery
  <2>2. CASE Quiet
    <3>1. Quiet' /\ ItemCounts' = ItemCounts /\ (UNCHANGED run \/ CheckWrite)
      BY <2>2, QuietStep
    <3>2. check'.active => AllCounted(ItemCounts) /\ check'.tally = ItemCounts
      <4>1. CASE CheckRead
        BY <4>1 DEF CheckRead, ExactInv
      <4>2. CASE UNCHANGED check \/ check' = NoCheck
        BY <4>2 DEF NoCheck, ExactInv
      <4> QED BY <4>1, <4>2, RunStatusSteps DEF CheckWrite
    <3>3. run'.status \in Finished =>
            /\ AllCounted(ItemCounts)
            /\ run'.completed = ItemCounts.completed
            /\ run'.errored = ItemCounts.errored
            /\ run'.status = RunVerdict(ItemCounts)
      <4>1. CASE UNCHANGED run
        BY <4>1 DEF ExactInv
      <4>2. CASE CheckWrite
        BY <4>2 DEF CheckWrite, ExactInv
      <4> QED BY <3>1, <4>1, <4>2
    <3>4. AllCounted(ItemCounts)' = AllCounted(ItemCounts) /\ RunVerdict(ItemCounts)' = RunVerdict(ItemCounts)
      BY <3>1 DEF AllCounted, RunVerdict
    <3> QED BY <2>1, <3>1, <3>2, <3>3, <3>4 DEF ExactInv
  <2>3. CASE ~ Quiet
    <3>1. callbacks \in Nat /\ callbacks = 0 /\ ~ check.active /\ run.status \notin Finished
      BY <2>3 DEF ExactInv, TypeOK
    <3>2. ~ check'.active /\ run'.status \notin Finished
      <4>1. CASE (CreateRun \/ UndoSubmit) /\ UNCHANGED check
        BY <3>1, <4>1 DEF CreateRun, UndoSubmit, Finished, TypeOK
      <4>2. ~ CheckRead /\ ~ CheckWrite
        BY <3>1 DEF CheckRead, CheckWrite
      <4> QED BY <3>1, <4>1, <4>2, RunStatusSteps DEF NoCheck
    <3>3. callbacks' > 0 => Quiet'
      BY <3>1, ChordSteps, RecordStep DEF CheckRead, ExactDelivery
    <3> QED BY <2>1, <3>2, <3>3 DEF ExactInv
  <2> QED BY <2>2, <2>3
<1>3. ExactInv => FinalRunIsExact
  <2> SUFFICES ASSUME ExactInv, run.status \in Finished
               PROVE  run.completed + run.errored = Cardinality(Items)
    BY DEF FinalRunIsExact, ExactInv
  <2> QED BY CountsType, CountsFit, ItemsCard DEF ExactInv, AllCounted, Fits, Tally
<1>4. Spec => []DeliveryInv
  BY DeliveryIsUnique, PTL DEF ExactDelivery
<1>5. Spec => []KeptInv
  BY KeptInvariant, PTL DEF ExactDelivery
<1> QED BY <1>1, <1>2, <1>3, <1>4, <1>5, TypeCorrect, PTL DEF Spec
=============================================================================
