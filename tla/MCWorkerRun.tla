----------------------------- MODULE MCWorkerRun -----------------------------
(* Model-checking instances of WorkerRun.                                  *)
EXTENDS WorkerRun, TLC

\* A worker node may die at any step but the one between publishing a
\* retry and acknowledging the task it replaces.
CrashBeforeRetry == Steps \ {"retried"}

\* ... nor between recording the header result and acknowledging the task.
CrashBeforeResult == Steps \ {"retried", "acking"}

WorkerSymmetry == Permutations(Workers)
BothSymmetry == Permutations(Workers) \cup Permutations(Items)
=============================================================================
