------------------------- MODULE RunLifecycle_proofs -------------------------
(* What every implementation of RunLifecycle inherits.                     *)
EXTENDS RunLifecycle, TLAPS

\* A finished run carries the verdict of its settled cases, and a failed one
\* has errored cases only: nothing changes either afterwards.
THEOREM FinishedVerdictAgrees == Spec => [](TypeOK /\ VerdictAgrees)
<1> USE DEF TypeOK, Finished
<1>1. Init => TypeOK /\ VerdictAgrees
  BY DEF Init, VerdictAgrees
<1>2. TypeOK /\ VerdictAgrees /\ [Next]_vars => (TypeOK /\ VerdictAgrees)'
  <2> SUFFICES ASSUME TypeOK, VerdictAgrees, [Next]_vars
               PROVE  (TypeOK /\ VerdictAgrees)'
    OBVIOUS
  <2>1. CASE Start
    BY <2>1 DEF Start, VerdictAgrees
  <2>2. CASE Finish
    BY <2>2 DEF Finish, VerdictAgrees, Verdict, Settled
  <2>3. CASE Abort
    BY <2>3 DEF Abort, VerdictAgrees
  <2>4. ASSUME NEW i \in Items, Settle(i) PROVE (TypeOK /\ VerdictAgrees)'
    BY <2>4 DEF Settle, VerdictAgrees
  <2>5. CASE UNCHANGED vars
    BY <2>5 DEF vars, VerdictAgrees, Verdict, Settled
  <2> QED BY <2>1, <2>2, <2>3, <2>4, <2>5 DEF Next
<1> QED BY <1>1, <1>2, PTL DEF Spec
=============================================================================
