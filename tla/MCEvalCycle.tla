----------------------------- MODULE MCEvalCycle -----------------------------
(* A model-checking instance of EvalCycle.                                 *)
EXTENDS EvalCycle, TLC

CONSTANTS p1, p2, o1, o2

\* The same names are in use in two organisations.
TwoOrgs == p1 :> o1 @@ p2 :> o2

SomeCycles == [kind : {"cli"}, sync : BOOLEAN, org : {o1}]
                \cup [kind : {"seed"}, sync : {TRUE}, org : {o1}]
                \cup [kind : {"web"}, sync : {FALSE}, org : {o1}]
                \cup [kind : {"api"}, sync : {FALSE}, org : {o1, o2}]
==============================================================================
