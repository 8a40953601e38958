---------------------------- MODULE MCCredentials ----------------------------
(* Model-checking instances of Credentials.                                *)
EXTENDS Credentials, TLC

Symmetry == Permutations(Tokens) \cup Permutations(Requests)
=============================================================================
