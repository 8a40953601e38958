---------------------------- MODULE MCMembership ----------------------------
(* Model-checking instances of Membership.                                 *)
EXTENDS Membership, TLC

\* Viewers and evaluators are alike here: neither manages members.
ThreeRoles == {"viewer", "admin", "owner"}

Symmetry == Permutations(Users \ {Founder}) \cup Permutations(Requests)
=============================================================================
