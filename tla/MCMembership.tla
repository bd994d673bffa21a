------------------------------ MODULE MCMembership -----------------------------
(* Membership's constants for TLC.  Users are alike and so are workers, and *)
(* there are no liveness properties, so permuting them is sound.            *)
EXTENDS Membership, TLC

Symmetry == Permutations(Users) \cup Permutations(Workers) \cup Permutations(Proposals)
================================================================================
