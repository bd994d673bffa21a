------------------------------- MODULE MCSessions ------------------------------
(* Sessions' constants for TLC.  Requests and sessions are alike, and there *)
(* are no liveness properties, so permuting them is sound.                  *)
EXTENDS Sessions, TLC

Symmetry == Permutations(Calls) \cup Permutations(Families)
================================================================================
