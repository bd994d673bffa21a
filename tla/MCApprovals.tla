------------------------------ MODULE MCApprovals ------------------------------
(* Values of Approvals' constants for TLC: three members, one an owner, and *)
(* a policy that takes two of them; without one, owners may still decide.   *)
EXTENDS Approvals

CONSTANTS u1, u2, u3

MCUsers == {u1, u2, u3}
MCOwners == {u1}
MCPolicies == {[required |-> 2, eligible |-> MCUsers]}
================================================================================
