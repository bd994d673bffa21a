---------------------------- MODULE ReleaseContract ----------------------------
(***************************************************************************)
(* What the registry promises of the versions of one remote module, told   *)
(* without transactions, rows or jobs: in each environment at most one     *)
(* version is stable (what every host loads) and at most one is a canary,  *)
(* which always runs next to a stable version.  Once an environment has a  *)
(* stable version it never loses it; it can only be replaced.              *)
(*                                                                         *)
(* Releases implements this specification (ReleasesProofs proves it), and  *)
(* so does ReleaseTransactions as long as requests do not overlap.         *)
(***************************************************************************)
CONSTANTS Envs, Ids

VARIABLES stable,   \* stable[e]: the set holding e's stable version, if any
          canary    \* canary[e]: the set holding e's canary, if any

contractVars == <<stable, canary>>

ContractInit ==
    /\ stable = [e \in Envs |-> {}]
    /\ canary = [e \in Envs |-> {}]

(* A version becomes the stable one, replacing whichever was; a normal     *)
(* deploy ends the canary too, a rollback or a promotion leaves it.        *)
Activate(e, v) ==
    /\ v \notin canary[e]
    /\ stable' = [stable EXCEPT ![e] = {v}]
    /\ canary' \in {canary, [canary EXCEPT ![e] = {}]}

(* A version other than the stable one becomes the canary, replacing a     *)
(* running canary.                                                         *)
StartCanary(e, v) ==
    /\ stable[e] # {}
    /\ v \notin stable[e]
    /\ canary' = [canary EXCEPT ![e] = {v}]
    /\ UNCHANGED stable

(* Everyone goes back to the stable version.                               *)
EndCanary(e) ==
    /\ canary[e] # {}
    /\ canary' = [canary EXCEPT ![e] = {}]
    /\ UNCHANGED stable

(* The canary becomes the stable version for everyone.                     *)
PromoteCanary(e) ==
    /\ canary[e] # {}
    /\ stable' = [stable EXCEPT ![e] = canary[e]]
    /\ canary' = [canary EXCEPT ![e] = {}]

ContractNext ==
    \E e \in Envs :
        \/ \E v \in Ids : Activate(e, v) \/ StartCanary(e, v)
        \/ EndCanary(e)
        \/ PromoteCanary(e)

ContractSpec == ContractInit /\ [][ContractNext]_contractVars
================================================================================
