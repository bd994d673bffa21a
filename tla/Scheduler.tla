------------------------------- MODULE Scheduler -------------------------------
(***************************************************************************)
(* Scheduled operations of all workspaces: created, cancelled while        *)
(* pending, claimed when due by the schedule.run job of some replica, and  *)
(* run one after the other as calls of their creators.                     *)
(*                                                                         *)
(* Abstracted: the call takes effect or is refused (Releases models what   *)
(* it does; held for approval counts as an effect, as for the code); time  *)
(* is whether an operation is due, and whether it started too long ago.    *)
(***************************************************************************)
EXTENDS Naturals, FiniteSets

CONSTANTS
    Operations,
    Runs,       \* runs of the job there may be at a time, on any replica
    Batch       \* operations a run claims at most

ASSUME BatchAssumption == Batch \in Nat \ {0}
ASSUME OperationsAssumption == "none" \notin Operations

VARIABLES
    status,     \* status[o]: the operation's status ("none": not created)
    due,        \* operations whose runAt has come
    stale,      \* operations started STALE_RUNNING_MS ago
    run,        \* run[r]: its next step, the operations it claimed, the one it runs
    effects     \* effects[o]: how often the call of o took effect

vars == <<status, due, stale, run, effects>>

Finished == {"done", "failed", "cancelled"}
Idle == [step |-> "idle", todo |-> {}, op |-> "none"]

TypeOK ==
    /\ status \in [Operations -> {"none", "pending", "running"} \cup Finished]
    /\ due \subseteq Operations
    /\ stale \subseteq Operations
    /\ run \in [Runs -> [step : {"idle", "claim", "call", "succeeded", "refused"},
                         todo : SUBSET Operations, op : Operations \cup {"none"}]]
    /\ effects \in [Operations -> Nat]

Init ==
    /\ status = [o \in Operations |-> "none"]
    /\ due = {}
    /\ stale = {}
    /\ run = [r \in Runs |-> Idle]
    /\ effects = [o \in Operations |-> 0]

--------------------------------------------------------------------------------
Create(o) ==
    /\ status[o] = "none"
    /\ status' = [status EXCEPT ![o] = "pending"]
    /\ UNCHANGED <<due, stale, run, effects>>

(* Plausible error: the status is checked as it was read.                  *)
CancelAsRead(o) ==
    /\ status[o] \in {"pending", "running"}
    /\ status' = [status EXCEPT ![o] = "cancelled"]
    /\ UNCHANGED <<due, stale, run, effects>>

(* "The conditional update closes the race with the job claiming it."      *)
Cancel(o) ==
    /\ status[o] = "pending"
    /\ status' = [status EXCEPT ![o] = "cancelled"]
    /\ UNCHANGED <<due, stale, run, effects>>

FallsDue(o) ==
    /\ status[o] # "none"
    /\ due' = due \cup {o}
    /\ UNCHANGED <<status, stale, run, effects>>

GetsStale(o) ==
    /\ status[o] = "running"
    /\ stale' = stale \cup {o}
    /\ UNCHANGED <<status, due, run, effects>>

--------------------------------------------------------------------------------
(* runScheduled.                                                           *)

(* Plausible error: the sweep is left to a restart that does not do it.    *)
SweepNothing(r) ==
    /\ run[r] = Idle
    /\ run' = [run EXCEPT ![r].step = "claim"]
    /\ UNCHANGED <<status, due, stale, effects>>

(* Operations that have been running for too long are given up first.      *)
Sweep(r) ==
    /\ run[r] = Idle
    /\ run' = [run EXCEPT ![r].step = "claim"]
    /\ status' = [o \in Operations |->
                    IF status[o] = "running" /\ o \in stale THEN "failed" ELSE status[o]]
    /\ UNCHANGED <<due, stale, effects>>

(* claimDue: one statement; of rows another claim has locked it takes none,*)
(* and it takes up to a batch of the others.                               *)
Claimable == {o \in due : status[o] = "pending"}
ClaimDue(r) ==
    \E taken \in SUBSET Claimable :
       /\ run[r].step = "claim"
       /\ Cardinality(taken) <= Batch
       /\ taken = {} => Claimable = {}
       /\ status' = [o \in Operations |-> IF o \in taken THEN "running" ELSE status[o]]
       /\ run' = [run EXCEPT ![r] = IF taken = {} THEN Idle
                                    ELSE [step |-> "call", todo |-> taken, op |-> "none"]]
       /\ UNCHANGED <<due, stale, effects>>

(* execute: the call is injected as the operation's creator ...            *)
Call(r, o) ==
    /\ run[r].step = "call"
    /\ o \in run[r].todo
    /\ \/ /\ run' = [run EXCEPT ![r].step = "succeeded", ![r].op = o]
          /\ effects' = [effects EXCEPT ![o] = @ + 1]
       \/ /\ run' = [run EXCEPT ![r].step = "refused", ![r].op = o]
          /\ UNCHANGED effects
    /\ UNCHANGED <<status, due, stale>>

(* ... and the outcome recorded, whatever the status has become.           *)
Settle(r) ==
    LET o == run[r].op
        rest == run[r].todo \ {o}
    IN /\ run[r].step \in {"succeeded", "refused"}
       /\ status' = [status EXCEPT ![o] =
                       IF run[r].step = "succeeded" THEN "done" ELSE "failed"]
       /\ run' = [run EXCEPT ![r] = IF rest = {} THEN Idle
                                    ELSE [step |-> "call", todo |-> rest, op |-> "none"]]
       /\ UNCHANGED <<due, stale, effects>>

(* The replica dies, or recording an outcome fails: the run is over.       *)
Crash(r) ==
    /\ run[r] # Idle
    /\ run' = [run EXCEPT ![r] = Idle]
    /\ UNCHANGED <<status, due, stale, effects>>

--------------------------------------------------------------------------------
RunStep(r) == Sweep(r) \/ ClaimDue(r) \/ Settle(r) \/ \E o \in Operations : Call(r, o)

Next ==
    \/ \E o \in Operations : Create(o) \/ Cancel(o) \/ FallsDue(o) \/ GetsStale(o)
    \/ \E r \in Runs : RunStep(r) \/ Crash(r)

Spec == Init /\ [][Next]_vars

(* Time passes; the job runs every minute, on a replica that is up, and    *)
(* some run in the end gets to every operation that is due.                *)
FairSpec ==
    /\ Spec
    /\ \A o \in Operations : WF_vars(FallsDue(o)) /\ WF_vars(GetsStale(o))
    /\ \A r \in Runs : SF_vars(Sweep(r)) /\ SF_vars(ClaimDue(r) /\ Claimable # {})
                       /\ WF_vars(RunStep(r))

--------------------------------------------------------------------------------
(* "Hands each to exactly one replica" (claimDue), "only a pending         *)
(* operation can be cancelled": a scheduled change is made at most once,   *)
(* never before it is claimed or after it was cancelled, and one that      *)
(* counts as done was made; whatever replicas die, overlap or sweep.       *)
MadeAtMostOnce ==
    \A o \in Operations :
       /\ effects[o] <= 1
       /\ status[o] \in {"none", "pending", "cancelled"} => effects[o] = 0
       /\ status[o] = "done" => effects[o] = 1

(* No operation waits or runs for ever, also when the replica that runs it *)
(* dies.                                                                   *)
OperationsFinish ==
    \A o \in Operations : status[o] = "pending" ~> status[o] \in Finished

(* "(A replica died mid-call)" is why a run is given up (STALE_RUNNING_MS):*)
(* an operation that was given up is not made afterwards.                  *)
GivenUpIsOver ==
    [][\A o \in Operations : status[o] \in Finished => status'[o] = status[o]]_vars
================================================================================
