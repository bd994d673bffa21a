--------------------------- MODULE ApprovalContract ----------------------------
(***************************************************************************)
(* What the registry promises of changes that need approval: a change is   *)
(* started once, by enough users other than its requester or by an owner's *)
(* bypass; it is applied at most once; how it ended is recorded truthfully *)
(* and for good.  Decisions may still arrive after the request has ended.  *)
(***************************************************************************)
EXTENDS Naturals, FiniteSets

CONSTANTS Requests, Users, Requesters,
          Counts      \* how many approvals a policy may ask for

VARIABLES
    request,    \* request[r]: its status, who asked, how many must approve, and whether bypassed
    approvals,  \* approvals[r]: the users who approved it
    applied     \* applied[r]: how often the change was made

cvars == <<request, approvals, applied>>

Unused == [status |-> "none", by |-> "nobody", required |-> 0, bypassed |-> FALSE]

CInit ==
    /\ request = [r \in Requests |-> Unused]
    /\ approvals = [r \in Requests |-> {}]
    /\ applied = [r \in Requests |-> 0]

Moves(r, from, to) ==
    /\ request[r].status = from
    /\ request' = [request EXCEPT ![r].status = to]

Open(r) ==
    /\ request[r] = Unused
    /\ \E by \in Requesters, n \in Counts :
         request' = [request EXCEPT ![r] =
                       [status |-> "pending_approval", by |-> by,
                        required |-> n, bypassed |-> FALSE]]
    /\ UNCHANGED <<approvals, applied>>

Approve(r, u) ==
    /\ request[r] # Unused
    /\ u # request[r].by
    /\ approvals' = [approvals EXCEPT ![r] = @ \cup {u}]
    /\ UNCHANGED <<request, applied>>

Start(r) ==
    /\ Cardinality(approvals[r]) >= request[r].required
    /\ Moves(r, "pending_approval", "executing")
    /\ UNCHANGED <<approvals, applied>>

StartBypassed(r) ==
    /\ request[r].status = "pending_approval"
    /\ request' = [request EXCEPT ![r].status = "executing", ![r].bypassed = TRUE]
    /\ UNCHANGED <<approvals, applied>>

Apply(r) ==
    /\ request[r].status = "executing"
    /\ applied[r] = 0
    /\ applied' = [applied EXCEPT ![r] = 1]
    /\ UNCHANGED <<request, approvals>>

Finish(r) ==
    /\ Moves(r, "executing", IF applied[r] = 1 THEN "executed" ELSE "failed")
    /\ UNCHANGED <<approvals, applied>>

Drop(r) ==
    /\ \E end \in {"rejected", "expired"} : Moves(r, "pending_approval", end)
    /\ UNCHANGED <<approvals, applied>>

CNext ==
    \E r \in Requests :
       \/ Open(r)
       \/ \E u \in Users : Approve(r, u)
       \/ Start(r)
       \/ StartBypassed(r)
       \/ Apply(r)
       \/ Finish(r)
       \/ Drop(r)

CSpec == CInit /\ [][CNext]_cvars
================================================================================
