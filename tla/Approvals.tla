------------------------------- MODULE Approvals -------------------------------
(***************************************************************************)
(* Changes of one environment that need approval: interceptForApproval     *)
(* records them, users approve, reject or (owners) bypass them, the call   *)
(* that completes the count runs the stored change, a job expires the      *)
(* rest.  Each database transaction of a handler is a step, and a replica  *)
(* may die between any two.                                                *)
(*                                                                         *)
(* Abstracted: the stored call is "applied" or "refused" (it runs in one   *)
(* transaction of its own, which Releases models); a policy is how many    *)
(* must approve and who may; tickets, comments and notices are left out.   *)
(***************************************************************************)
EXTENDS Naturals, FiniteSets

CONSTANTS
    Requests,   \* requests, and stored changes, there can be
    Users,      \* members of the workspace
    Owners,     \* those who may bypass
    Policies,   \* the approval policies an environment may have
    Calls       \* decisions in progress at a time, on any replica

ASSUME OwnersAssumption == Owners \subseteq Users
ASSUME PoliciesAssumption ==
    Policies \subseteq [required : Nat \ {0}, eligible : SUBSET Users]
ASSUME FiniteAssumption == IsFiniteSet(Users) /\ "nobody" \notin Users

VARIABLES
    policy,     \* the environment's effective policy
    request,    \* request[r]: the DeploymentRequest
    decision,   \* decision[r][u]: the DeploymentApproval of u
    overdue,    \* requests past their expiresAt
    call,       \* call[c]: a decide or bypass in progress, by its next step
    applied,    \* applied[r]: how often the stored call took effect
    dropped     \* requests of which a deciding call died

vars == <<policy, request, decision, overdue, call, applied, dropped>>

(* An API key may ask for a change; only users decide.                     *)
Requesters == Users \cup {"apiKey"}
Counts == {p.required : p \in Policies}

NoPolicy == [required |-> 0, eligible |-> Owners]
Unused == [status |-> "none", by |-> "nobody", required |-> 0, bypassed |-> FALSE]
Idle == [step |-> "idle"]

Resolved == {"executed", "failed", "rejected", "expired"}
Steps == {"check", "record", "reject", "claim", "run", "applied", "refused"}
Choices == {"approve", "reject", "bypass"}

Running == {"run", "applied", "refused"}

TypeOK ==
    /\ policy \in Policies \cup {NoPolicy}
    /\ request \in [Requests ->
         {Unused} \cup [status : {"pending_approval", "executing"} \cup Resolved,
                        by : Requesters, required : Counts, bypassed : BOOLEAN]]
    /\ decision \in [Requests -> [Users -> {"none", "approved", "rejected"}]]
    /\ overdue \subseteq Requests
    /\ call \in [Calls -> {Idle} \cup
                   [step : Steps, user : Users, req : Requests, choice : Choices]]
    /\ applied \in [Requests -> Nat]
    /\ dropped \subseteq Requests

Init ==
    /\ policy \in Policies \cup {NoPolicy}
    /\ request = [r \in Requests |-> Unused]
    /\ decision = [r \in Requests |-> [u \in Users |-> "none"]]
    /\ overdue = {}
    /\ call = [c \in Calls |-> Idle]
    /\ applied = [r \in Requests |-> 0]
    /\ dropped = {}

Pending(r) == request[r].status = "pending_approval"
Approvers(decs, r) == {u \in Users : decs[r][u] = "approved"}
Enough(decs, r) == Cardinality(Approvers(decs, r)) >= request[r].required

Goto(c, step) == call' = [call EXCEPT ![c].step = step]
Return(c) == call' = [call EXCEPT ![c] = Idle]

--------------------------------------------------------------------------------
(* An admin sets or deletes the policy; requests keep the count they got.  *)
SetPolicy ==
    /\ policy' \in (Policies \cup {NoPolicy}) \ {policy}
    /\ UNCHANGED <<request, decision, overdue, call, applied, dropped>>

(* Plausible error: the request is recorded without a policy too.          *)
SubmitUnasked(r, by) ==
    /\ request[r] = Unused
    /\ request' = [request EXCEPT ![r] =
                     [status |-> "pending_approval", by |-> by,
                      required |-> policy.required, bypassed |-> FALSE]]
    /\ UNCHANGED <<policy, decision, overdue, call, applied, dropped>>

(* interceptForApproval: without a policy the change runs at once.         *)
Submit(r, by) ==
    /\ request[r] = Unused
    /\ policy # NoPolicy
    /\ request' = [request EXCEPT ![r] =
                     [status |-> "pending_approval", by |-> by,
                      required |-> policy.required, bypassed |-> FALSE]]
    /\ UNCHANGED <<policy, decision, overdue, call, applied, dropped>>

DeadlinePasses(r) ==
    /\ request[r] # Unused
    /\ overdue' = overdue \cup {r}
    /\ UNCHANGED <<policy, request, decision, call, applied, dropped>>

--------------------------------------------------------------------------------
(* decide and bypass.                                                      *)

(* loadRequest; decisionEligibility refuses by the status it read.         *)
Decide(c, u, r, choice) ==
    /\ call[c] = Idle
    /\ Pending(r)
    /\ u # request[r].by
    /\ call' = [call EXCEPT ![c] =
                  [step |-> "check", user |-> u, req |-> r, choice |-> choice]]
    /\ UNCHANGED <<policy, request, decision, overdue, applied, dropped>>

(* Its transaction: the policy of now, and no decision of this user yet.   *)
Check(c) ==
    /\ call[c].step = "check"
    /\ IF call[c].user \in policy.eligible /\ decision[call[c].req][call[c].user] = "none"
       THEN Goto(c, "record")
       ELSE Return(c)
    /\ UNCHANGED <<policy, request, decision, overdue, applied, dropped>>

(* Plausible error: the count is taken before the lock orders the writers. *)
RecordCountsFirst(c) ==
    LET r == call[c].req
        u == call[c].user
        approves == call[c].choice = "approve"
        after == [decision EXCEPT ![r][u] = IF approves THEN "approved" ELSE "rejected"]
    IN /\ call[c].step = "record"
       /\ IF decision[r][u] # "none"
          THEN Return(c) /\ UNCHANGED decision
          ELSE /\ decision' = after
               /\ \/ ~approves /\ Goto(c, "reject")
                  \/ approves /\ Enough(decision, r) /\ Goto(c, "claim")
                  \/ approves /\ ~Enough(decision, r) /\ Return(c)
       /\ UNCHANGED <<policy, request, overdue, applied, dropped>>

(* The decision, its audit event and the count: the event takes the        *)
(* workspace's audit lock, so the count misses no decision made before.    *)
(* A user has one decision per request.                                    *)
Record(c) ==
    LET r == call[c].req
        u == call[c].user
        approves == call[c].choice = "approve"
        after == [decision EXCEPT ![r][u] = IF approves THEN "approved" ELSE "rejected"]
    IN /\ call[c].step = "record"
       /\ IF decision[r][u] # "none"
          THEN Return(c) /\ UNCHANGED decision
          ELSE /\ decision' = after
               /\ \/ ~approves /\ Goto(c, "reject")
                  \/ approves /\ Enough(after, r) /\ Goto(c, "claim")
                  \/ approves /\ ~Enough(after, r) /\ Return(c)
       /\ UNCHANGED <<policy, request, overdue, applied, dropped>>

(* Plausible error: it ends the request whatever became of it.             *)
RejectAnyway(c) ==
    LET r == call[c].req
    IN /\ call[c].step = "reject"
       /\ request' = [request EXCEPT ![r].status = "rejected"]
       /\ Return(c)
       /\ UNCHANGED <<policy, decision, overdue, applied, dropped>>

(* A second transaction ends a rejected request that is still pending.     *)
Reject(c) ==
    LET r == call[c].req
    IN /\ call[c].step = "reject"
       /\ IF Pending(r)
          THEN request' = [request EXCEPT ![r].status = "rejected"]
          ELSE UNCHANGED request
       /\ Return(c)
       /\ UNCHANGED <<policy, decision, overdue, applied, dropped>>

(* An owner's bypass goes to the claim straight from the load.             *)
Bypass(c, u, r) ==
    /\ call[c] = Idle
    /\ request[r] # Unused
    /\ call' = [call EXCEPT ![c] =
                  [step |-> "claim", user |-> u, req |-> r, choice |-> "bypass"]]
    /\ UNCHANGED <<policy, request, decision, overdue, applied, dropped>>

(* Plausible error: the claim checks the deadline but not the status.      *)
ClaimUnlessOverdue(c) ==
    LET r == call[c].req
    IN /\ call[c].step = "claim"
       /\ IF r \notin overdue
          THEN /\ request' = [request EXCEPT ![r].status = "executing",
                                ![r].bypassed = call[c].choice = "bypass"]
               /\ Goto(c, "run")
          ELSE Return(c) /\ UNCHANGED request
       /\ UNCHANGED <<policy, decision, overdue, applied, dropped>>

(* claim: one conditional update, of a pending request in time.            *)
Claim(c) ==
    LET r == call[c].req
    IN /\ call[c].step = "claim"
       /\ IF Pending(r) /\ r \notin overdue
          THEN /\ request' = [request EXCEPT ![r].status = "executing",
                                ![r].bypassed = call[c].choice = "bypass"]
               /\ Goto(c, "run")
          ELSE Return(c) /\ UNCHANGED request
       /\ UNCHANGED <<policy, decision, overdue, applied, dropped>>

(* executeRequest injects the stored call as its requester.                *)
Run(c) ==
    LET r == call[c].req
    IN /\ call[c].step = "run"
       /\ \/ Goto(c, "applied") /\ applied' = [applied EXCEPT ![r] = @ + 1]
          \/ Goto(c, "refused") /\ UNCHANGED applied
       /\ UNCHANGED <<policy, request, decision, overdue, dropped>>

(* It then writes how that ended, unconditionally.                         *)
Settle(c) ==
    /\ call[c].step \in {"applied", "refused"}
    /\ request' = [request EXCEPT ![call[c].req].status =
                     IF call[c].step = "applied" THEN "executed" ELSE "failed"]
    /\ Return(c)
    /\ UNCHANGED <<policy, decision, overdue, applied, dropped>>

(* The replica dies, or one of the call's transactions fails.              *)
Crash(c) ==
    /\ call[c] # Idle
    /\ Return(c)
    /\ dropped' = dropped \cup {call[c].req}
    /\ UNCHANGED <<policy, request, decision, overdue, applied>>

(* Plausible error: the job leaves out requests somebody approved.         *)
ExpireUnanswered(r) ==
    /\ Pending(r)
    /\ r \in overdue
    /\ Approvers(decision, r) = {}
    /\ request' = [request EXCEPT ![r].status = "expired"]
    /\ UNCHANGED <<policy, decision, overdue, call, applied, dropped>>

(* expireRequests, on any replica: one conditional update per request.     *)
Expire(r) ==
    /\ Pending(r)
    /\ r \in overdue
    /\ request' = [request EXCEPT ![r].status = "expired"]
    /\ UNCHANGED <<policy, decision, overdue, call, applied, dropped>>

--------------------------------------------------------------------------------
CallStep(c) ==
    Check(c) \/ Record(c) \/ Reject(c) \/ Claim(c) \/ Run(c) \/ Settle(c)

Next ==
    \/ SetPolicy
    \/ \E r \in Requests :
         \/ \E by \in Requesters : Submit(r, by)
         \/ DeadlinePasses(r)
         \/ Expire(r)
    \/ \E c \in Calls :
         \/ \E u \in Users, r \in Requests, choice \in {"approve", "reject"} :
              Decide(c, u, r, choice)
         \/ \E u \in Owners, r \in Requests : Bypass(c, u, r)
         \/ CallStep(c)
         \/ Crash(c)

Spec == Init /\ [][Next]_vars

(* Time passes, the expiry job runs every few minutes, and a call that is  *)
(* not cut short by a crash goes on to its end.                            *)
FairSpec ==
    /\ Spec
    /\ \A r \in Requests : WF_vars(DeadlinePasses(r)) /\ WF_vars(Expire(r))
    /\ \A c \in Calls : WF_vars(CallStep(c))

--------------------------------------------------------------------------------
RunningCalls(r) == {c \in Calls : call[c] # Idle /\ call[c].req = r /\ call[c].step \in Running}

(* "Only the caller that moved the request from pending_approval to        *)
(* executing gets here" (executeRequest): at any time at most one call     *)
(* runs a request, and only while its status says so.                      *)
OneCallRuns ==
    /\ \A r \in Requests : RunningCalls(r) # {} => request[r].status = "executing"
    /\ \A c, d \in Calls :
         call[c] # Idle /\ call[d] # Idle /\ call[c].req = call[d].req
         /\ call[c].step \in Running /\ call[d].step \in Running => c = d

(* A request with enough approvals does not just lie there until it        *)
(* expires: when two approvers decide at once, one of them sees both       *)
(* decisions and goes on to run it, unless that call died.                 *)
QuorumIsNotLost ==
    \A r \in Requests \ (dropped \cup overdue) :
       Pending(r) /\ Enough(decision, r) =>
          \E c \in Calls : call[c] # Idle /\ call[c].req = r /\ call[c].step = "claim"

(* "Approval is atomic: whichever approval completes the count runs the    *)
(* change exactly once" (docs, APR-07): started with enough approvals of   *)
(* others or bypassed, applied at most once, and recorded as it ended,     *)
(* whatever decisions, expiry and crashes come between.                    *)
Contract == INSTANCE ApprovalContract WITH
                approvals <- [r \in Requests |-> Approvers(decision, r)]
ImplementsContract == Contract!CSpec

(* A change that waits is decided, expires, or was being run by a replica  *)
(* that died; in that last case it keeps its status for ever.              *)
EveryRequestEnds ==
    \A r \in Requests :
       Pending(r) ~> \/ request[r].status \in Resolved
                     \/ request[r].status = "executing" /\ RunningCalls(r) = {}

(* "A single rejected decision MUST immediately transition the request to  *)
(* rejected; the operation is not executed" (APR-08): no approval starts a *)
(* request somebody has rejected.                                          *)
RejectedNeverRuns ==
    [][\A r \in Requests :
         request[r].status # "executing" /\ request'[r].status = "executing"
         /\ ~request'[r].bypassed
           => \A u \in Users : decision[r][u] # "rejected"]_vars
================================================================================
