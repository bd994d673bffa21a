----------------------------- MODULE ApprovalsProofs ---------------------------
(***************************************************************************)
(* Proofs about Approvals, for any requests, users, policies and number of *)
(* deciding calls: its invariants, and that it implements                  *)
(* ApprovalContract.                                                       *)
(***************************************************************************)
EXTENDS Approvals, FiniteSetTheorems, TLAPS

USE OwnersAssumption, PoliciesAssumption, FiniteAssumption

CallType == {Idle} \cup [step : Steps, user : Users, req : Requests, choice : Choices]
RequestType ==
    {Unused} \cup [status : {"pending_approval", "executing"} \cup Resolved,
                   by : Requesters, required : Counts, bypassed : BOOLEAN]

Runs(c) == call[c].step \in Running

(* What a call knows of its request at each of its steps.                  *)
CallOK(c) ==
    /\ call[c] # Idle => request[call[c].req] # Unused
    /\ call[c].step \in {"check", "record"} => call[c].user # request[call[c].req].by
    /\ call[c].step = "claim" /\ call[c].choice # "bypass" => Enough(decision, call[c].req)
    /\ call[c].step = "applied" => applied[call[c].req] = 1
    /\ call[c].step \in {"run", "refused"} => applied[call[c].req] = 0

CallsOK == \A c \in Calls : CallOK(c)

(* Nobody has decided what was not asked, and nothing was applied before   *)
(* it was started.                                                         *)
RequestOK(r) ==
    /\ request[r] = Unused => Approvers(decision, r) = {} /\ applied[r] = 0
    /\ Pending(r) => applied[r] = 0 /\ request[r].bypassed = FALSE

RequestsOK == \A r \in Requests : RequestOK(r)

(* OneCallRuns and QuorumIsNotLost, without the sets of calls.             *)
RunningOK ==
    /\ \A c \in Calls : Runs(c) => request[call[c].req].status = "executing"
    /\ \A c, d \in Calls : Runs(c) /\ Runs(d) /\ call[c].req = call[d].req => c = d

Claims(r) == \E c \in Calls : call[c].step = "claim" /\ call[c].req = r
QuorumOK ==
    \A r \in Requests :
       Pending(r) /\ Enough(decision, r) /\ r \notin dropped /\ r \notin overdue => Claims(r)

IInv == TypeOK /\ CallsOK /\ RequestsOK /\ RunningOK /\ QuorumOK

--------------------------------------------------------------------------------
(* Records and sets.                                                       *)
LEMMA Typed ==
    ASSUME TypeOK
    PROVE  /\ call \in [Calls -> CallType]
           /\ request \in [Requests -> RequestType]
           /\ \A c \in Calls : call[c].step \in Steps => call[c] # Idle
           /\ \A c \in Calls : call[c] # Idle =>
                /\ call[c].step \in Steps
                /\ call[c].user \in Users
                /\ call[c].req \in Requests
                /\ call[c].choice \in Choices
           /\ \A r \in Requests : request[r] # Unused =>
                /\ request[r].by \in Requesters
                /\ request[r].required \in Counts
                /\ request[r].bypassed \in BOOLEAN
                /\ request[r].status \in {"pending_approval", "executing"} \cup Resolved
           /\ \A r \in Requests :
                request[r].status \in {"pending_approval", "executing"} \cup Resolved
                   => request[r] # Unused
  <1>1. call \in [Calls -> CallType] /\ request \in [Requests -> RequestType]
    BY DEF TypeOK, CallType, RequestType
  <1>2. Idle.step \notin Steps
    BY DEF Idle, Steps
  <1>3. Unused.status \notin {"pending_approval", "executing"} \cup Resolved
    BY DEF Unused, Resolved
  <1>4. ASSUME NEW k \in CallType, k # Idle
        PROVE  k.step \in Steps /\ k.user \in Users /\ k.req \in Requests /\ k.choice \in Choices
    BY <1>4 DEF CallType
  <1>5. ASSUME NEW q \in RequestType, q # Unused
        PROVE  /\ q.by \in Requesters /\ q.required \in Counts /\ q.bypassed \in BOOLEAN
               /\ q.status \in {"pending_approval", "executing"} \cup Resolved
    BY <1>5 DEF RequestType
  <1> QED
    BY <1>1, <1>2, <1>3, <1>4, <1>5

LEMMA NextStep ==
    ASSUME NEW k \in CallType, k # Idle, NEW s \in Steps
    PROVE  /\ [k EXCEPT !.step = s] \in CallType
           /\ [k EXCEPT !.step = s].step = s
           /\ [k EXCEPT !.step = s].user = k.user
           /\ [k EXCEPT !.step = s].req = k.req
           /\ [k EXCEPT !.step = s].choice = k.choice
           /\ [k EXCEPT !.step = s] # Idle
  <1>1. Idle.step \notin Steps
    BY DEF Idle, Steps
  <1>2. k \in [step : Steps, user : Users, req : Requests, choice : Choices]
    BY DEF CallType
  <1>3. [k EXCEPT !.step = s] = [step |-> s, user |-> k.user, req |-> k.req, choice |-> k.choice]
    BY <1>2
  <1> QED
    BY <1>1, <1>2, <1>3 DEF CallType

LEMMA NewStatus ==
    ASSUME NEW q \in RequestType, q # Unused, NEW s \in {"executing"} \cup Resolved
    PROVE  /\ [q EXCEPT !.status = s] \in RequestType
           /\ [q EXCEPT !.status = s]
                = [status |-> s, by |-> q.by, required |-> q.required, bypassed |-> q.bypassed]
           /\ [q EXCEPT !.status = s] # Unused
  <1>1. q \in [status : {"pending_approval", "executing"} \cup Resolved,
               by : Requesters, required : Counts, bypassed : BOOLEAN]
    BY DEF RequestType
  <1>2. [q EXCEPT !.status = s]
          = [status |-> s, by |-> q.by, required |-> q.required, bypassed |-> q.bypassed]
    BY <1>1
  <1>3. s # "none"
    BY DEF Resolved
  <1>4. [q EXCEPT !.status = s] # Unused
    BY <1>2, <1>3 DEF Unused
  <1>5. [q EXCEPT !.status = s] \in RequestType
    BY <1>1, <1>2 DEF RequestType
  <1> QED
    BY <1>2, <1>4, <1>5

LEMMA Claimed ==
    ASSUME NEW q \in RequestType, q # Unused, NEW b \in BOOLEAN
    PROVE  /\ [q EXCEPT !.status = "executing", !.bypassed = b] \in RequestType
           /\ [q EXCEPT !.status = "executing", !.bypassed = b]
                = [status |-> "executing", by |-> q.by, required |-> q.required, bypassed |-> b]
           /\ [q EXCEPT !.status = "executing", !.bypassed = b] # Unused
  <1> DEFINE mid == [q EXCEPT !.status = "executing"]
  <1>1. mid = [status |-> "executing", by |-> q.by, required |-> q.required,
               bypassed |-> q.bypassed]
    BY NewStatus
  <1>2. [q EXCEPT !.status = "executing", !.bypassed = b] = [mid EXCEPT !.bypassed = b]
    OBVIOUS
  <1>3. [mid EXCEPT !.bypassed = b]
          = [status |-> "executing", by |-> q.by, required |-> q.required, bypassed |-> b]
    <2> HIDE DEF mid
    <2> QED
      BY <1>1
  <1>4. q.by \in Requesters /\ q.required \in Counts
    BY DEF RequestType
  <1> QED
    BY <1>2, <1>3, <1>4 DEF RequestType, Unused

(* More approvals, and the same request: still enough.                     *)
LEMMA MoreApprovals ==
    ASSUME NEW S \in SUBSET Users, NEW T \in SUBSET Users, S \subseteq T,
           NEW n \in Nat, Cardinality(S) >= n
    PROVE  Cardinality(T) >= n
  <1>1. IsFiniteSet(T)
    BY FS_Subset
  <1>2. Cardinality(S) <= Cardinality(T) /\ Cardinality(T) \in Nat /\ Cardinality(S) \in Nat
    BY <1>1, FS_Subset, FS_CardinalityType
  <1> QED
    BY <1>2

LEMMA CountsAreNat == Counts \subseteq Nat /\ 0 \notin Counts
  BY DEF Counts

--------------------------------------------------------------------------------
(* What steps keep.                                                        *)
Asked(r) == request[r] # Unused
SameAsk(r) ==
    /\ request'[r] # Unused
    /\ request'[r].by = request[r].by
    /\ request'[r].required = request[r].required

LEMMA EnoughStays ==
    ASSUME TypeOK, NEW r \in Requests, Asked(r), SameAsk(r),
           Approvers(decision, r) \subseteq Approvers(decision, r)',
           Enough(decision, r)
    PROVE  Enough(decision, r)'
  <1>1. request[r].required \in Nat
    BY Typed, CountsAreNat DEF Asked
  <1>2. Approvers(decision, r) \in SUBSET Users /\ Approvers(decision, r)' \in SUBSET Users
    BY DEF Approvers
  <1>3. Cardinality(Approvers(decision, r)') >= request[r].required
    BY <1>1, <1>2, MoreApprovals DEF Enough
  <1> QED
    BY <1>3 DEF SameAsk, Enough, Approvers

LEMMA CallsKept ==
    ASSUME IInv,
           \A d \in Calls : call'[d] = call[d] \/ CallOK(d)',
           \A r \in Requests : Asked(r) => SameAsk(r),
           \A r \in Requests : Approvers(decision, r) \subseteq Approvers(decision, r)',
           \A d \in Calls : Runs(d) /\ call'[d] = call[d] =>
              applied'[call[d].req] = applied[call[d].req]
    PROVE  CallsOK'
  <1> SUFFICES ASSUME NEW d \in Calls, call'[d] = call[d] PROVE CallOK(d)'
    BY DEF CallsOK
  <1>1. CASE call[d] = Idle
    BY <1>1 DEF CallOK, Idle
  <1>2. CASE call[d] # Idle
    <2> DEFINE r == call[d].req
    <2>1. r \in Requests /\ Asked(r) /\ CallOK(d)
      BY <1>2, Typed DEF IInv, CallsOK, CallOK, Asked
    <2>2. SameAsk(r)
      BY <2>1
    <2>3. Enough(decision, r) => Enough(decision, r)'
      BY <2>1, <2>2, EnoughStays DEF IInv
    <2>4. call[d].step \in Running => applied'[r] = applied[r]
      BY DEF Runs
    <2> QED
      BY <2>1, <2>2, <2>3, <2>4 DEF CallOK, SameAsk, Running
  <1> QED
    BY <1>1, <1>2

LEMMA RunningKept ==
    ASSUME IInv,
           \A d \in Calls : Runs(d)' => Runs(d) /\ call'[d].req = call[d].req,
           \A d \in Calls : Runs(d)' => request'[call[d].req].status = "executing"
    PROVE  RunningOK'
  BY DEF IInv, RunningOK

LEMMA SameRequests ==
    ASSUME IInv, UNCHANGED <<request, decision, call, applied>>,
           dropped \subseteq dropped', overdue \subseteq overdue'
    PROVE  CallsOK' /\ RequestsOK' /\ RunningOK' /\ QuorumOK'
  <1> USE DEF IInv
  <1>1. CallsOK'
    BY DEF CallsOK, CallOK, Enough, Approvers
  <1>2. RequestsOK'
    BY DEF RequestsOK, RequestOK, Pending, Approvers
  <1>3. RunningOK'
    BY DEF RunningOK, Runs
  <1>4. QuorumOK'
    BY DEF QuorumOK, Pending, Enough, Approvers, Claims
  <1> QED
    BY <1>1, <1>2, <1>3, <1>4

(* A step of one call that changes no request.                             *)
LEMMA CallOnly ==
    ASSUME IInv, NEW c \in Calls, NEW k \in CallType, call' = [call EXCEPT ![c] = k],
           UNCHANGED <<policy, request, decision, overdue, applied>>,
           dropped' \subseteq Requests, dropped \subseteq dropped',
           CallOK(c)', k.step \notin Running,
           call[c].step = "claim" =>
              call[c].req \in dropped' \/ call[c].req \in overdue \/ ~Pending(call[c].req)
    PROVE  IInv'
  <1>1. call' \in [Calls -> CallType] /\ call'[c] = k
        /\ \A d \in Calls : d # c => call'[d] = call[d]
    BY Typed DEF IInv
  <1>2. TypeOK'
    BY <1>1 DEF IInv, TypeOK, CallType
  <1>3. CallsOK'
    <2>1. \A r \in Requests : Asked(r) => SameAsk(r)
      BY DEF Asked, SameAsk
    <2>2. \A r \in Requests : Approvers(decision, r) \subseteq Approvers(decision, r)'
      BY DEF Approvers
    <2> QED
      BY <1>1, <2>1, <2>2, CallsKept
  <1>4. RequestsOK'
    BY DEF IInv, RequestsOK, RequestOK, Pending, Approvers
  <1>5. RunningOK'
    BY <1>1, RunningKept DEF Runs, IInv, RunningOK
  <1>6. QuorumOK'
    <2> SUFFICES ASSUME NEW r \in Requests, Pending(r)', Enough(decision, r)',
                        r \notin dropped', r \notin overdue'
                 PROVE  Claims(r)'
      BY DEF QuorumOK
    <2>1. PICK d \in Calls : call[d].step = "claim" /\ call[d].req = r
      BY DEF IInv, QuorumOK, Pending, Enough, Approvers, Claims
    <2>2. d # c
      BY <2>1 DEF Pending
    <2> QED
      BY <1>1, <2>1, <2>2 DEF Claims
  <1> QED
    BY <1>2, <1>3, <1>4, <1>5, <1>6 DEF IInv

--------------------------------------------------------------------------------
(* Steps of calls that read.                                               *)
LEMMA DecideOK ==
    ASSUME IInv, NEW c \in Calls, NEW u \in Users, NEW r \in Requests,
           NEW choice \in {"approve", "reject"}, Decide(c, u, r, choice)
    PROVE  IInv'
  <1> DEFINE k == [step |-> "check", user |-> u, req |-> r, choice |-> choice]
  <1>1. k \in CallType /\ k.step = "check" /\ k.req = r /\ k.user = u
    BY DEF CallType, Steps, Choices
  <1>2. call' = [call EXCEPT ![c] = k] /\ call[c] = Idle
        /\ UNCHANGED <<policy, request, decision, overdue, applied, dropped>>
    BY DEF Decide
  <1>3. request[r] # Unused /\ u # request[r].by
    BY Typed DEF Decide, IInv, Pending
  <1> HIDE DEF k
  <1>4. call'[c] = k
    BY <1>2 DEF IInv, TypeOK
  <1>5. CallOK(c)'
    BY <1>1, <1>2, <1>3, <1>4 DEF CallOK
  <1>6. call[c].step # "claim" /\ k.step \notin Running
    BY <1>1, <1>2 DEF Idle, Running
  <1>7. dropped \subseteq Requests
    BY DEF IInv, TypeOK
  <1> QED
    BY <1>1, <1>2, <1>5, <1>6, <1>7, CallOnly

LEMMA BypassOK ==
    ASSUME IInv, NEW c \in Calls, NEW u \in Owners, NEW r \in Requests, Bypass(c, u, r)
    PROVE  IInv'
  <1> DEFINE k == [step |-> "claim", user |-> u, req |-> r, choice |-> "bypass"]
  <1>1. k \in CallType /\ k.step = "claim" /\ k.req = r /\ k.choice = "bypass"
    BY DEF CallType, Steps, Choices
  <1>2. call' = [call EXCEPT ![c] = k] /\ call[c] = Idle /\ request[r] # Unused
        /\ UNCHANGED <<policy, request, decision, overdue, applied, dropped>>
    BY DEF Bypass
  <1> HIDE DEF k
  <1>3. call'[c] = k
    BY <1>2 DEF IInv, TypeOK
  <1>4. CallOK(c)'
    BY <1>1, <1>2, <1>3 DEF CallOK
  <1>5. call[c].step # "claim" /\ k.step \notin Running
    BY <1>1, <1>2 DEF Idle, Running
  <1>6. dropped \subseteq Requests
    BY DEF IInv, TypeOK
  <1> QED
    BY <1>1, <1>2, <1>4, <1>5, <1>6, CallOnly

(* A call that returns without a change.                                   *)
LEMMA ReturnOK ==
    ASSUME IInv, NEW c \in Calls, Return(c),
           UNCHANGED <<policy, request, decision, overdue, applied>>,
           dropped' \subseteq Requests, dropped \subseteq dropped',
           call[c].step = "claim" =>
              call[c].req \in dropped' \/ call[c].req \in overdue \/ ~Pending(call[c].req)
    PROVE  IInv'
  <1>1. Idle \in CallType /\ Idle.step = "idle"
    BY DEF CallType, Idle
  <1>2. call' = [call EXCEPT ![c] = Idle] /\ call'[c] = Idle
    BY DEF Return, IInv, TypeOK
  <1>3. CallOK(c)'
    BY <1>1, <1>2 DEF CallOK
  <1>4. Idle.step \notin Running
    BY <1>1 DEF Running
  <1> QED
    BY <1>1, <1>2, <1>3, <1>4, CallOnly

LEMMA CrashOK ==
    ASSUME IInv, NEW c \in Calls, Crash(c)
    PROVE  IInv'
  <1>1. call[c].req \in Requests
    BY Typed DEF Crash, IInv
  <1> QED
    BY <1>1, ReturnOK DEF Crash, IInv, TypeOK

LEMMA CheckOK ==
    ASSUME IInv, NEW c \in Calls, Check(c)
    PROVE  IInv'
  <1>1. call[c].step = "check" /\ dropped \subseteq Requests
        /\ UNCHANGED <<policy, request, decision, overdue, applied, dropped>>
    BY DEF Check, IInv, TypeOK
  <1>2. CASE Return(c)
    BY <1>1, <1>2, ReturnOK
  <1>3. CASE Goto(c, "record")
    <2> DEFINE k == [call[c] EXCEPT !.step = "record"]
    <2>1. call[c] # Idle /\ call[c] \in CallType
      BY <1>1, Typed DEF IInv, Steps
    <2>2. "record" \in Steps
      BY DEF Steps
    <2>3. k \in CallType /\ k.step = "record" /\ k.req = call[c].req /\ k.user = call[c].user
      BY <2>1, <2>2, NextStep
    <2>4. call' = [call EXCEPT ![c] = k]
      BY <1>3 DEF Goto, IInv, TypeOK
    <2> HIDE DEF k
    <2>5. call'[c] = k
      BY <2>4 DEF IInv, TypeOK
    <2>6. CallOK(c)
      BY DEF IInv, CallsOK
    <2>7. CallOK(c)'
      BY <1>1, <2>1, <2>3, <2>5, <2>6 DEF CallOK
    <2>8. k.step \notin Running
      BY <2>3 DEF Running
    <2> QED
      BY <1>1, <2>3, <2>4, <2>7, <2>8, CallOnly
  <1> QED
    BY <1>2, <1>3 DEF Check

--------------------------------------------------------------------------------
(* Requests.                                                               *)
LEMMA SubmitOK ==
    ASSUME IInv, NEW r \in Requests, NEW by \in Requesters, Submit(r, by)
    PROVE  IInv'
  <1> DEFINE q == [status |-> "pending_approval", by |-> by,
                   required |-> policy.required, bypassed |-> FALSE]
  <1>1. policy.required \in Counts
    BY DEF Submit, IInv, TypeOK, Counts
  <1>2. q \in RequestType /\ q # Unused /\ q.status = "pending_approval"
        /\ q.required \in Counts /\ q.bypassed = FALSE
    BY <1>1 DEF RequestType, Unused
  <1>3. request' = [request EXCEPT ![r] = q] /\ request[r] = Unused
        /\ UNCHANGED <<policy, decision, overdue, call, applied, dropped>>
    BY DEF Submit
  <1> HIDE DEF q
  <1>4. request' \in [Requests -> RequestType] /\ request'[r] = q
        /\ \A x \in Requests : x # r => request'[x] = request[x]
    BY <1>2, <1>3, Typed DEF IInv
  <1>5. TypeOK'
    BY <1>3, <1>4 DEF IInv, TypeOK, RequestType
  <1>6. \A d \in Calls : call[d] # Idle => call[d].req \in Requests /\ call[d].req # r
    BY <1>3, Typed DEF IInv, CallsOK, CallOK
  <1>7. CallsOK'
    <2>1. \A x \in Requests : Asked(x) => SameAsk(x)
      BY <1>3, <1>4 DEF Asked, SameAsk
    <2>2. \A x \in Requests : Approvers(decision, x) \subseteq Approvers(decision, x)'
      BY <1>3 DEF Approvers
    <2> QED
      BY <1>3, <2>1, <2>2, CallsKept
  <1>8. Approvers(decision, r) = {} /\ applied[r] = 0
    BY <1>3 DEF IInv, RequestsOK, RequestOK
  <1>9. RequestsOK'
    BY <1>2, <1>3, <1>4, <1>8 DEF IInv, RequestsOK, RequestOK, Pending, Approvers
  <1>10. RunningOK'
    BY <1>3, <1>4, <1>6 DEF IInv, RunningOK, Runs, Idle, Running
  <1>11. QuorumOK'
    <2>1. Cardinality(Approvers(decision, r)') = 0
      BY <1>3, <1>8, FS_EmptySet DEF Approvers
    <2>2. request'[r].required \in Nat \ {0}
      BY <1>2, <1>4, CountsAreNat
    <2>3. ~Enough(decision, r)'
      BY <2>1, <2>2 DEF Enough
    <2> SUFFICES ASSUME NEW x \in Requests, Pending(x)', Enough(decision, x)',
                        x \notin dropped', x \notin overdue'
                 PROVE  Claims(x)'
      BY DEF QuorumOK
    <2>4. x # r
      BY <2>3
    <2>5. Pending(x) /\ Enough(decision, x)
      BY <1>3, <1>4, <2>4 DEF Pending, Enough, Approvers
    <2> QED
      BY <1>3, <2>5 DEF IInv, QuorumOK, Claims
  <1> QED
    BY <1>5, <1>7, <1>9, <1>10, <1>11 DEF IInv

(* A request that nobody runs ends.                                        *)
LEMMA EndFacts ==
    ASSUME IInv, NEW r \in Requests, NEW s \in Resolved, request[r] # Unused,
           request' = [request EXCEPT ![r].status = s],
           UNCHANGED <<policy, decision, overdue, applied, dropped>>,
           call' \in [Calls -> CallType],
           \A d \in Calls : call'[d] = call[d] \/ call'[d] = Idle,
           \A d \in Calls : Runs(d)' => call[d].req # r,
           \A d \in Calls : call[d].step = "claim" => call'[d] = call[d]
    PROVE  IInv'
  <1> DEFINE q == [request[r] EXCEPT !.status = s]
  <1>1. /\ q \in RequestType /\ q # Unused /\ q.status = s
        /\ q.by = request[r].by /\ q.required = request[r].required
    <2>1. request[r] \in RequestType
      BY Typed DEF IInv
    <2>2. q \in RequestType /\ q # Unused
          /\ q = [status |-> s, by |-> request[r].by, required |-> request[r].required,
                  bypassed |-> request[r].bypassed]
      BY <2>1, NewStatus
    <2> HIDE DEF q
    <2> QED
      BY <2>2
  <1>2. request' = [request EXCEPT ![r] = q]
    BY DEF IInv, TypeOK
  <1> HIDE DEF q
  <1>3. request' \in [Requests -> RequestType] /\ request'[r] = q
        /\ \A x \in Requests : x # r => request'[x] = request[x]
    BY <1>1, <1>2, Typed DEF IInv
  <1>4. TypeOK'
    BY <1>3 DEF IInv, TypeOK, RequestType, CallType
  <1>5. CallsOK'
    <2>1. \A x \in Requests : Asked(x) => SameAsk(x)
      BY <1>1, <1>3 DEF Asked, SameAsk
    <2>2. \A x \in Requests : Approvers(decision, x) \subseteq Approvers(decision, x)'
      BY DEF Approvers
    <2>3. \A d \in Calls : call'[d] = Idle => CallOK(d)'
      BY DEF CallOK, Idle
    <2> QED
      BY <2>1, <2>2, <2>3, CallsKept
  <1>6. s # "pending_approval" /\ ~Pending(r)'
    BY <1>1, <1>3 DEF Resolved, Pending
  <1>7. RequestsOK'
    BY <1>1, <1>3, <1>6 DEF IInv, RequestsOK, RequestOK, Pending, Approvers
  <1>8. \A d \in Calls : Runs(d)' => Runs(d) /\ call'[d] = call[d] /\ call[d] # Idle
    BY DEF Runs, Idle, Running
  <1>9. RunningOK'
    <2>1. \A d \in Calls : Runs(d)' => request'[call[d].req].status = "executing"
      BY <1>3, <1>8, Typed DEF IInv, RunningOK
    <2> QED
      BY <1>8, <2>1, RunningKept
  <1>10. QuorumOK'
    BY <1>3, <1>6 DEF IInv, QuorumOK, Pending, Enough, Approvers, Claims
  <1> QED
    BY <1>4, <1>5, <1>7, <1>9, <1>10 DEF IInv

LEMMA ExpireOK ==
    ASSUME IInv, NEW r \in Requests, Expire(r)
    PROVE  IInv'
  <1>1. request[r] # Unused /\ request[r].status # "executing"
    BY Typed DEF Expire, Pending, IInv
  <1>2. \A d \in Calls : Runs(d) => call[d].req # r
    BY <1>1 DEF IInv, RunningOK
  <1>3. "expired" \in Resolved
    BY DEF Resolved
  <1> QED
    BY <1>1, <1>2, <1>3, EndFacts, Typed DEF Expire, IInv, Runs

LEMMA RejectOK ==
    ASSUME IInv, NEW c \in Calls, Reject(c)
    PROVE  IInv'
  <1> DEFINE r == call[c].req
  <1>1. r \in Requests /\ call[c] # Idle /\ call[c].step = "reject"
    BY Typed DEF Reject, IInv, Steps
  <1>2. CASE Pending(r)
    <2>1. request[r] # Unused /\ request[r].status # "executing"
      BY <1>1, <1>2, Typed DEF Pending, IInv
    <2>2. call' = [call EXCEPT ![c] = Idle]
          /\ request' = [request EXCEPT ![r].status = "rejected"]
          /\ UNCHANGED <<policy, decision, overdue, applied, dropped>>
      BY <1>2 DEF Reject, Return
    <2>3. call' \in [Calls -> CallType] /\ call'[c] = Idle
          /\ \A d \in Calls : d # c => call'[d] = call[d]
      BY <2>2, Typed DEF IInv, CallType
    <2>4. \A d \in Calls : Runs(d) => call[d].req # r
      BY <1>1, <2>1 DEF IInv, RunningOK
    <2>5. \A d \in Calls : Runs(d)' => call[d].req # r
      BY <2>3, <2>4 DEF Runs, Idle, Running
    <2>6. "rejected" \in Resolved
      BY DEF Resolved
    <2> HIDE DEF r
    <2> QED
      BY <1>1, <2>1, <2>2, <2>3, <2>5, <2>6, EndFacts
  <1>3. CASE ~Pending(r)
    BY <1>1, <1>3, ReturnOK DEF Reject, IInv, TypeOK
  <1> QED
    BY <1>2, <1>3

LEMMA SettleOK ==
    ASSUME IInv, NEW c \in Calls, Settle(c)
    PROVE  IInv'
  <1> DEFINE r == call[c].req
             s == IF call[c].step = "applied" THEN "executed" ELSE "failed"
  <1>1. r \in Requests /\ call[c] # Idle /\ Runs(c) /\ call[c].step # "claim"
    BY Typed DEF Settle, IInv, Steps, Runs, Running
  <1>2. request[r] # Unused
    BY <1>1 DEF IInv, CallsOK, CallOK
  <1>3. call' = [call EXCEPT ![c] = Idle]
        /\ request' = [request EXCEPT ![r].status = s]
        /\ UNCHANGED <<policy, decision, overdue, applied, dropped>>
    BY DEF Settle, Return
  <1>4. call' \in [Calls -> CallType] /\ call'[c] = Idle
        /\ \A d \in Calls : d # c => call'[d] = call[d]
    BY <1>3, Typed DEF IInv, CallType
  <1>5. \A d \in Calls : Runs(d)' => call[d].req # r
    BY <1>1, <1>4 DEF IInv, RunningOK, Runs, Idle, Running
  <1>6. s \in Resolved
    BY DEF Resolved
  <1> HIDE DEF r, s
  <1> QED
    BY <1>1, <1>2, <1>3, <1>4, <1>5, <1>6, EndFacts

(* A call goes on to a step of its own.                                    *)
LEMMA GoesOn ==
    ASSUME TypeOK, NEW c \in Calls, call[c] # Idle, NEW s \in Steps, Goto(c, s)
    PROVE  /\ call' \in [Calls -> CallType]
           /\ call'[c] # Idle /\ call'[c].step = s
           /\ call'[c].user = call[c].user
           /\ call'[c].req = call[c].req
           /\ call'[c].choice = call[c].choice
           /\ \A d \in Calls : d # c => call'[d] = call[d]
  <1> DEFINE k == [call[c] EXCEPT !.step = s]
  <1>1. /\ k \in CallType /\ k # Idle /\ k.step = s
        /\ k.user = call[c].user /\ k.req = call[c].req /\ k.choice = call[c].choice
    BY NextStep, Typed
  <1>2. call' = [call EXCEPT ![c] = k]
    BY DEF Goto, TypeOK
  <1> HIDE DEF k
  <1>3. call'[c] = k /\ call' \in [Calls -> CallType]
        /\ \A d \in Calls : d # c => call'[d] = call[d]
    BY <1>1, <1>2, Typed
  <1> QED
    BY <1>1, <1>3

(* A decision is recorded: one more approval, or none.                     *)
LEMMA DecisionFacts ==
    ASSUME TypeOK, NEW r \in Requests, NEW u \in Users, decision[r][u] = "none",
           NEW v \in {"approved", "rejected"},
           decision' = [decision EXCEPT ![r][u] = v]
    PROVE  /\ decision' \in [Requests -> [Users -> {"none", "approved", "rejected"}]]
           /\ Approvers(decision, r)'
                = Approvers(decision, r) \cup (IF v = "approved" THEN {u} ELSE {})
           /\ \A x \in Requests : x # r => Approvers(decision, x)' = Approvers(decision, x)
  <1>1. decision' = [decision EXCEPT ![r] = [decision[r] EXCEPT ![u] = v]]
    BY DEF TypeOK
  <1>2. decision[r] \in [Users -> {"none", "approved", "rejected"}]
    BY DEF TypeOK
  <1>3. [decision[r] EXCEPT ![u] = v] \in [Users -> {"none", "approved", "rejected"}]
    BY <1>2
  <1>4. decision' \in [Requests -> [Users -> {"none", "approved", "rejected"}]]
    BY <1>1, <1>3 DEF TypeOK
  <1>5. decision'[r] = [decision[r] EXCEPT ![u] = v]
        /\ \A x \in Requests : x # r => decision'[x] = decision[x]
    BY <1>1 DEF TypeOK
  <1>6. decision'[r][u] = v /\ \A y \in Users : y # u => decision'[r][y] = decision[r][y]
    BY <1>2, <1>5
  <1> QED
    BY <1>4, <1>5, <1>6 DEF Approvers

LEMMA RecordOK ==
    ASSUME IInv, NEW c \in Calls, Record(c)
    PROVE  IInv'
  <1>1. call[c] # Idle /\ call[c].step = "record" /\ dropped \subseteq Requests
        /\ UNCHANGED <<policy, request, overdue, applied, dropped>>
    BY Typed DEF Record, IInv, Steps, TypeOK
  <1>r. PICK r \in Requests : r = call[c].req
    BY <1>1, Typed DEF IInv
  <1>u. PICK u \in Users : u = call[c].user
    BY <1>1, Typed DEF IInv
  <1>v. PICK v \in {"approved", "rejected"} : (v = "approved") = (call[c].choice = "approve")
    <2>1. CASE call[c].choice = "approve"
      <3> WITNESS "approved" \in {"approved", "rejected"}
      <3> QED
        BY <2>1
    <2>2. CASE call[c].choice # "approve"
      <3> WITNESS "rejected" \in {"approved", "rejected"}
      <3> QED
        BY <2>2
    <2> QED
      BY <2>1, <2>2
  <1> DEFINE after == [decision EXCEPT ![r][u] = v]
  <1>2. CASE decision[r][u] # "none"
    BY <1>1, <1>2, <1>r, <1>u, ReturnOK DEF Record
  <1>3. CASE decision[r][u] = "none"
    <2>1. /\ decision' = after
          /\ \/ v = "rejected" /\ Goto(c, "reject")
             \/ v = "approved" /\ Enough(after, r) /\ Goto(c, "claim")
             \/ v = "approved" /\ ~Enough(after, r) /\ Return(c)
      <3>1. v = IF call[c].choice = "approve" THEN "approved" ELSE "rejected"
        BY <1>v
      <3> QED
        BY <1>3, <1>r, <1>u, <1>v, <3>1 DEF Record
    <2>3. /\ decision' \in [Requests -> [Users -> {"none", "approved", "rejected"}]]
          /\ Approvers(decision, r)'
               = Approvers(decision, r) \cup (IF v = "approved" THEN {u} ELSE {})
          /\ \A x \in Requests : x # r => Approvers(decision, x)' = Approvers(decision, x)
      BY <1>3, <2>1, DecisionFacts DEF IInv
    <2>4. Enough(after, r) <=> Enough(decision, r)'
      <3>1. Approvers(after, r) = Approvers(decision, r)'
        BY <2>1 DEF Approvers
      <3> QED
        BY <1>1, <3>1 DEF Enough
    <2> HIDE DEF after
    <2>5. /\ call' \in [Calls -> CallType]
          /\ \A d \in Calls : d # c => call'[d] = call[d]
          /\ \/ v = "rejected" /\ call'[c].step = "reject"
             \/ v = "approved" /\ Enough(decision, r)' /\ call'[c].step = "claim"
             \/ v = "approved" /\ ~Enough(decision, r)' /\ call'[c] = Idle
          /\ call'[c] # Idle => call'[c].req = r
      <3>1. CASE Goto(c, "reject") /\ v = "rejected"
        <4>1. "reject" \in Steps
          BY DEF Steps
        <4> QED
          BY <1>1, <1>r, <3>1, <4>1, GoesOn DEF IInv
      <3>2. CASE Goto(c, "claim") /\ v = "approved" /\ Enough(decision, r)'
        <4>1. "claim" \in Steps
          BY DEF Steps
        <4> QED
          BY <1>1, <1>r, <3>2, <4>1, GoesOn DEF IInv
      <3>3. CASE Return(c) /\ v = "approved" /\ ~Enough(decision, r)'
        BY <3>3, Typed DEF Return, IInv, CallType
      <3> QED
        BY <2>1, <2>4, <3>1, <3>2, <3>3
    <2>6. TypeOK'
      BY <1>1, <2>3, <2>5 DEF IInv, TypeOK, CallType
    <2>7. \A x \in Requests : Approvers(decision, x) \subseteq Approvers(decision, x)'
      BY <2>3
    <2>8. request[r] # Unused
      BY <1>1, <1>r DEF IInv, CallsOK, CallOK
    <2>9. CallOK(c)'
      BY <1>1, <2>5, <2>8 DEF CallOK, Idle
    <2>10. CallsOK'
      <3>1. \A x \in Requests : Asked(x) => SameAsk(x)
        BY <1>1 DEF Asked, SameAsk
      <3> QED
        BY <1>1, <2>5, <2>7, <2>9, <3>1, CallsKept
    <2>11. RequestsOK'
      BY <1>1, <2>3, <2>8 DEF IInv, RequestsOK, RequestOK, Pending
    <2>12. RunningOK'
      BY <1>1, <2>5 DEF IInv, RunningOK, Runs, Idle, Running
    <2>13. QuorumOK'
      <3> SUFFICES ASSUME NEW x \in Requests, Pending(x)', Enough(decision, x)',
                          x \notin dropped', x \notin overdue', ~Claims(x)'
                   PROVE  FALSE
        BY DEF QuorumOK
      <3>1. ~Claims(x)
        BY <1>1, <2>5 DEF Claims
      <3>2. ~Enough(decision, x)
        BY <1>1, <3>1 DEF IInv, QuorumOK, Pending
      <3>3. Approvers(decision, x)' # Approvers(decision, x)
        BY <1>1, <3>2 DEF Enough
      <3>4. x = r /\ v = "approved"
        BY <2>3, <3>3
      <3>5. call'[c].step = "claim"
        BY <2>5, <3>4
      <3>6. call'[c] # Idle
        BY <3>5 DEF Idle
      <3> QED
        BY <2>5, <3>4, <3>5, <3>6 DEF Claims
    <2> QED
      BY <2>6, <2>10, <2>11, <2>12, <2>13 DEF IInv
  <1> QED
    BY <1>2, <1>3

LEMMA ClaimOK ==
    ASSUME IInv, NEW c \in Calls, Claim(c)
    PROVE  IInv'
  <1>1. call[c] # Idle /\ call[c].step = "claim" /\ dropped \subseteq Requests
        /\ UNCHANGED <<policy, decision, overdue, applied, dropped>>
    BY Typed DEF Claim, IInv, Steps, TypeOK
  <1>r. PICK r \in Requests : r = call[c].req
    BY <1>1, Typed DEF IInv
  <1>b. PICK b \in BOOLEAN : b = (call[c].choice = "bypass")
    OBVIOUS
  <1> DEFINE q == [request[r] EXCEPT !.status = "executing", !.bypassed = b]
  <1>2. CASE ~(Pending(r) /\ r \notin overdue)
    BY <1>1, <1>2, <1>r, ReturnOK DEF Claim
  <1>3. CASE Pending(r) /\ r \notin overdue
    <2>1. request' = [request EXCEPT ![r] = q] /\ Goto(c, "run")
      BY <1>3, <1>r, <1>b DEF Claim, IInv, TypeOK
    <2>2. request[r] # Unused /\ request[r] \in RequestType
      BY <1>1, <1>3, Typed DEF IInv, Pending
    <2>3. q \in RequestType /\ q # Unused /\ q.status = "executing"
          /\ q.by = request[r].by /\ q.required = request[r].required
      <3>1. /\ q \in RequestType /\ q # Unused
            /\ q = [status |-> "executing", by |-> request[r].by,
                    required |-> request[r].required, bypassed |-> b]
        BY <2>2, Claimed
      <3> HIDE DEF q
      <3> QED
        BY <3>1
    <2> HIDE DEF q
    <2>4. request' \in [Requests -> RequestType] /\ request'[r] = q
          /\ \A x \in Requests : x # r => request'[x] = request[x]
      BY <1>1, <2>1, <2>3, Typed DEF IInv
    <2>5. /\ call' \in [Calls -> CallType] /\ call'[c].step = "run" /\ call'[c].req = r
          /\ \A d \in Calls : d # c => call'[d] = call[d]
      <3>1. "run" \in Steps
        BY DEF Steps
      <3> QED
        BY <1>1, <1>r, <2>1, <3>1, GoesOn DEF IInv
    <2>6. TypeOK'
      BY <1>1, <2>4, <2>5 DEF IInv, TypeOK, CallType, RequestType
    <2>7. applied[r] = 0
      BY <1>1, <1>3 DEF IInv, RequestsOK, RequestOK
    <2>8. CallOK(c)'
      BY <1>1, <2>3, <2>4, <2>5, <2>7 DEF CallOK
    <2>9. CallsOK'
      <3>1. \A x \in Requests : Asked(x) => SameAsk(x)
        BY <1>1, <2>3, <2>4 DEF Asked, SameAsk
      <3>2. \A x \in Requests : Approvers(decision, x) \subseteq Approvers(decision, x)'
        BY <1>1 DEF Approvers
      <3> QED
        BY <1>1, <2>5, <2>8, <3>1, <3>2, CallsKept
    <2>10. ~Pending(r)'
      BY <2>3, <2>4 DEF Pending
    <2>11. RequestsOK'
      BY <1>1, <2>3, <2>4, <2>10 DEF IInv, RequestsOK, RequestOK, Pending, Approvers
    <2>12. RunningOK'
      <3>1. \A d \in Calls : Runs(d) => call[d].req # r /\ d # c
        BY <1>1, <1>3 DEF IInv, RunningOK, Runs, Running, Pending
      <3>2. \A d \in Calls : Runs(d) => call[d].req \in Requests
        BY Typed DEF IInv, Runs, Running, Steps
      <3> QED
        BY <2>3, <2>4, <2>5, <3>1, <3>2 DEF IInv, RunningOK, Runs
    <2>13. QuorumOK'
      <3> SUFFICES ASSUME NEW x \in Requests, Pending(x)', Enough(decision, x)',
                          x \notin dropped', x \notin overdue'
                   PROVE  Claims(x)'
        BY DEF QuorumOK
      <3>1. x # r
        BY <2>10
      <3>2. Pending(x) /\ Enough(decision, x)
        BY <1>1, <2>4, <3>1 DEF Pending, Enough, Approvers
      <3>3. PICK d \in Calls : call[d].step = "claim" /\ call[d].req = x
        BY <1>1, <3>2 DEF IInv, QuorumOK, Claims
      <3>4. call'[d] = call[d]
        BY <1>r, <2>5, <3>1, <3>3
      <3> QED
        BY <3>3, <3>4 DEF Claims
    <2> QED
      BY <2>6, <2>9, <2>11, <2>12, <2>13 DEF IInv
  <1> QED
    BY <1>2, <1>3

LEMMA RunOK ==
    ASSUME IInv, NEW c \in Calls, Run(c)
    PROVE  IInv'
  <1>1. call[c] # Idle /\ call[c].step = "run"
        /\ UNCHANGED <<policy, request, decision, overdue, dropped>>
    BY Typed DEF Run, IInv, Steps
  <1>r. PICK r \in Requests : r = call[c].req
    BY <1>1, Typed DEF IInv
  <1>2. applied[r] = 0 /\ request[r].status = "executing" /\ request[r] # Unused
    BY <1>1, <1>r, Typed DEF IInv, CallsOK, CallOK, RunningOK, Runs, Running
  <1>3. \/ Goto(c, "applied") /\ applied' = [applied EXCEPT ![r] = applied[r] + 1]
        \/ Goto(c, "refused") /\ applied' = applied
    BY <1>r DEF Run
  <1>4. "applied" \in Steps /\ "refused" \in Steps
    BY DEF Steps
  <1>5. /\ call' \in [Calls -> CallType] /\ call'[c].req = r /\ call'[c] # Idle
        /\ call'[c].step \in {"applied", "refused"}
        /\ \A d \in Calls : d # c => call'[d] = call[d]
    BY <1>1, <1>3, <1>4, <1>r, GoesOn DEF IInv
  <1>6. /\ applied' \in [Requests -> Nat]
        /\ call'[c].step = "applied" => applied'[r] = 1
        /\ call'[c].step = "refused" => applied'[r] = 0
        /\ \A x \in Requests : x # r => applied'[x] = applied[x]
    <2>1. CASE Goto(c, "applied") /\ applied' = [applied EXCEPT ![r] = applied[r] + 1]
      <3>1. call'[c].step = "applied"
        BY <1>1, <1>4, <2>1, GoesOn DEF IInv
      <3>2. applied' = [applied EXCEPT ![r] = 1]
        BY <1>2, <2>1
      <3> QED
        BY <1>1, <3>1, <3>2 DEF IInv, TypeOK
    <2>2. CASE Goto(c, "refused") /\ applied' = applied
      <3>1. call'[c].step = "refused"
        BY <1>1, <1>4, <2>2, GoesOn DEF IInv
      <3> QED
        BY <1>1, <1>2, <2>2, <3>1 DEF IInv, TypeOK
    <2> QED
      BY <1>3, <2>1, <2>2
  <1>7. TypeOK'
    BY <1>1, <1>5, <1>6 DEF IInv, TypeOK, CallType
  <1>8. \A d \in Calls : Runs(d) /\ d # c => call[d].req # r /\ call[d].req \in Requests
    BY <1>1, <1>r, Typed DEF IInv, RunningOK, Runs, Running, Steps
  <1>9. CallOK(c)'
    BY <1>1, <1>2, <1>5, <1>6 DEF CallOK
  <1>10. CallsOK'
    <2>1. \A x \in Requests : Asked(x) => SameAsk(x)
      BY <1>1 DEF Asked, SameAsk
    <2>2. \A x \in Requests : Approvers(decision, x) \subseteq Approvers(decision, x)'
      BY <1>1 DEF Approvers
    <2>3. \A d \in Calls : Runs(d) /\ call'[d] = call[d] =>
             applied'[call[d].req] = applied[call[d].req]
      BY <1>1, <1>5, <1>6, <1>8
    <2> QED
      BY <1>5, <1>9, <2>1, <2>2, <2>3, CallsKept
  <1>11. RequestsOK'
    <2>1. ~Pending(r)'
      BY <1>1, <1>2 DEF Pending
    <2> QED
      BY <1>1, <1>2, <1>6, <2>1 DEF IInv, RequestsOK, RequestOK, Pending, Approvers
  <1>12. RunningOK'
    <2>1. \A d \in Calls : Runs(d)' => Runs(d) /\ call'[d].req = call[d].req
      BY <1>1, <1>5, <1>r DEF Runs, Running
    <2> QED
      BY <1>1, <2>1, RunningKept DEF IInv, RunningOK
  <1>13. QuorumOK'
    <2> SUFFICES ASSUME NEW x \in Requests, Pending(x)', Enough(decision, x)',
                        x \notin dropped', x \notin overdue'
                 PROVE  Claims(x)'
      BY DEF QuorumOK
    <2>1. Claims(x)
      BY <1>1 DEF IInv, QuorumOK, Pending, Enough, Approvers
    <2> QED
      BY <1>1, <1>5, <2>1 DEF Claims
  <1> QED
    BY <1>7, <1>10, <1>11, <1>12, <1>13 DEF IInv

--------------------------------------------------------------------------------
(* The invariants.                                                         *)
LEMMA InitOK == Init => IInv
  <1> SUFFICES ASSUME Init PROVE IInv
    OBVIOUS
  <1>1. TypeOK
    BY DEF Init, TypeOK
  <1>2. CallsOK /\ RunningOK
    BY DEF Init, Idle, CallsOK, CallOK, RunningOK, Runs, Running
  <1>3. \A r \in Requests : ~Pending(r)
    BY DEF Init, Unused, Pending
  <1>4. RequestsOK
    BY <1>3 DEF Init, RequestsOK, RequestOK, Approvers
  <1> QED
    BY <1>1, <1>2, <1>3, <1>4 DEF IInv, QuorumOK

LEMMA QuietOK ==
    IInv /\ (SetPolicy \/ (\E r \in Requests : DeadlinePasses(r)) \/ UNCHANGED vars) => IInv'
  <1> SUFFICES ASSUME IInv,
                      SetPolicy \/ (\E r \in Requests : DeadlinePasses(r)) \/ UNCHANGED vars
               PROVE  IInv'
    OBVIOUS
  <1>1. UNCHANGED <<request, decision, call, applied, dropped>> /\ overdue \subseteq overdue'
    BY DEF SetPolicy, DeadlinePasses, vars
  <1>2. TypeOK'
    BY DEF SetPolicy, DeadlinePasses, vars, IInv, TypeOK
  <1> QED
    BY <1>1, <1>2, SameRequests DEF IInv

LEMMA NextOK == IInv /\ [Next]_vars => IInv'
  <1> SUFFICES ASSUME IInv, [Next]_vars PROVE IInv'
    OBVIOUS
  <1>1. CASE SetPolicy \/ UNCHANGED vars
    BY <1>1, QuietOK
  <1>2. ASSUME NEW r \in Requests,
               (\E by \in Requesters : Submit(r, by)) \/ DeadlinePasses(r) \/ Expire(r)
        PROVE  IInv'
    BY <1>2, SubmitOK, QuietOK, ExpireOK
  <1>3. ASSUME NEW c \in Calls, NEW u \in Users, NEW r \in Requests,
               NEW choice \in {"approve", "reject"}, Decide(c, u, r, choice)
        PROVE  IInv'
    BY <1>3, DecideOK
  <1>4. ASSUME NEW c \in Calls, NEW u \in Owners, NEW r \in Requests, Bypass(c, u, r)
        PROVE  IInv'
    BY <1>4, BypassOK
  <1>5. ASSUME NEW c \in Calls, CallStep(c) \/ Crash(c)
        PROVE  IInv'
    BY <1>5, CheckOK, RecordOK, RejectOK, ClaimOK, RunOK, SettleOK, CrashOK DEF CallStep
  <1> QED
    BY <1>1, <1>2, <1>3, <1>4, <1>5 DEF Next

LEMMA Invariance == Spec => []IInv
  BY InitOK, NextOK, PTL DEF Spec

(* Every variable has its type.                                            *)
THEOREM TypeCorrect == Spec => []TypeOK
  <1>1. IInv => TypeOK
    BY DEF IInv
  <1> QED
    BY <1>1, Invariance, PTL

(* However decisions, bypasses, expiry and crashes interleave, at most one *)
(* call runs a request, and its status says so.                            *)
THEOREM OneCallRunsARequest == Spec => []OneCallRuns
  <1>1. IInv => OneCallRuns
    BY DEF IInv, RunningOK, OneCallRuns, RunningCalls, Runs
  <1> QED
    BY <1>1, Invariance, PTL

(* The approver who completes the count sees that it is complete.          *)
THEOREM ApprovalsAreCounted == Spec => []QuorumIsNotLost
  <1>1. IInv => QuorumIsNotLost
    <2> SUFFICES ASSUME IInv, NEW r \in Requests, r \notin dropped, r \notin overdue,
                        Pending(r), Enough(decision, r)
                 PROVE  \E c \in Calls : call[c] # Idle /\ call[c].req = r
                                         /\ call[c].step = "claim"
      BY DEF QuorumIsNotLost
    <2>1. PICK c \in Calls : call[c].step = "claim" /\ call[c].req = r
      BY DEF IInv, QuorumOK, Claims
    <2>2. call[c] # Idle
      BY <2>1 DEF Idle
    <2> QED
      BY <2>1, <2>2
  <1> QED
    BY <1>1, Invariance, PTL

--------------------------------------------------------------------------------
(* The contract.                                                           *)
ContractStep == [Contract!CNext]_(Contract!cvars)

LEMMA Stutters ==
    ASSUME UNCHANGED <<request, applied>>,
           \A r \in Requests : Approvers(decision, r)' = Approvers(decision, r)
    PROVE  ContractStep
  <1>1. [r \in Requests |-> Approvers(decision, r)]'
          = [r \in Requests |-> Approvers(decision, r)]
    OBVIOUS
  <1> QED
    BY <1>1 DEF ContractStep, Contract!cvars

LEMMA SubmitOpens ==
    ASSUME IInv, NEW r \in Requests, NEW by \in Requesters, Submit(r, by)
    PROVE  ContractStep
  <1>1. policy.required \in Counts
    BY DEF Submit, IInv, TypeOK, Counts
  <1>2. UNCHANGED <<decision, applied>>
    BY DEF Submit
  <1>3. Contract!Open(r)
    BY <1>1, <1>2 DEF Submit, Contract!Open, Contract!Unused, Unused, Approvers
  <1> QED
    BY <1>3 DEF ContractStep, Contract!CNext

LEMMA RecordApproves ==
    ASSUME IInv, NEW c \in Calls, Record(c)
    PROVE  ContractStep
  <1>1. call[c] # Idle /\ call[c].step = "record" /\ UNCHANGED <<request, applied>>
    BY Typed DEF Record, IInv, Steps
  <1>r. PICK r \in Requests : r = call[c].req
    BY <1>1, Typed DEF IInv
  <1>u. PICK u \in Users : u = call[c].user
    BY <1>1, Typed DEF IInv
  <1>2. CASE decision' = decision
    BY <1>1, <1>2, Stutters DEF Approvers
  <1>3. CASE decision[r][u] = "none"
             /\ \E v \in {"approved", "rejected"} : decision' = [decision EXCEPT ![r][u] = v]
    <2>1. PICK v \in {"approved", "rejected"} : decision' = [decision EXCEPT ![r][u] = v]
      BY <1>3
    <2>2. /\ Approvers(decision, r)'
               = Approvers(decision, r) \cup (IF v = "approved" THEN {u} ELSE {})
          /\ \A x \in Requests : x # r => Approvers(decision, x)' = Approvers(decision, x)
      BY <1>3, <2>1, DecisionFacts DEF IInv
    <2>3. CASE v # "approved"
      BY <1>1, <2>2, <2>3, Stutters
    <2>4. CASE v = "approved"
      <3>1. request[r] # Unused /\ u # request[r].by
        BY <1>1, <1>r, <1>u DEF IInv, CallsOK, CallOK
      <3>2. [x \in Requests |-> Approvers(decision, x)]'
              = [[x \in Requests |-> Approvers(decision, x)]
                   EXCEPT ![r] = Approvers(decision, r) \cup {u}]
        BY <2>2, <2>4
      <3>3. Contract!Approve(r, u)
        BY <1>1, <3>1, <3>2 DEF Contract!Approve, Contract!Unused, Unused
      <3> QED
        BY <3>3 DEF ContractStep, Contract!CNext
    <2> QED
      BY <2>3, <2>4
  <1> QED
    BY <1>2, <1>3, <1>r, <1>u DEF Record

LEMMA SameApprovers ==
    ASSUME UNCHANGED decision
    PROVE  UNCHANGED [x \in Requests |-> Approvers(decision, x)]
  BY DEF Approvers

LEMMA EndDrops ==
    ASSUME IInv, NEW r \in Requests, Pending(r), UNCHANGED <<decision, applied>>,
           NEW end \in {"rejected", "expired"},
           request' = [request EXCEPT ![r].status = end]
    PROVE  ContractStep
  <1>1. Contract!Drop(r)
    BY SameApprovers DEF Contract!Drop, Contract!Moves, Pending
  <1> QED
    BY <1>1 DEF ContractStep, Contract!CNext

LEMMA RejectDrops ==
    ASSUME IInv, NEW c \in Calls, Reject(c)
    PROVE  ContractStep
  <1>1. call[c] # Idle /\ UNCHANGED <<decision, applied>>
    BY Typed DEF Reject, IInv, Steps
  <1>2. PICK r \in Requests : r = call[c].req
    BY <1>1, Typed DEF IInv
  <1>3. CASE Pending(r)
    BY <1>1, <1>2, <1>3, EndDrops DEF Reject
  <1>4. CASE ~Pending(r)
    BY <1>1, <1>2, <1>4, Stutters DEF Reject, Approvers
  <1> QED
    BY <1>3, <1>4

LEMMA ClaimStarts ==
    ASSUME IInv, NEW c \in Calls, Claim(c)
    PROVE  ContractStep
  <1>1. call[c] # Idle /\ call[c].step = "claim" /\ UNCHANGED <<decision, applied>>
    BY Typed DEF Claim, IInv, Steps
  <1>2. PICK r \in Requests : r = call[c].req
    BY <1>1, Typed DEF IInv
  <1>3. CASE UNCHANGED request
    BY <1>1, <1>3, Stutters DEF Approvers
  <1>4. CASE Pending(r) /\ request' = [request EXCEPT ![r].status = "executing",
                                         ![r].bypassed = (call[c].choice = "bypass")]
    <2>1. request[r] \in RequestType /\ request[r] # Unused /\ request[r].bypassed = FALSE
      BY <1>4, Typed DEF IInv, Pending, RequestsOK, RequestOK
    <2>2. CASE call[c].choice = "bypass"
      <3>1. request' = [request EXCEPT ![r].status = "executing", ![r].bypassed = TRUE]
        BY <1>4, <2>2
      <3>2. Contract!StartBypassed(r)
        BY <1>1, <1>4, <3>1, SameApprovers DEF Contract!StartBypassed, Pending
      <3> QED
        BY <3>2 DEF ContractStep, Contract!CNext
    <2>3. CASE call[c].choice # "bypass"
      <3>1. request' = [request EXCEPT ![r] =
                          [request[r] EXCEPT !.status = "executing", !.bypassed = FALSE]]
        BY <1>4, <2>3 DEF IInv, TypeOK
      <3>2. [request[r] EXCEPT !.status = "executing", !.bypassed = FALSE]
              = [request[r] EXCEPT !.status = "executing"]
        <4>1. [request[r] EXCEPT !.status = "executing", !.bypassed = FALSE]
                = [status |-> "executing", by |-> request[r].by,
                   required |-> request[r].required, bypassed |-> FALSE]
          BY <2>1, Claimed
        <4>2. [request[r] EXCEPT !.status = "executing"]
                = [status |-> "executing", by |-> request[r].by,
                   required |-> request[r].required, bypassed |-> FALSE]
          BY <2>1, NewStatus
        <4> QED
          BY <4>1, <4>2
      <3>3. request' = [request EXCEPT ![r].status = "executing"]
        BY <3>1, <3>2 DEF IInv, TypeOK
      <3>4. Cardinality(Approvers(decision, r)) >= request[r].required
        BY <1>1, <1>2, <2>3 DEF IInv, CallsOK, CallOK, Enough
      <3>5. Contract!Cardinality(Approvers(decision, r)) >= request[r].required
        BY <3>4 DEF Contract!Cardinality, Cardinality
      <3>6. Contract!Start(r)
        BY <1>1, <1>4, <3>3, <3>5, SameApprovers
           DEF Contract!Start, Contract!Moves, Pending
      <3> QED
        BY <3>6 DEF ContractStep, Contract!CNext
    <2> QED
      BY <2>2, <2>3
  <1> QED
    BY <1>2, <1>3, <1>4 DEF Claim

LEMMA RunApplies ==
    ASSUME IInv, NEW c \in Calls, Run(c)
    PROVE  ContractStep
  <1>1. call[c] # Idle /\ call[c].step = "run" /\ UNCHANGED <<decision, request>>
    BY Typed DEF Run, IInv, Steps
  <1>2. PICK r \in Requests : r = call[c].req
    BY <1>1, Typed DEF IInv
  <1>3. applied[r] = 0 /\ request[r].status = "executing"
    BY <1>1, <1>2 DEF IInv, CallsOK, CallOK, RunningOK, Runs, Running
  <1>4. CASE UNCHANGED applied
    BY <1>1, <1>4, Stutters DEF Approvers
  <1>5. CASE applied' = [applied EXCEPT ![r] = applied[r] + 1]
    <2>1. applied' = [applied EXCEPT ![r] = 1]
      BY <1>3, <1>5
    <2>2. Contract!Apply(r)
      BY <1>1, <1>3, <2>1, SameApprovers DEF Contract!Apply
    <2> QED
      BY <2>2 DEF ContractStep, Contract!CNext
  <1> QED
    BY <1>2, <1>4, <1>5 DEF Run

LEMMA SettleFinishes ==
    ASSUME IInv, NEW c \in Calls, Settle(c)
    PROVE  ContractStep
  <1>1. call[c] # Idle /\ call[c].step \in {"applied", "refused"}
        /\ UNCHANGED <<decision, applied>>
    BY Typed DEF Settle, IInv, Steps
  <1>2. PICK r \in Requests : r = call[c].req
    BY <1>1, Typed DEF IInv
  <1>3. request[r].status = "executing"
        /\ (call[c].step = "applied") = (applied[r] = 1)
    BY <1>1, <1>2 DEF IInv, CallsOK, CallOK, RunningOK, Runs, Running
  <1>4. request' = [request EXCEPT ![r].status =
                      IF applied[r] = 1 THEN "executed" ELSE "failed"]
    BY <1>2, <1>3 DEF Settle
  <1>5. Contract!Finish(r)
    BY <1>1, <1>3, <1>4, SameApprovers DEF Contract!Finish, Contract!Moves
  <1> QED
    BY <1>5 DEF ContractStep, Contract!CNext

(* Approval is atomic: what the handlers and the expiry job do to requests *)
(* are steps of ApprovalContract.                                          *)
THEOREM Refinement == Spec => ImplementsContract
  <1>1. Init => Contract!CInit
    <2> SUFFICES ASSUME Init PROVE Contract!CInit
      OBVIOUS
    <2>1. \A r \in Requests : Approvers(decision, r) = {}
      BY DEF Init, Approvers
    <2> QED
      BY <2>1 DEF Init, Contract!CInit, Contract!Unused, Unused
  <1>2. IInv /\ [Next]_vars => [Contract!CNext]_(Contract!cvars)
    <2> SUFFICES ASSUME IInv, [Next]_vars PROVE ContractStep
      BY DEF ContractStep
    <2>1. CASE SetPolicy \/ UNCHANGED vars
      BY <2>1, Stutters DEF SetPolicy, vars, Approvers
    <2>2. ASSUME NEW r \in Requests,
                 (\E by \in Requesters : Submit(r, by)) \/ DeadlinePasses(r) \/ Expire(r)
          PROVE  ContractStep
      <3>1. CASE \E by \in Requesters : Submit(r, by)
        BY <3>1, SubmitOpens
      <3>2. CASE DeadlinePasses(r)
        BY <3>2, Stutters DEF DeadlinePasses, Approvers
      <3>3. CASE Expire(r)
        BY <3>3, EndDrops DEF Expire
      <3> QED
        BY <2>2, <3>1, <3>2, <3>3
    <2>3. ASSUME NEW c \in Calls, CallStep(c) \/ Crash(c)
          PROVE  ContractStep
      <3>1. CASE Check(c) \/ Crash(c)
        BY <3>1, Stutters DEF Check, Crash, Approvers
      <3> QED
        BY <2>3, <3>1, RecordApproves, RejectDrops, ClaimStarts, RunApplies, SettleFinishes
           DEF CallStep
    <2>4. ASSUME NEW c \in Calls,
                 \/ \E u \in Users, r \in Requests, choice \in {"approve", "reject"} :
                      Decide(c, u, r, choice)
                 \/ \E u \in Owners, r \in Requests : Bypass(c, u, r)
          PROVE  ContractStep
      BY <2>4, Stutters DEF Decide, Bypass, Approvers
    <2> QED
      BY <2>1, <2>2, <2>3, <2>4 DEF Next
  <1> QED
    BY <1>1, <1>2, Invariance, PTL DEF Spec, ImplementsContract, Contract!CSpec
================================================================================
