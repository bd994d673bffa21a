-------------------------------- MODULE Webhooks -------------------------------
(***************************************************************************)
(* Delivery of events to one webhook endpoint of a workspace or of an      *)
(* organization (the same engine): each event becomes a queued job, each   *)
(* failed attempt queues the next, the last one leaves a dead letter, and  *)
(* an admin can queue a letter again.  A replica may die between any two   *)
(* steps, and pg-boss then runs the job once more, a few times.            *)
(*                                                                         *)
(* Abstracted: payload, signature and log of attempts; the backoff is that *)
(* a job waits; checkUrl's refusal is a failed attempt; an endpoint that   *)
(* is deleted takes its letters along.                                     *)
(***************************************************************************)
EXTENDS Naturals, FiniteSets

CONSTANTS
    Owners,     \* "workspace" or "org": whose tables and retry route
    Events,
    Workers,    \* replicas working the queue
    MaxRetries, \* largest maxRetries an endpoint may have (25)
    JobRetries, \* retryLimit of the queue
    MaxCrashes, \* bound on crashes
    MaxResends  \* bound on letters queued again

ASSUME OwnersAssumption == Owners \subseteq {"workspace", "org"}
ASSUME BoundsAssumption ==
    /\ MaxRetries \in Nat /\ JobRetries \in Nat
    /\ MaxCrashes \in Nat /\ MaxResends \in Nat
ASSUME EventsAssumption == "none" \notin Events

VARIABLES
    owner,      \* whose endpoint it is
    endpoint,   \* active, paused, or not active
    retries,    \* its maxRetries
    events,     \* events[e]: not there, committed but not queued, or queued
    queue,      \* queue[j]: how many waiting jobs are j
    work,       \* work[w]: the job a worker runs, its next step and the maxRetries it read
    delivered,  \* events the endpoint accepted
    letters,    \* letters[e]: dead letters of e that nobody has retried
    resend,     \* the retry route: its event, and its next step
    lost,       \* events given up, other than by a dead letter
    crashes, resends

vars == <<owner, endpoint, retries, events, queue, work, delivered, letters, resend, lost,
          crashes, resends>>

(* A job is an attempt, and how often pg-boss may still run it once more.  *)
JobType == [event : Events, attempt : 0..MaxRetries, left : 0..JobRetries]
Idle == [step |-> "idle"]
NoResend == [event |-> "none", step |-> "idle"]

TypeOK ==
    /\ owner \in Owners
    /\ endpoint \in {"active", "paused", "off"}
    /\ retries \in 0..MaxRetries
    /\ events \in [Events -> {"none", "unsent", "sent"}]
    /\ queue \in [JobType -> Nat]
    /\ work \in [Workers -> {Idle} \cup
                   [job : JobType, step : {"post", "accepted", "refused", "done"},
                    retries : 0..MaxRetries]]
    /\ delivered \subseteq Events
    /\ letters \in [Events -> Nat]
    /\ resend \in [event : Events \cup {"none"}, step : {"idle", "send", "mark"}]
    /\ lost \subseteq Events
    /\ crashes \in 0..MaxCrashes
    /\ resends \in 0..MaxResends

Init ==
    /\ owner \in Owners
    /\ endpoint = "active"
    /\ retries \in 0..MaxRetries
    /\ events = [e \in Events |-> "none"]
    /\ queue = [j \in JobType |-> 0]
    /\ work = [w \in Workers |-> Idle]
    /\ delivered = {}
    /\ letters = [e \in Events |-> 0]
    /\ resend = NoResend
    /\ lost = {}
    /\ crashes = 0
    /\ resends = 0

Attempt(e, n) == [event |-> e, attempt |-> n, left |-> JobRetries]

Send(j) == queue' = [queue EXCEPT ![j] = @ + 1]

--------------------------------------------------------------------------------
(* The endpoint is edited, paused or switched off.                         *)
Configure ==
    /\ endpoint' \in {"active", "paused", "off"}
    /\ retries' \in 0..MaxRetries
    /\ <<endpoint', retries'>> # <<endpoint, retries>>
    /\ UNCHANGED <<owner, events, queue, work, delivered, letters, resend, lost,
                   crashes, resends>>

(* Something happens that the endpoint is subscribed to; its replica goes  *)
(* on to dispatch or emit.                                                 *)
Happen(e) ==
    /\ events[e] = "none"
    /\ endpoint # "off"
    /\ events' = [events EXCEPT ![e] = "unsent"]
    /\ UNCHANGED <<owner, endpoint, retries, queue, work, delivered, letters, resend, lost,
                   crashes, resends>>

Dispatch(e) ==
    /\ events[e] = "unsent"
    /\ events' = [events EXCEPT ![e] = "sent"]
    /\ IF endpoint = "off"
       THEN lost' = lost \cup {e} /\ UNCHANGED queue
       ELSE Send(Attempt(e, 0)) /\ UNCHANGED lost
    /\ UNCHANGED <<owner, endpoint, retries, work, delivered, letters, resend, crashes, resends>>

(* The replica dies after the commit, or the queue refuses.                *)
DispatchFails(e) ==
    /\ events[e] = "unsent"
    /\ crashes < MaxCrashes
    /\ crashes' = crashes + 1
    /\ events' = [events EXCEPT ![e] = "sent"]
    /\ lost' = lost \cup {e}
    /\ UNCHANGED <<owner, endpoint, retries, queue, work, delivered, letters, resend, resends>>

--------------------------------------------------------------------------------
(* handleWebhookDelivery: the endpoint as it is; the event is dropped      *)
(* unless it is active and not paused.                                     *)
Take(w, j) ==
    /\ work[w] = Idle
    /\ queue[j] > 0
    /\ queue' = [queue EXCEPT ![j] = @ - 1]
    /\ IF endpoint = "active"
       THEN /\ work' = [work EXCEPT ![w] = [job |-> j, step |-> "post", retries |-> retries]]
            /\ UNCHANGED lost
       ELSE /\ lost' = lost \cup {j.event}
            /\ UNCHANGED work
    /\ UNCHANGED <<owner, endpoint, retries, events, delivered, letters, resend, crashes, resends>>

Post(w) ==
    /\ work[w].step = "post"
    /\ \/ /\ work' = [work EXCEPT ![w].step = "accepted"]
          /\ delivered' = delivered \cup {work[w].job.event}
       \/ /\ work' = [work EXCEPT ![w].step = "refused"]
          /\ UNCHANGED delivered
    /\ UNCHANGED <<owner, endpoint, retries, events, queue, letters, resend, lost,
                   crashes, resends>>

(* Plausible error: the next attempt is queued as this one.                *)
RetrySame(w) ==
    LET mine == work[w].job
    IN /\ work[w].step = "refused"
       /\ mine.attempt < work[w].retries
       /\ Send(Attempt(mine.event, mine.attempt))
       /\ work' = [work EXCEPT ![w].step = "done"]
       /\ UNCHANGED <<owner, endpoint, retries, events, delivered, letters, resend, lost,
                      crashes, resends>>

(* Of a refused attempt, the next is queued with a backoff ...             *)
Retry(w) ==
    LET mine == work[w].job
    IN /\ work[w].step = "refused"
       /\ mine.attempt < work[w].retries
       /\ Send(Attempt(mine.event, mine.attempt + 1))
       /\ work' = [work EXCEPT ![w].step = "done"]
       /\ UNCHANGED <<owner, endpoint, retries, events, delivered, letters, resend, lost,
                      crashes, resends>>

(* ... unless it was the last: a dead letter.                              *)
DeadLetter(w) ==
    LET mine == work[w].job
    IN /\ work[w].step = "refused"
       /\ mine.attempt >= work[w].retries
       /\ letters' = [letters EXCEPT ![mine.event] = @ + 1]
       /\ work' = [work EXCEPT ![w].step = "done"]
       /\ UNCHANGED <<owner, endpoint, retries, events, queue, delivered, resend, lost,
                      crashes, resends>>

(* Plausible error: a refused attempt ends the job as it is.               *)
CompleteEarly(w) ==
    /\ work[w].step \in {"refused", "accepted", "done"}
    /\ work' = [work EXCEPT ![w] = Idle]
    /\ UNCHANGED <<owner, endpoint, retries, events, queue, delivered, letters, resend, lost,
                   crashes, resends>>

(* The handler returns, and pg-boss completes the job.                     *)
Complete(w) ==
    /\ work[w].step \in {"accepted", "done"}
    /\ work' = [work EXCEPT ![w] = Idle]
    /\ UNCHANGED <<owner, endpoint, retries, events, queue, delivered, letters, resend, lost,
                   crashes, resends>>

(* The replica dies, or a statement fails: the job is run again, unless it *)
(* was too often.                                                          *)
Crash(w) ==
    LET j == work[w].job
    IN /\ work[w] # Idle
       /\ crashes < MaxCrashes
       /\ crashes' = crashes + 1
       /\ IF j.left = 0
          THEN lost' = lost \cup {j.event} /\ UNCHANGED queue
          ELSE Send([j EXCEPT !.left = @ - 1]) /\ UNCHANGED lost
       /\ work' = [work EXCEPT ![w] = Idle]
       /\ UNCHANGED <<owner, endpoint, retries, events, delivered, letters, resend, resends>>

--------------------------------------------------------------------------------
(* Retrying a dead letter: a workspace's is queued, then marked; an        *)
(* organization's is marked, then queued.                                  *)
ResendLetter ==
    /\ resend = NoResend
    /\ resends < MaxResends
    /\ resends' = resends + 1
    /\ \E e \in Events :
         /\ letters[e] > 0
         /\ resend' = [event |-> e, step |-> "send"]
         /\ letters' = IF owner = "org" THEN [letters EXCEPT ![e] = @ - 1] ELSE letters
    /\ UNCHANGED <<owner, endpoint, retries, events, queue, work, delivered, lost, crashes>>

(* enqueueRedelivery: a job for a first attempt.                           *)
ResendQueue ==
    /\ resend.step = "send"
    /\ Send(Attempt(resend.event, 0))
    /\ resend' = IF owner = "workspace" THEN [resend EXCEPT !.step = "mark"] ELSE NoResend
    /\ UNCHANGED <<owner, endpoint, retries, events, work, delivered, letters, lost, crashes,
                   resends>>

ResendMark ==
    /\ resend.step = "mark"
    /\ letters' = [letters EXCEPT ![resend.event] = @ - 1]
    /\ resend' = NoResend
    /\ UNCHANGED <<owner, endpoint, retries, events, queue, work, delivered, lost,
                   crashes, resends>>

(* Not queued, an organization's letter is marked all the same.            *)
ResendFails ==
    /\ resend # NoResend
    /\ crashes < MaxCrashes
    /\ crashes' = crashes + 1
    /\ lost' = IF owner = "org" THEN lost \cup {resend.event} ELSE lost
    /\ resend' = NoResend
    /\ UNCHANGED <<owner, endpoint, retries, events, queue, work, delivered, letters, resends>>

--------------------------------------------------------------------------------
WorkStep(w) ==
    Post(w) \/ Retry(w) \/ DeadLetter(w) \/ Complete(w) \/ \E j \in JobType : Take(w, j)

ResendStep == ResendQueue \/ ResendMark

Next ==
    \/ Configure
    \/ \E e \in Events : Happen(e) \/ Dispatch(e) \/ DispatchFails(e)
    \/ \E w \in Workers : WorkStep(w) \/ Crash(w)
    \/ ResendLetter
    \/ ResendStep
    \/ ResendFails

Spec == Init /\ [][Next]_vars

(* A request that began goes on, workers poll the queue, and a delivery    *)
(* has a timeout.                                                          *)
FairSpec ==
    /\ Spec
    /\ \A e \in Events : WF_vars(Dispatch(e))
    /\ \A w \in Workers : WF_vars(WorkStep(w))
    /\ WF_vars(ResendStep)

--------------------------------------------------------------------------------
Queued(e) ==
    \/ events[e] = "unsent"
    \/ \E j \in JobType : queue[j] > 0 /\ j.event = e
    \/ \E w \in Workers : work[w] # Idle /\ work[w].job.event = e

Settled(e) == e \in delivered \/ letters[e] > 0 \/ e \in lost

(* "Failed deliveries that exhaust all retries MUST be written to a dead   *)
(* letter" (WHK-07): an event is queued, delivered, or waits as a letter,  *)
(* whatever crashes come between attempts, letters and their retries; or   *)
(* it was lost in one of the ways the code has (died before it was queued, *)
(* paused or switched off when its turn came, failed by the job's error).  *)
NoEventVanishes ==
    \A e \in Events :
       events[e] # "none" =>
          Queued(e) \/ resend = [event |-> e, step |-> "send"] \/ Settled(e)

(* Attempts come to an end, also when maxRetries is lowered between them   *)
(* and when crashes make two jobs of one event.                            *)
DeliveriesEnd == \A e \in Events : Queued(e) ~> Settled(e)

(* "Events are enqueued but delivery is suspended until the endpoint is    *)
(* un-paused" (WHK-10): pausing loses none.                                *)
PauseKeepsEvents ==
    [][endpoint = "paused" => lost' = lost]_vars
================================================================================
