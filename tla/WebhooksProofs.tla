----------------------------- MODULE WebhooksProofs ----------------------------
(***************************************************************************)
(* Proofs about Webhooks, for any number of events, workers, attempts and  *)
(* crashes.                                                                *)
(***************************************************************************)
EXTENDS Webhooks, TLAPS

USE OwnersAssumption, BoundsAssumption, EventsAssumption

Works == [job : JobType, step : {"post", "accepted", "refused", "done"},
          retries : 0..MaxRetries]

(* A worker has yet to settle what becomes of its job.                     *)
Undecided(w) == work[w] # Idle /\ work[w].step \in {"post", "refused"}

(* Where an event is, its letters left aside: a worker that only has to    *)
(* complete its job does not count.                                        *)
Base(e) ==
    \/ events[e] = "unsent"
    \/ \E j \in JobType : queue[j] > 0 /\ j.event = e
    \/ \E w \in Workers : Undecided(w) /\ work[w].job.event = e
    \/ e \in delivered
    \/ e \in lost

Safe ==
    \A e \in Events :
       events[e] # "none" =>
          Base(e) \/ letters[e] > 0 \/ resend = [event |-> e, step |-> "send"]

(* A letter is marked when its event is somewhere else, be it another      *)
(* letter.                                                                 *)
ResendOK ==
    /\ resend.step = "idle" => resend = NoResend
    /\ resend.step # "idle" => resend.event \in Events
    /\ resend.step = "send" /\ owner # "org" => letters[resend.event] >= 1
    /\ resend.step = "mark" => /\ owner # "org" /\ letters[resend.event] >= 1
                               /\ Base(resend.event) \/ letters[resend.event] >= 2

IInv == TypeOK /\ Safe /\ ResendOK

--------------------------------------------------------------------------------
LEMMA WorkTypes ==
    ASSUME TypeOK, NEW w \in Workers, work[w] # Idle
    PROVE  work[w] \in Works /\ work[w].job \in JobType /\ work[w].job.event \in Events
  BY DEF TypeOK, Works, JobType

LEMMA WorkIsNotIdle == \A x \in Works : x # Idle
  <1> SUFFICES ASSUME Idle \in Works PROVE FALSE
    OBVIOUS
  <1>1. Idle.step \in {"post", "accepted", "refused", "done"}
    BY DEF Works
  <1> QED
    BY <1>1 DEF Idle

LEMMA SendFacts ==
    ASSUME TypeOK, NEW j \in JobType, Send(j)
    PROVE  /\ queue' \in [JobType -> Nat]
           /\ queue'[j] > 0
           /\ \A k \in JobType : queue[k] > 0 => queue'[k] > 0
  BY DEF TypeOK, Send

LEMMA AttemptTyped ==
    ASSUME NEW e \in Events, NEW n \in 0..MaxRetries
    PROVE  Attempt(e, n) \in JobType /\ Attempt(e, n).event = e
  BY DEF Attempt, JobType

(* A step is safe that leaves each event somewhere, or another letter.     *)
LEMMA Progress ==
    ASSUME IInv, UNCHANGED <<owner, resend>>,
           \A e \in Events : letters'[e] \in Nat /\ letters'[e] >= letters[e],
           \A e \in Events : events'[e] # "none" => events[e] # "none" \/ Base(e)',
           \A e \in Events : Base(e) => Base(e)' \/ letters'[e] = letters[e] + 1
    PROVE  Safe' /\ ResendOK'
  <1>1. letters \in [Events -> Nat]
    BY DEF IInv, TypeOK
  <1>2. ASSUME NEW e \in Events, events'[e] # "none"
        PROVE  Base(e)' \/ letters'[e] > 0 \/ resend' = [event |-> e, step |-> "send"]
    BY <1>1, <1>2 DEF IInv, Safe
  <1>3. ASSUME resend.step = "mark"
        PROVE  Base(resend.event)' \/ letters'[resend.event] >= 2
    <2> DEFINE e == resend.event
    <2>1. e \in Events /\ letters[e] >= 1 /\ (Base(e) \/ letters[e] >= 2)
      BY <1>3 DEF IInv, ResendOK
    <2>2. letters[e] \in Nat /\ letters'[e] \in Nat /\ letters'[e] >= letters[e]
      BY <1>1, <2>1
    <2>3. Base(e) => Base(e)' \/ letters'[e] = letters[e] + 1
      BY <2>1
    <2> HIDE DEF e
    <2>4. letters'[e] >= 2 \/ Base(e)'
      BY <2>1, <2>2, <2>3
    <2> QED
      BY <2>4 DEF e
  <1>4. resend.step # "idle" => letters'[resend.event] >= letters[resend.event]
    BY DEF IInv, ResendOK
  <1>5. resend.step # "idle" => letters'[resend.event] \in Nat /\ letters[resend.event] \in Nat
    BY <1>1 DEF IInv, ResendOK
  <1>6. Safe'
    BY <1>2 DEF Safe
  <1>7. ResendOK'
    BY <1>3, <1>4, <1>5 DEF IInv, ResendOK, NoResend
  <1> QED
    BY <1>6, <1>7

--------------------------------------------------------------------------------
LEMMA InitOK == Init => IInv
  BY DEF Init, IInv, TypeOK, Safe, ResendOK, NoResend

LEMMA ConfigureOK == IInv /\ Configure => IInv'
  <1> SUFFICES ASSUME IInv, Configure PROVE IInv'
    OBVIOUS
  <1> USE DEF Configure
  <1>1. TypeOK'
    BY DEF IInv, TypeOK
  <1>2. \A e \in Events : Base(e) => Base(e)'
    BY DEF Base, Undecided
  <1> QED
    BY <1>1, <1>2, Progress DEF IInv, TypeOK

LEMMA HappenOK ==
    ASSUME IInv, NEW e \in Events, Happen(e)
    PROVE  IInv'
  <1> USE DEF Happen
  <1>1. TypeOK'
    BY DEF IInv, TypeOK
  <1>2. \A x \in Events : Base(x) => Base(x)'
    BY DEF Base, Undecided, IInv, TypeOK
  <1>3. \A x \in Events : events'[x] # "none" => events[x] # "none" \/ Base(x)'
    BY DEF Base, IInv, TypeOK
  <1> QED
    BY <1>1, <1>2, <1>3, Progress DEF IInv, TypeOK

LEMMA DispatchOK ==
    ASSUME IInv, NEW e \in Events, Dispatch(e) \/ DispatchFails(e)
    PROVE  IInv'
  <1> DEFINE j == Attempt(e, 0)
  <1>1. j \in JobType /\ j.event = e
    BY AttemptTyped
  <1>2. UNCHANGED <<owner, endpoint, retries, work, delivered, letters, resend, resends>>
        /\ events' = [events EXCEPT ![e] = "sent"]
    BY DEF Dispatch, DispatchFails
  <1>3. \/ queue' = queue /\ lost' = lost \cup {e}
        \/ Send(j) /\ lost' = lost
    BY DEF Dispatch, DispatchFails
  <1>4. crashes' \in 0..MaxCrashes
    BY DEF Dispatch, DispatchFails, IInv, TypeOK
  <1> HIDE DEF j
  <1>5. queue' \in [JobType -> Nat] /\ \A k \in JobType : queue[k] > 0 => queue'[k] > 0
    BY <1>1, <1>3, SendFacts DEF IInv, TypeOK
  <1>6. TypeOK'
    BY <1>2, <1>3, <1>4, <1>5 DEF IInv, TypeOK
  <1>7. Base(e)'
    BY <1>1, <1>3, SendFacts DEF Base, IInv
  <1>8. \A x \in Events : Base(x) => Base(x)'
    BY <1>2, <1>3, <1>5, <1>7 DEF Base, Undecided, IInv, TypeOK
  <1> QED
    BY <1>2, <1>6, <1>7, <1>8, Progress DEF IInv, TypeOK

--------------------------------------------------------------------------------
(* The steps of a worker.                                                  *)
LEMMA TakeOK ==
    ASSUME IInv, NEW w \in Workers, NEW j \in JobType, Take(w, j)
    PROVE  IInv'
  <1> DEFINE held == [job |-> j, step |-> "post", retries |-> retries]
  <1>1. held \in Works /\ j.event \in Events
    BY DEF IInv, TypeOK, Works, JobType
  <1>2. UNCHANGED <<owner, endpoint, retries, events, delivered, letters, resend, crashes, resends>>
        /\ queue' = [queue EXCEPT ![j] = @ - 1] /\ work[w] = Idle /\ queue[j] > 0
    BY DEF Take
  <1>3. \/ work' = [work EXCEPT ![w] = held] /\ lost' = lost
        \/ lost' = lost \cup {j.event} /\ work' = work
    BY DEF Take
  <1>4. held.step = "post" /\ held.job = j /\ held # Idle
    BY <1>1, WorkIsNotIdle
  <1> HIDE DEF held
  <1>5. queue' \in [JobType -> Nat] /\ \A k \in JobType : k # j => queue'[k] = queue[k]
    BY <1>2 DEF IInv, TypeOK
  <1>6. TypeOK'
    BY <1>1, <1>2, <1>3, <1>5 DEF IInv, TypeOK, Works
  <1>7. Base(j.event)'
    <2>1. CASE work' = [work EXCEPT ![w] = held]
      <3>1. work'[w] = held
        BY <2>1 DEF IInv, TypeOK
      <3> QED
        BY <1>4, <3>1 DEF Base, Undecided
    <2>2. CASE lost' = lost \cup {j.event}
      BY <2>2 DEF Base
    <2> QED
      BY <1>3, <2>1, <2>2
  <1>8. \A v \in Workers : work[v] # Idle => work'[v] = work[v]
    BY <1>2, <1>3 DEF IInv, TypeOK
  <1>9. \A x \in Events : Base(x) => Base(x)'
    <2> SUFFICES ASSUME NEW x \in Events, Base(x), x # j.event PROVE Base(x)'
      BY <1>7
    <2> QED
      BY <1>2, <1>3, <1>5, <1>8 DEF Base, Undecided
  <1> QED
    BY <1>2, <1>6, <1>9, Progress DEF IInv, TypeOK

(* A worker decides what becomes of its job.                               *)
LEMMA Decides ==
    ASSUME IInv, NEW w \in Workers, work[w] # Idle, UNCHANGED <<owner, resend, events>>,
           NEW m \in Events, m = work[w].job.event,
           TypeOK', delivered \subseteq delivered', lost \subseteq lost',
           \A k \in JobType : queue[k] > 0 => queue'[k] > 0,
           \A v \in Workers : v # w => work'[v] = work[v],
           \A e \in Events : letters'[e] >= letters[e],
           Base(m) => Base(m)' \/ letters'[m] = letters[m] + 1
    PROVE  IInv'
  <1>1. ASSUME NEW x \in Events, Base(x), x # m
        PROVE  Base(x)'
    BY <1>1 DEF Base, Undecided
  <1>2. \A x \in Events : Base(x) => Base(x)' \/ letters'[x] = letters[x] + 1
    BY <1>1
  <1> QED
    BY <1>2, Progress DEF IInv, TypeOK

(* What a worker holds, with another step.                                 *)
LEMMA StepTyped ==
    ASSUME TypeOK, NEW w \in Workers, work[w] # Idle,
           NEW s \in {"accepted", "refused", "done"}, work' = [work EXCEPT ![w].step = s]
    PROVE  /\ work' \in [Workers -> {Idle} \cup Works]
           /\ work'[w] # Idle /\ work'[w].step = s /\ work'[w].job = work[w].job
           /\ \A v \in Workers : v # w => work'[v] = work[v]
  <1> DEFINE now == [work[w] EXCEPT !.step = s]
  <1>1. work[w] \in Works
    BY WorkTypes
  <1>2. now \in Works /\ now.step = s /\ now.job = work[w].job
    BY <1>1 DEF Works
  <1>3. work' = [work EXCEPT ![w] = now]
    BY DEF TypeOK
  <1> HIDE DEF now
  <1>4. work'[w] = now
    BY <1>3 DEF TypeOK
  <1> QED
    BY <1>2, <1>3, <1>4, WorkIsNotIdle DEF TypeOK, Works

LEMMA IdleHasNoStep ==
    ASSUME NEW w, work[w] = Idle
    PROVE  work[w].step \notin {"post", "accepted", "refused", "done"}
  BY DEF Idle

LEMMA PostOK ==
    ASSUME IInv, NEW w \in Workers, Post(w)
    PROVE  IInv'
  <1>1. work[w] # Idle /\ work[w].job.event \in Events
    BY IdleHasNoStep, WorkTypes DEF Post, IInv
  <1>2. PICK m \in Events : m = work[w].job.event
    BY <1>1
  <1>3. PICK s \in {"accepted", "refused"} :
          /\ work' = [work EXCEPT ![w].step = s]
          /\ s = "accepted" => delivered' = delivered \cup {m}
          /\ s = "refused" => delivered' = delivered
    BY <1>2 DEF Post
  <1>4. /\ work' \in [Workers -> {Idle} \cup Works]
        /\ work'[w] # Idle /\ work'[w].step = s /\ work'[w].job = work[w].job
        /\ \A v \in Workers : v # w => work'[v] = work[v]
    BY <1>1, <1>3, StepTyped DEF IInv
  <1>5. TypeOK'
    BY <1>2, <1>3, <1>4 DEF IInv, TypeOK, Post, Works
  <1>6. Base(m)'
    BY <1>2, <1>3, <1>4 DEF Base, Undecided
  <1>7. \A e \in Events : letters'[e] >= letters[e]
    BY DEF Post, IInv, TypeOK
  <1> QED
    BY <1>1, <1>2, <1>3, <1>4, <1>5, <1>6, <1>7, Decides DEF Post

LEMMA RetryOK ==
    ASSUME IInv, NEW w \in Workers, Retry(w)
    PROVE  IInv'
  <1>1. work[w] # Idle
    BY IdleHasNoStep DEF Retry
  <1>2. work[w] \in Works /\ work[w].job \in JobType
    BY <1>1, WorkTypes DEF IInv
  <1>3. PICK m \in Events : m = work[w].job.event
    BY <1>2 DEF JobType
  <1> DEFINE n == work[w].job.attempt + 1
             j == Attempt(m, n)
  <1>4. n \in 0..MaxRetries
    BY <1>2 DEF Retry, JobType, Works
  <1>5. j \in JobType /\ j.event = m /\ Send(j)
    BY <1>3, <1>4, AttemptTyped DEF Retry
  <1> HIDE DEF j
  <1>6. /\ queue' \in [JobType -> Nat] /\ queue'[j] > 0
        /\ \A k \in JobType : queue[k] > 0 => queue'[k] > 0
    BY <1>5, SendFacts DEF IInv
  <1>7. /\ work' \in [Workers -> {Idle} \cup Works]
        /\ \A v \in Workers : v # w => work'[v] = work[v]
    BY <1>1, StepTyped DEF IInv, Retry
  <1>8. TypeOK'
    BY <1>6, <1>7 DEF IInv, TypeOK, Retry, Works
  <1>9. Base(m)'
    BY <1>5, <1>6 DEF Base
  <1>10. \A e \in Events : letters'[e] >= letters[e]
    BY DEF Retry, IInv, TypeOK
  <1> QED
    BY <1>1, <1>3, <1>6, <1>7, <1>8, <1>9, <1>10, Decides DEF Retry

LEMMA DeadLetterOK ==
    ASSUME IInv, NEW w \in Workers, DeadLetter(w)
    PROVE  IInv'
  <1>1. work[w] # Idle
    BY IdleHasNoStep DEF DeadLetter
  <1>2. PICK m \in Events : m = work[w].job.event
    BY <1>1, WorkTypes DEF IInv
  <1>3. /\ work' \in [Workers -> {Idle} \cup Works]
        /\ \A v \in Workers : v # w => work'[v] = work[v]
    BY <1>1, StepTyped DEF IInv, DeadLetter
  <1>4. letters' = [letters EXCEPT ![m] = @ + 1] /\ letters \in [Events -> Nat]
    BY <1>2 DEF DeadLetter, IInv, TypeOK
  <1>5. TypeOK'
    BY <1>3, <1>4 DEF IInv, TypeOK, DeadLetter, Works
  <1>6. letters'[m] = letters[m] + 1 /\ \A e \in Events : letters'[e] >= letters[e]
    BY <1>4
  <1> QED
    BY <1>1, <1>2, <1>3, <1>5, <1>6, Decides DEF DeadLetter

(* The job of a worker that is done is no place for an event.              *)
LEMMA CompleteOK ==
    ASSUME IInv, NEW w \in Workers, Complete(w)
    PROVE  IInv'
  <1>1. work[w] # Idle
    BY IdleHasNoStep DEF Complete
  <1>2. PICK m \in Events : m = work[w].job.event
    BY <1>1, WorkTypes DEF IInv
  <1>3. \A v \in Workers : v # w => work'[v] = work[v]
    BY DEF Complete, IInv, TypeOK
  <1>4. TypeOK'
    BY DEF IInv, TypeOK, Complete
  <1>5. Base(m) => Base(m)'
    <2>1. \A v \in Workers : Undecided(v) => v # w
      BY DEF Undecided, Complete
    <2> QED
      BY <1>3, <2>1 DEF Base, Undecided, Complete
  <1>6. \A e \in Events : letters'[e] >= letters[e]
    BY DEF Complete, IInv, TypeOK
  <1> QED
    BY <1>1, <1>2, <1>3, <1>4, <1>5, <1>6, Decides DEF Complete

LEMMA CrashOK ==
    ASSUME IInv, NEW w \in Workers, Crash(w)
    PROVE  IInv'
  <1>1. work[w] # Idle /\ work[w].job \in JobType
    BY WorkTypes DEF Crash, IInv
  <1>2. PICK m \in Events : m = work[w].job.event
    BY <1>1 DEF JobType
  <1> DEFINE j == [work[w].job EXCEPT !.left = @ - 1]
  <1>3. work[w].job.left # 0 => j \in JobType /\ j.event = m
    BY <1>1, <1>2 DEF JobType
  <1>4. \/ work[w].job.left = 0 /\ lost' = lost \cup {m} /\ queue' = queue
        \/ work[w].job.left # 0 /\ Send(j) /\ lost' = lost
    BY <1>2 DEF Crash
  <1> HIDE DEF j
  <1>5. queue' \in [JobType -> Nat] /\ \A k \in JobType : queue[k] > 0 => queue'[k] > 0
    BY <1>3, <1>4, SendFacts DEF IInv, TypeOK
  <1>6. \A v \in Workers : v # w => work'[v] = work[v]
    BY DEF Crash, IInv, TypeOK
  <1>7. crashes' \in 0..MaxCrashes
    BY DEF Crash, IInv, TypeOK
  <1>8. TypeOK'
    BY <1>4, <1>5, <1>7 DEF IInv, TypeOK, Crash
  <1>9. Base(m)'
    BY <1>3, <1>4, SendFacts DEF Base, IInv
  <1>10. \A e \in Events : letters'[e] >= letters[e]
    BY DEF Crash, IInv, TypeOK
  <1> QED
    BY <1>1, <1>2, <1>4, <1>5, <1>6, <1>8, <1>9, <1>10, Decides DEF Crash

--------------------------------------------------------------------------------
(* The retry route.                                                        *)
LEMMA ResendLetterOK == IInv /\ ResendLetter => IInv'
  <1> SUFFICES ASSUME IInv, ResendLetter PROVE IInv'
    OBVIOUS
  <1>1. PICK e \in Events :
          /\ letters[e] > 0
          /\ resend' = [event |-> e, step |-> "send"]
          /\ letters' = IF owner = "org" THEN [letters EXCEPT ![e] = @ - 1] ELSE letters
    BY DEF ResendLetter
  <1>2. letters \in [Events -> Nat] /\ letters' \in [Events -> Nat]
    BY <1>1 DEF IInv, TypeOK
  <1>3. resend'.step = "send" /\ resend'.event = e
    BY <1>1
  <1>4. TypeOK'
    BY <1>1, <1>2 DEF IInv, TypeOK, ResendLetter
  <1>5. \A x \in Events : Base(x) => Base(x)'
    BY DEF Base, Undecided, ResendLetter
  <1>6. \A x \in Events : x # e => letters'[x] = letters[x]
    BY <1>1, <1>2
  <1>7. ResendOK'
    BY <1>1, <1>2, <1>3 DEF ResendOK, ResendLetter
  <1>8. Safe'
    <2> SUFFICES ASSUME NEW x \in Events, events'[x] # "none", x # e
                 PROVE  Base(x)' \/ letters'[x] > 0
      BY <1>1 DEF Safe
    <2>1. resend # [event |-> x, step |-> "send"]
      BY DEF ResendLetter, NoResend
    <2> QED
      BY <1>5, <1>6, <2>1 DEF IInv, Safe, ResendLetter
  <1> QED
    BY <1>4, <1>7, <1>8 DEF IInv

LEMMA ResendQueueOK == IInv /\ ResendQueue => IInv'
  <1> SUFFICES ASSUME IInv, ResendQueue PROVE IInv'
    OBVIOUS
  <1>1. PICK e \in Events : e = resend.event
    BY DEF IInv, ResendOK, ResendQueue
  <1> DEFINE j == Attempt(e, 0)
  <1>2. j \in JobType /\ j.event = e /\ Send(j)
    BY <1>1, AttemptTyped DEF ResendQueue
  <1> HIDE DEF j
  <1>3. /\ queue' \in [JobType -> Nat] /\ queue'[j] > 0
        /\ \A k \in JobType : queue[k] > 0 => queue'[k] > 0
    BY <1>2, SendFacts DEF IInv
  <1>4. UNCHANGED <<owner, endpoint, retries, events, work, delivered, letters, lost, crashes,
                    resends>>
    BY DEF ResendQueue
  <1>5. \/ owner # "org" /\ resend' = [event |-> e, step |-> "mark"]
        \/ resend' = NoResend
    <2>1. resend = [event |-> e, step |-> "send"]
      BY <1>1 DEF ResendQueue, IInv, TypeOK
    <2> QED
      BY <2>1 DEF ResendQueue
  <1>6. TypeOK'
    BY <1>3, <1>4, <1>5 DEF IInv, TypeOK, NoResend
  <1>7. Base(e)'
    BY <1>2, <1>3 DEF Base
  <1>8. \A x \in Events : Base(x) => Base(x)'
    BY <1>3, <1>4 DEF Base, Undecided
  <1>9. Safe'
    BY <1>1, <1>4, <1>7, <1>8 DEF IInv, Safe
  <1>10. ResendOK'
    <2>1. CASE owner # "org" /\ resend' = [event |-> e, step |-> "mark"]
      <3>1. resend'.step = "mark" /\ resend'.event = e
        BY <2>1
      <3>2. letters[e] >= 1
        BY <1>1, <2>1 DEF IInv, ResendOK, ResendQueue
      <3>3. Base(resend.event)'
        BY <1>7, <3>1 DEF Base
      <3> QED
        BY <1>4, <2>1, <3>1, <3>2, <3>3 DEF ResendOK
    <2>2. CASE resend' = NoResend
      BY <2>2 DEF ResendOK, NoResend
    <2> QED
      BY <1>5, <2>1, <2>2
  <1> QED
    BY <1>6, <1>9, <1>10 DEF IInv

LEMMA ResendMarkOK == IInv /\ ResendMark => IInv'
  <1> SUFFICES ASSUME IInv, ResendMark PROVE IInv'
    OBVIOUS
  <1>1. PICK e \in Events : e = resend.event
    BY DEF IInv, ResendOK, ResendMark
  <1>2. letters[e] >= 1 /\ (Base(e) \/ letters[e] >= 2)
    BY <1>1 DEF IInv, ResendOK, ResendMark
  <1>3. letters' = [letters EXCEPT ![e] = @ - 1] /\ letters \in [Events -> Nat]
    BY <1>1 DEF ResendMark, IInv, TypeOK
  <1>4. TypeOK'
    BY <1>2, <1>3 DEF IInv, TypeOK, ResendMark, NoResend
  <1>5. \A x \in Events : Base(x) => Base(x)'
    BY DEF Base, Undecided, ResendMark
  <1>6. Safe'
    <2> SUFFICES ASSUME NEW x \in Events, events'[x] # "none"
                 PROVE  Base(x)' \/ letters'[x] > 0
      BY DEF Safe
    <2>1. resend # [event |-> x, step |-> "send"]
      BY DEF ResendMark
    <2>2. CASE x = e
      BY <1>2, <1>3, <1>5, <2>2
    <2>3. CASE x # e
      BY <1>3, <1>5, <2>1, <2>3 DEF IInv, Safe, ResendMark
    <2> QED
      BY <2>2, <2>3
  <1>7. ResendOK'
    BY DEF ResendOK, ResendMark, NoResend
  <1> QED
    BY <1>4, <1>6, <1>7 DEF IInv

LEMMA ResendFailsOK == IInv /\ ResendFails => IInv'
  <1> SUFFICES ASSUME IInv, ResendFails PROVE IInv'
    OBVIOUS
  <1>1. PICK e \in Events : e = resend.event
    BY DEF IInv, TypeOK, ResendOK, ResendFails
  <1>2. lost' = (IF owner = "org" THEN lost \cup {e} ELSE lost) /\ resend' = NoResend
    BY <1>1 DEF ResendFails
  <1>3. crashes' \in 0..MaxCrashes
    BY DEF ResendFails, IInv, TypeOK
  <1>4. TypeOK'
    BY <1>2, <1>3 DEF IInv, TypeOK, ResendFails, NoResend
  <1>5. \A x \in Events : Base(x) => Base(x)'
    BY <1>2 DEF Base, Undecided, ResendFails
  <1>6. resend = [event |-> e, step |-> "send"] => Base(e)' \/ letters[e] > 0
    BY <1>2 DEF IInv, ResendOK, Base, TypeOK
  <1>7. Safe'
    BY <1>1, <1>5, <1>6 DEF IInv, Safe, ResendFails
  <1>8. ResendOK'
    BY <1>2 DEF ResendOK, NoResend
  <1> QED
    BY <1>4, <1>7, <1>8 DEF IInv

--------------------------------------------------------------------------------
LEMMA StutterOK == IInv /\ UNCHANGED vars => IInv'
  <1> SUFFICES ASSUME IInv, UNCHANGED vars PROVE IInv'
    OBVIOUS
  <1> USE DEF vars
  <1>1. TypeOK'
    BY DEF IInv, TypeOK
  <1>2. \A e \in Events : Base(e) => Base(e)'
    BY DEF Base, Undecided
  <1> QED
    BY <1>1, <1>2, Progress DEF IInv, TypeOK

LEMMA NextOK == IInv /\ [Next]_vars => IInv'
  <1> SUFFICES ASSUME IInv, [Next]_vars PROVE IInv'
    OBVIOUS
  <1>1. ASSUME NEW e \in Events, Happen(e) \/ Dispatch(e) \/ DispatchFails(e) PROVE IInv'
    BY <1>1, HappenOK, DispatchOK
  <1>2. ASSUME NEW w \in Workers, WorkStep(w) \/ Crash(w) PROVE IInv'
    BY <1>2, PostOK, RetryOK, DeadLetterOK, CompleteOK, TakeOK, CrashOK DEF WorkStep
  <1>3. CASE ResendLetter \/ ResendStep \/ ResendFails
    BY <1>3, ResendLetterOK, ResendQueueOK, ResendMarkOK, ResendFailsOK DEF ResendStep
  <1>4. CASE Configure \/ UNCHANGED vars
    BY <1>4, ConfigureOK, StutterOK
  <1> QED
    BY <1>1, <1>2, <1>3, <1>4 DEF Next

LEMMA Invariance == Spec => []IInv
  BY InitOK, NextOK, PTL DEF Spec

(* Every variable has its type.                                            *)
THEOREM TypeCorrect == Spec => []TypeOK
  <1>1. IInv => TypeOK
    BY DEF IInv
  <1> QED
    BY <1>1, Invariance, PTL

(* Whatever workers and crashes there are, an event is queued, delivered   *)
(* or waits as a letter, or went one of the ways counted as lost.          *)
THEOREM EventsAreSomewhere == Spec => []NoEventVanishes
  <1>1. ASSUME IInv, NEW e \in Events, Base(e)
        PROVE  Queued(e) \/ e \in delivered \/ e \in lost
    BY <1>1 DEF Base, Undecided, Queued
  <1>2. IInv => NoEventVanishes
    BY <1>1 DEF IInv, Safe, NoEventVanishes, Settled
  <1> QED
    BY <1>2, Invariance, PTL
================================================================================
