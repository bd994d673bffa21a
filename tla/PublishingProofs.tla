---------------------------- MODULE PublishingProofs ---------------------------
(***************************************************************************)
(* Proofs about Publishing, for any workers, requests, jobs, retries and   *)
(* changes.                                                                *)
(***************************************************************************)
EXTENDS Publishing, TLAPS

USE PublishersAssumption, JobsAssumption, BoundsAssumption

JobType == [state : {"none", "waiting", "active"}, left : 0..Retries]
PubType == [step : {"idle", "build"} \cup Outputs, copy : 0..MaxChanges,
            job : Jobs \cup {"none"}]

(* A publish that works a job has it for itself, and the job is active.    *)
JobsOK ==
    /\ \A p \in Publishers : pub[p].job \in Jobs => job[pub[p].job].state = "active"
    /\ \A p, q \in Publishers : p # q /\ pub[p].job \in Jobs => pub[q].job # pub[p].job

(* Nothing that was built is newer than the last change.                   *)
CopiesOK ==
    /\ \A p \in Publishers : pub[p].copy <= version
    /\ \A o \in Outputs : published[o] <= version

(* A publish that is still to be built, or has the last change, for o.     *)
Brings(p, o) == o \in ToPut(p) /\ (pub[p].step = "build" \/ pub[p].copy = version)

(* Only changes are queued.                                                *)
UnsentOK == unsent < version

IInv == TypeOK /\ JobsOK /\ CopiesOK /\ UnsentOK /\ NothingForgotten

LEMMA IdleTyped == Idle \in PubType /\ [Idle EXCEPT !.step = "build"] \in PubType
  BY DEF Idle, PubType, Absent

LEMMA NoJobTyped == NoJob \in JobType
  BY DEF NoJob, JobType

LEMMA InitOK == Init => IInv
  <1> SUFFICES ASSUME Init PROVE IInv
    OBVIOUS
  <1>1. TypeOK
    <2>1. pub \in [Publishers -> PubType] /\ job \in [Jobs -> JobType]
      BY IdleTyped, NoJobTyped DEF Init
    <2>2. published \in [Outputs -> 0..MaxChanges]
      BY DEF Init
    <2>3. version \in 1..MaxChanges /\ unsent \in 0..MaxChanges /\ removing \subseteq Objects
      BY DEF Init
    <2>4. tenant \in {"live", "deleted", "purged"} /\ lost \in BOOLEAN
      BY DEF Init
    <2> QED
      BY <2>1, <2>2, <2>3, <2>4 DEF TypeOK, JobType, PubType
  <1>2. \A p \in Publishers : pub[p].job = "none" /\ pub[p].copy = 0
    BY DEF Init, Idle, Absent
  <1> QED
    BY <1>1, <1>2 DEF Init, IInv, JobsOK, CopiesOK, UnsentOK, NothingForgotten

--------------------------------------------------------------------------------
(* What makes the last change come.                                        *)
LEMMA Comes ==
    /\ unsent > 0 => \A o \in Outputs : Coming(o)
    /\ \A j \in Jobs : Waiting(j) => \A o \in Outputs : Coming(o)
    /\ \A p \in Publishers : pub[p].step = "build" => \A o \in Outputs : Coming(o)
  BY DEF Coming, ToPut

(* A publisher's step, and every other publisher as it was.                *)
Others(p) == \A q \in Publishers : q # p => pub'[q] = pub[q]

(* A step keeps what it does not touch.                                    *)
LEMMA Keeps ==
    ASSUME IInv, version' = version,
           tenant' = "live" /\ ~lost' => tenant = "live" /\ ~lost,
           \A o \in Outputs : published[o] = version => published'[o] = version,
           \A o \in Outputs : Coming(o) => Coming(o)' \/ published'[o] = version
    PROVE  NothingForgotten'
  BY DEF IInv, NothingForgotten

(* ... and a publish that is under way, if others than p are as they were, *)
(* and p brings what it brought.                                           *)
LEMMA ComingStays ==
    ASSUME NEW o \in Outputs, Coming(o), version' = version,
           unsent > 0 => unsent' > 0,
           \A j \in Jobs : Waiting(j) => Waiting(j)',
           NEW p, Others(p), p \in Publishers /\ Brings(p, o) => Brings(p, o)'
    PROVE  Coming(o)'
  <1>1. CASE unsent > 0
    BY <1>1 DEF Coming
  <1>2. CASE \E j \in Jobs : Waiting(j)
    BY <1>2 DEF Coming
  <1>3. ASSUME NEW q \in Publishers, Brings(q, o)
        PROVE  Coming(o)'
    <2>1. CASE q = p
      BY <1>3, <2>1 DEF Coming, Brings
    <2>2. CASE q # p
      <3>1. pub'[q] = pub[q]
        BY <2>2 DEF Others
      <3> QED
        BY <1>3, <3>1 DEF Coming, Brings, ToPut
    <2> QED
      BY <2>1, <2>2
  <1> QED
    BY <1>1, <1>2, <1>3 DEF Coming, Brings

(* Steps that change no publish and no job.                                *)
LEMMA PublishersStay ==
    ASSUME IInv, UNCHANGED <<pub, version>>, NEW o \in Outputs, Coming(o),
           unsent > 0 => unsent' > 0, \A j \in Jobs : Waiting(j) => Waiting(j)'
    PROVE  Coming(o)'
  BY DEF Coming, ToPut

LEMMA SameJobs == JobsOK /\ UNCHANGED <<pub, job>> => JobsOK'
  BY DEF JobsOK

LEMMA SameCopies == TypeOK /\ CopiesOK /\ UNCHANGED <<pub, published>> /\ version' \in Nat
                    /\ version' >= version => CopiesOK'
  BY DEF CopiesOK, TypeOK, PubType

--------------------------------------------------------------------------------
(* Changes and the queue.                                                  *)
LEMMA ChangeOK == IInv /\ Change => IInv'
  <1> SUFFICES ASSUME IInv, Change PROVE IInv'
    OBVIOUS
  <1>1. TypeOK' /\ UnsentOK'
    BY DEF IInv, TypeOK, UnsentOK, Change
  <1>2. unsent' > 0
    BY DEF IInv, TypeOK, Change
  <1>3. NothingForgotten'
    BY <1>2 DEF NothingForgotten, Coming
  <1>4. version' \in Nat /\ version' >= version
    BY DEF IInv, TypeOK, Change
  <1> QED
    BY <1>1, <1>3, <1>4, SameJobs, SameCopies DEF IInv, Change

LEMMA SiblingChangeOK == IInv /\ SiblingChange => IInv'
  <1> SUFFICES ASSUME IInv, SiblingChange PROVE IInv'
    OBVIOUS
  <1>1. TypeOK' /\ UnsentOK'
    BY DEF IInv, TypeOK, UnsentOK, SiblingChange
  <1>2. NothingForgotten'
    BY DEF NothingForgotten, SiblingChange
  <1>3. version' \in Nat /\ version' >= version
    BY DEF IInv, TypeOK, SiblingChange
  <1> QED
    BY <1>1, <1>2, <1>3, SameJobs, SameCopies DEF IInv, SiblingChange

(* A job that is queued is one nobody works.                               *)
LEMMA QueueFacts ==
    ASSUME IInv, NEW j \in Jobs, job[j] = NoJob, Queue(j), UNCHANGED pub
    PROVE  /\ job' \in [Jobs -> JobType]
           /\ Waiting(j)'
           /\ \A k \in Jobs : k # j => job'[k] = job[k]
           /\ JobsOK'
  <1>1. /\ job' \in [Jobs -> JobType]
        /\ job'[j].state = "waiting"
        /\ \A k \in Jobs : k # j => job'[k] = job[k]
    BY DEF IInv, TypeOK, Queue, JobType
  <1>2. \A p \in Publishers : pub[p].job # j
    BY DEF IInv, JobsOK, NoJob
  <1>3. JobsOK'
    BY <1>1, <1>2 DEF IInv, JobsOK
  <1> QED
    BY <1>1, <1>3 DEF Waiting

LEMMA SendOK == IInv /\ Send => IInv'
  <1> SUFFICES ASSUME IInv, Send PROVE IInv'
    OBVIOUS
  <1>1. UNCHANGED <<version, tenant, removing, pub, published, lost>> /\ unsent' = unsent - 1
        /\ unsent > 0
    BY DEF Send
  <1>2. job' \in [Jobs -> JobType] /\ JobsOK' /\ \E j \in Jobs : Waiting(j)'
    <2>1. CASE \E j \in Jobs : job[j] = NoJob /\ Queue(j)
      BY <1>1, <2>1, QueueFacts
    <2>2. CASE (\E j \in Jobs : Waiting(j)) /\ UNCHANGED job
      BY <1>1, <2>2, SameJobs DEF IInv, TypeOK, JobType, Waiting
    <2> QED
      BY <2>1, <2>2 DEF Send
  <1>3. TypeOK' /\ UnsentOK'
    BY <1>1, <1>2 DEF IInv, TypeOK, JobType, UnsentOK
  <1>4. NothingForgotten'
    BY <1>2 DEF NothingForgotten, Coming
  <1>5. CopiesOK'
    BY <1>1 DEF IInv, CopiesOK
  <1> QED
    BY <1>2, <1>3, <1>4, <1>5 DEF IInv

LEMMA SendFailsOK == IInv /\ SendFails => IInv'
  <1> SUFFICES ASSUME IInv, SendFails PROVE IInv'
    OBVIOUS
  <1>1. TypeOK' /\ UnsentOK'
    BY DEF IInv, TypeOK, UnsentOK, SendFails
  <1>2. CopiesOK' /\ JobsOK'
    BY SameJobs DEF IInv, CopiesOK, SendFails
  <1>3. NothingForgotten'
    BY DEF NothingForgotten, SendFails
  <1> QED
    BY <1>1, <1>2, <1>3 DEF IInv

--------------------------------------------------------------------------------
(* One publish.                                                            *)

LEMMA PubTypes ==
    ASSUME TypeOK, NEW p \in Publishers
    PROVE  pub[p] \in PubType
  BY DEF TypeOK, PubType

(* A publish at its next step.                                             *)
LEMMA MovedOn ==
    ASSUME NEW b \in PubType, NEW s \in Outputs, NEW c \in 0..MaxChanges
    PROVE  /\ [b EXCEPT !.step = s, !.copy = c] \in PubType
           /\ [b EXCEPT !.step = s, !.copy = c].step = s
           /\ [b EXCEPT !.step = s, !.copy = c].copy = c
           /\ [b EXCEPT !.step = s, !.copy = c].job = b.job
           /\ [b EXCEPT !.step = s] \in PubType
           /\ [b EXCEPT !.step = s].step = s
           /\ [b EXCEPT !.step = s].copy = b.copy
           /\ [b EXCEPT !.step = s].job = b.job
  BY DEF PubType

LEMMA TakeOK ==
    ASSUME IInv, NEW w \in Workers, NEW j \in Jobs, Take(w, j)
    PROVE  IInv'
  <1> DEFINE now == [step |-> "build", copy |-> Absent, job |-> j]
  <1>1. w \in Publishers /\ now \in PubType /\ now.step = "build" /\ now.job = j /\ now.copy = 0
    BY DEF Publishers, PubType, Absent
  <1>2. pub' = [pub EXCEPT ![w] = now] /\ job' = [job EXCEPT ![j].state = "active"]
        /\ UNCHANGED <<version, tenant, removing, unsent, published, lost>> /\ Waiting(j)
    BY DEF Take
  <1> HIDE DEF now
  <1>3. pub' \in [Publishers -> PubType] /\ pub'[w] = now /\ Others(w)
    BY <1>1, <1>2 DEF IInv, TypeOK, PubType, Others
  <1>4. /\ job' \in [Jobs -> JobType] /\ job'[j].state = "active"
        /\ \A k \in Jobs : k # j => job'[k] = job[k]
    BY <1>2 DEF IInv, TypeOK, JobType
  <1>5. TypeOK' /\ UnsentOK'
    BY <1>2, <1>3, <1>4 DEF IInv, TypeOK, JobType, PubType, UnsentOK
  <1>6. \A p \in Publishers : pub[p].job # j
    BY <1>2 DEF IInv, JobsOK, Waiting
  <1>7. JobsOK'
    BY <1>1, <1>3, <1>4, <1>6 DEF IInv, JobsOK, Others
  <1>8. CopiesOK'
    BY <1>1, <1>2, <1>3 DEF IInv, CopiesOK, Others, TypeOK
  <1>9. NothingForgotten'
    <2>1. pub'[w].step = "build"
      BY <1>1, <1>3
    <2> QED
      BY <1>1, <2>1 DEF NothingForgotten, Coming, ToPut
  <1> QED
    BY <1>5, <1>7, <1>8, <1>9 DEF IInv

LEMMA TakeForNothingOK ==
    ASSUME IInv, NEW j \in Jobs, TakeForNothing(j)
    PROVE  IInv'
  <1>1. /\ job' \in [Jobs -> JobType]
        /\ \A k \in Jobs : k # j => job'[k] = job[k]
    <2> DEFINE now == IF job[j].left = 0 THEN NoJob
                      ELSE [state |-> "waiting", left |-> job[j].left - 1]
    <2>1. now \in JobType
      <3>1. job[j].left \in 0..Retries
        BY DEF IInv, TypeOK
      <3>2. CASE job[j].left = 0
        BY <3>2, NoJobTyped
      <3>3. CASE job[j].left # 0
        <4>1. job[j].left - 1 \in 0..Retries
          BY <3>1, <3>3
        <4> QED
          BY <3>3, <4>1 DEF JobType
      <3> QED
        BY <3>2, <3>3
    <2>2. job' = [job EXCEPT ![j] = now]
      BY DEF TakeForNothing
    <2> HIDE DEF now
    <2> QED
      BY <2>1, <2>2 DEF IInv, TypeOK, JobType
  <1>2. UNCHANGED <<version, tenant, removing, unsent, pub, published, lost>>
    BY DEF TakeForNothing
  <1>3. TypeOK' /\ UnsentOK' /\ CopiesOK'
    BY <1>1, <1>2 DEF IInv, TypeOK, JobType, UnsentOK, CopiesOK
  <1>4. \A p \in Publishers : pub[p].job # j
    BY DEF IInv, JobsOK, Waiting, TakeForNothing
  <1>5. JobsOK'
    BY <1>1, <1>2, <1>4 DEF IInv, JobsOK
  <1>6. NothingForgotten'
    BY DEF NothingForgotten, TakeForNothing
  <1> QED
    BY <1>3, <1>5, <1>6 DEF IInv

(* Routes that publish inline.                                             *)
LEMMA StartFacts ==
    ASSUME IInv, NEW i \in Inline, StartInline(i), UNCHANGED job
    PROVE  /\ pub' \in [Publishers -> PubType]
           /\ JobsOK'
           /\ \A p \in Publishers : pub'[p].copy = 0 \/ pub'[p] = pub[p]
           /\ NothingForgotten'
  <1> DEFINE now == [Idle EXCEPT !.step = "build"]
  <1>1. i \in Publishers /\ now \in PubType /\ now.job = "none" /\ now.copy = 0
        /\ now.step = "build"
    BY IdleTyped DEF Publishers, Idle, Absent
  <1>2. pub' = [pub EXCEPT ![i] = now]
    BY DEF StartInline
  <1> HIDE DEF now
  <1>3. pub' \in [Publishers -> PubType] /\ pub'[i] = now /\ Others(i)
    BY <1>1, <1>2 DEF IInv, TypeOK, PubType, Others
  <1>4. JobsOK'
    BY <1>1, <1>3 DEF IInv, JobsOK, Others
  <1>5. pub'[i].step = "build"
    BY <1>1, <1>3
  <1>6. NothingForgotten'
    BY <1>1, <1>5 DEF NothingForgotten, Coming, ToPut
  <1> QED
    BY <1>1, <1>3, <1>4, <1>6 DEF Others

LEMMA InlineOK ==
    ASSUME IInv, NEW i \in Inline, PublishNow(i) \/ ChangeInline(i) \/ Restore(i)
    PROVE  IInv'
  <1>1. StartInline(i) /\ UNCHANGED <<removing, unsent, job, published, lost>>
    BY DEF PublishNow, ChangeInline, Restore
  <1>2. version' \in 1..MaxChanges /\ version' >= version
        /\ tenant' \in {"live", "deleted", "purged"}
    BY DEF PublishNow, ChangeInline, Restore, IInv, TypeOK
  <1>3. pub' \in [Publishers -> PubType] /\ JobsOK' /\ NothingForgotten'
        /\ \A p \in Publishers : pub'[p].copy = 0 \/ pub'[p] = pub[p]
    BY <1>1, StartFacts
  <1>4. TypeOK' /\ UnsentOK'
    BY <1>1, <1>2, <1>3 DEF IInv, TypeOK, PubType, UnsentOK
  <1>5. CopiesOK'
    BY <1>1, <1>2, <1>3 DEF IInv, CopiesOK, TypeOK, PubType
  <1> QED
    BY <1>3, <1>4, <1>5 DEF IInv

LEMMA BuildOK ==
    ASSUME IInv, NEW p \in Publishers, Build(p)
    PROVE  IInv'
  <1> DEFINE now == [pub[p] EXCEPT !.step = "manifest", !.copy = version]
  <1>1. now \in PubType /\ now.step = "manifest" /\ now.copy = version /\ now.job = pub[p].job
    <2>1. pub[p] \in PubType
      BY PubTypes DEF IInv
    <2>2. version \in 0..MaxChanges
      BY DEF IInv, TypeOK
    <2>3. now = [step |-> "manifest", copy |-> version, job |-> pub[p].job]
      <3> DEFINE mid == [pub[p] EXCEPT !.step = "manifest"]
      <3>1. mid = [step |-> "manifest", copy |-> pub[p].copy, job |-> pub[p].job]
        BY <2>1 DEF PubType
      <3>2. now = [mid EXCEPT !.copy = version]
        OBVIOUS
      <3> HIDE DEF mid, now
      <3> QED
        BY <3>1, <3>2
    <2>4. "manifest" \in {"idle", "build"} \cup Outputs
      BY DEF Outputs, Objects
    <2>5. pub[p].job \in Jobs \cup {"none"}
      BY <2>1 DEF PubType
    <2> HIDE DEF now
    <2> QED
      BY <2>2, <2>3, <2>4, <2>5 DEF PubType
  <1>2. pub' = [pub EXCEPT ![p] = now]
        /\ UNCHANGED <<version, tenant, removing, unsent, job, published, lost>>
    BY DEF Build, IInv, TypeOK
  <1> HIDE DEF now
  <1>3. pub' \in [Publishers -> PubType] /\ pub'[p] = now /\ Others(p)
    BY <1>1, <1>2 DEF IInv, TypeOK, PubType, Others
  <1>4. TypeOK' /\ UnsentOK'
    BY <1>2, <1>3 DEF IInv, TypeOK, PubType, UnsentOK
  <1>5. JobsOK'
    BY <1>1, <1>2, <1>3 DEF IInv, JobsOK, Others
  <1>6. CopiesOK'
    BY <1>1, <1>2, <1>3 DEF IInv, CopiesOK, Others, TypeOK
  <1>7. NothingForgotten'
    <2>1. pub'[p].step = "manifest" /\ pub'[p].copy = version'
      BY <1>1, <1>2, <1>3
    <2> QED
      BY <2>1 DEF NothingForgotten, Coming, ToPut
  <1> QED
    BY <1>4, <1>5, <1>6, <1>7 DEF IInv

(* Done, a publisher is idle and its job is nobody's.                      *)
LEMMA DoneFacts ==
    ASSUME IInv, NEW p \in Publishers, pub' = [pub EXCEPT ![p] = Idle],
           job' \in [Jobs -> JobType],
           \A j \in Jobs : j # pub[p].job => job'[j] = job[j]
    PROVE  /\ pub' \in [Publishers -> PubType]
           /\ pub'[p] = Idle /\ Others(p)
           /\ JobsOK'
  <1>1. pub' \in [Publishers -> PubType] /\ pub'[p] = Idle /\ Others(p)
    BY IdleTyped DEF IInv, TypeOK, PubType, Others
  <1>2. Idle.job = "none"
    BY DEF Idle
  <1>3. ASSUME NEW q \in Publishers, pub'[q].job \in Jobs
        PROVE  q # p /\ pub'[q] = pub[q] /\ pub[q].job # pub[p].job
    BY <1>1, <1>2, <1>3 DEF IInv, JobsOK, Others
  <1>4. \A q \in Publishers : pub'[q].job \in Jobs => job'[pub'[q].job].state = "active"
    BY <1>3 DEF IInv, JobsOK
  <1>5. \A q, r \in Publishers : q # r /\ pub'[q].job \in Jobs => pub'[r].job # pub'[q].job
    BY <1>1, <1>2, <1>3 DEF IInv, JobsOK, Others
  <1> QED
    BY <1>1, <1>4, <1>5 DEF JobsOK

(* Whatever a publish in progress puts: the last change, an older one over *)
(* an older one, or one that counts as lost.                               *)
LEMMA PutOK ==
    ASSUME IInv, NEW p \in Publishers, Put(p)
    PROVE  IInv'
  <1>1. PICK o \in Outputs : o = pub[p].step
    BY DEF Put
  <1> DEFINE c == pub[p].copy
  <1>2. UNCHANGED <<version, tenant, removing, unsent>>
        /\ published' = [published EXCEPT ![o] = c]
        /\ lost' = (lost \/ c < published[o])
    BY <1>1 DEF Put
  <1>3. c \in 0..MaxChanges /\ c <= version /\ version \in Nat
    BY PubTypes DEF IInv, PubType, CopiesOK, TypeOK
  <1>4. published' \in [Outputs -> 0..MaxChanges] /\ published'[o] = c
        /\ \A x \in Outputs : x # o => published'[x] = published[x]
    BY <1>2, <1>3 DEF IInv, TypeOK
  <1>5. /\ pub' \in [Publishers -> PubType] /\ Others(p) /\ pub'[p].copy <= version
        /\ job' \in [Jobs -> JobType] /\ JobsOK'
        /\ \A j \in Jobs : Waiting(j) => Waiting(j)'
    <2>1. CASE o = "etag"
      <3>1. pub' = [pub EXCEPT ![p] = Idle]
            /\ job' = [j \in Jobs |-> IF j = pub[p].job THEN NoJob ELSE job[j]]
        BY <1>1, <2>1 DEF Put, Done
      <3>2. job' \in [Jobs -> JobType] /\ \A j \in Jobs : j # pub[p].job => job'[j] = job[j]
        BY <3>1, NoJobTyped DEF IInv, TypeOK, JobType
      <3>3. pub' \in [Publishers -> PubType] /\ pub'[p] = Idle /\ Others(p) /\ JobsOK'
        BY <3>1, <3>2, DoneFacts
      <3>4. \A j \in Jobs : Waiting(j) => Waiting(j)'
        BY <3>2 DEF IInv, JobsOK, Waiting
      <3>5. pub'[p].copy <= version
        BY <1>3, <3>3 DEF Idle, Absent
      <3> QED
        BY <3>2, <3>3, <3>4, <3>5
    <2>2. CASE o # "etag"
      <3> DEFINE now == [pub[p] EXCEPT !.step = Following[o]]
      <3>1. Following[o] \in Outputs
        BY <2>2 DEF Following, Outputs, Objects
      <3>2. now \in PubType /\ now.job = pub[p].job /\ now.copy = c
        BY <3>1, PubTypes, MovedOn DEF IInv, TypeOK
      <3>3. pub' = [pub EXCEPT ![p] = now] /\ UNCHANGED job
        BY <1>1, <2>2 DEF Put, IInv, TypeOK
      <3> HIDE DEF now
      <3>4. pub' \in [Publishers -> PubType] /\ Others(p) /\ pub'[p] = now
        BY <3>2, <3>3 DEF IInv, TypeOK, PubType, Others
      <3>5. JobsOK'
        BY <3>2, <3>3, <3>4 DEF IInv, JobsOK, Others
      <3> QED
        BY <1>3, <3>2, <3>3, <3>4, <3>5 DEF IInv, TypeOK, JobType, Waiting
    <2> QED
      BY <2>1, <2>2
  <1>6. TypeOK' /\ UnsentOK'
    BY <1>2, <1>4, <1>5 DEF IInv, TypeOK, JobType, PubType, UnsentOK
  <1>7. CopiesOK'
    BY <1>2, <1>3, <1>4, <1>5 DEF IInv, CopiesOK, Others
  <1>8. NothingForgotten'
    <2> SUFFICES ASSUME tenant' = "live", ~lost', NEW x \in Outputs, published'[x] # version
                 PROVE  Coming(x)'
      BY <1>2 DEF NothingForgotten
    <2>1. c >= published[o]
      <3>1. ~(c < published[o])
        BY <1>2, Zenon
      <3>2. published[o] \in 0..MaxChanges
        BY DEF IInv, TypeOK
      <3> QED
        BY <1>3, <3>1, <3>2
    <2>2. published[x] # version
      <3>1. CASE x = o
        BY <1>3, <1>4, <2>1, <3>1 DEF IInv, CopiesOK, TypeOK
      <3>2. CASE x # o
        BY <1>4, <3>2
      <3> QED
        BY <3>1, <3>2
    <2>3. Coming(x)
      BY <1>2, <2>2 DEF IInv, NothingForgotten
    <2>4. ASSUME Brings(p, x) PROVE Brings(p, x)'
      <3>1. c = version /\ x \in ToPut(p)
        BY <1>1, <2>4 DEF Brings, Outputs, Objects
      <3>2. x # o
        BY <1>4, <3>1
      <3>3. \/ o = "manifest" /\ x \in {"importMap", "etag"}
            \/ o = "importMap" /\ x = "etag"
        BY <1>1, <3>1, <3>2 DEF ToPut, Outputs, Objects
      <3>4. pub'[p] = [pub[p] EXCEPT !.step = Following[o]]
        BY <1>1, <3>3 DEF Put, IInv, TypeOK
      <3>5. pub'[p].step = Following[o] /\ pub'[p].copy = c
        BY <3>4, PubTypes DEF IInv, PubType
      <3>6. \/ pub'[p].step = "importMap" /\ x \in {"importMap", "etag"}
            \/ pub'[p].step = "etag" /\ x = "etag"
        BY <3>3, <3>5 DEF Following
      <3>7. (x \in ToPut(p))'
        BY <3>6 DEF ToPut
      <3> QED
        BY <1>2, <3>1, <3>5, <3>7 DEF Brings
    <2> QED
      BY <1>2, <1>5, <2>3, <2>4, ComingStays
  <1> QED
    BY <1>5, <1>6, <1>7, <1>8 DEF IInv

LEMMA FailOK ==
    ASSUME IInv, NEW p \in Publishers, Fail(p)
    PROVE  IInv'
  <1>1. pub' = [pub EXCEPT ![p] = Idle] /\ UNCHANGED <<version, tenant, removing, unsent, published>>
    BY DEF Fail
  <1>2. /\ job' \in [Jobs -> JobType] /\ lost' \in BOOLEAN
        /\ \A j \in Jobs : j # pub[p].job => job'[j] = job[j]
        /\ lost' \/ \E j \in Jobs : Waiting(j)'
    <2>1. CASE pub[p].job \in Jobs /\ job[pub[p].job].left > 0
      <3> DEFINE j == pub[p].job
                 now == [state |-> "waiting", left |-> job[j].left - 1]
      <3>1. now \in JobType
        BY <2>1 DEF IInv, TypeOK, JobType
      <3>2. job' = [job EXCEPT ![j] = now] /\ lost' = lost
        BY <2>1 DEF Fail
      <3>3. now.state = "waiting"
        OBVIOUS
      <3>4. PICK k \in Jobs : k = j
        BY <2>1
      <3> HIDE DEF now, j
      <3>5. job'[k].state = "waiting"
        BY <3>2, <3>3, <3>4 DEF IInv, TypeOK
      <3> QED
        BY <3>1, <3>2, <3>4, <3>5 DEF IInv, TypeOK, JobType, Waiting, j
    <2>2. CASE pub[p].job \in Jobs /\ ~(job[pub[p].job].left > 0)
      <3> DEFINE j == pub[p].job
      <3>1. job' = [job EXCEPT ![j] = NoJob] /\ lost' = TRUE
        BY <2>2 DEF Fail
      <3> QED
        BY <2>2, <3>1, NoJobTyped DEF IInv, TypeOK, JobType
    <2>3. CASE pub[p].job \notin Jobs
      BY <2>3 DEF Fail, IInv, TypeOK, JobType
    <2> QED
      BY <2>1, <2>2, <2>3
  <1>3. pub' \in [Publishers -> PubType] /\ pub'[p] = Idle /\ Others(p) /\ JobsOK'
    BY <1>1, <1>2, DoneFacts
  <1>4. TypeOK' /\ UnsentOK'
    BY <1>1, <1>2, <1>3 DEF IInv, TypeOK, JobType, PubType, UnsentOK
  <1>5. CopiesOK'
    BY <1>1, <1>3 DEF IInv, CopiesOK, Others, Idle, Absent, TypeOK
  <1>6. NothingForgotten'
    BY <1>2 DEF NothingForgotten, Coming
  <1> QED
    BY <1>3, <1>4, <1>5, <1>6 DEF IInv

--------------------------------------------------------------------------------
(* Deletion: a copy that a live workspace loses counts as lost.            *)
LEMMA DeletionOK ==
    ASSUME IInv, SoftDelete \/ Purge \/ RemovalFails \/ \E o \in Objects : Remove(o)
    PROVE  IInv'
  <1>1. UNCHANGED <<version, unsent, job, pub>>
    BY DEF SoftDelete, Purge, RemovalFails, Remove
  <1>2. \/ published' = published
        \/ \E o \in Outputs : published' = [published EXCEPT ![o] = Absent]
    BY DEF SoftDelete, Purge, RemovalFails, Remove, Outputs
  <1>3. published' \in [Outputs -> 0..MaxChanges]
    BY <1>2 DEF IInv, TypeOK, Absent
  <1>4. removing' \subseteq Objects /\ lost' \in BOOLEAN
        /\ tenant' \in {"live", "deleted", "purged"}
    BY DEF SoftDelete, Purge, RemovalFails, Remove, IInv, TypeOK
  <1>5. TypeOK' /\ UnsentOK'
    BY <1>1, <1>3, <1>4 DEF IInv, TypeOK, UnsentOK
  <1>6. CopiesOK'
    BY <1>1, <1>2 DEF IInv, TypeOK, CopiesOK, Absent
  <1>7. JobsOK'
    BY <1>1, SameJobs DEF IInv
  <1>8. NothingForgotten'
    <2>1. CASE tenant' = "live" /\ ~lost'
      <3>1. RemovalFails
        BY <2>1 DEF SoftDelete, Purge, RemovalFails, Remove
      <3>2. UNCHANGED <<tenant, lost, published>>
        BY <3>1 DEF RemovalFails
      <3>3. \A o \in Outputs : Coming(o) => Coming(o)'
        BY <1>1, PublishersStay DEF Waiting
      <3> QED
        BY <1>1, <3>2, <3>3, Keeps
    <2>2. CASE ~(tenant' = "live" /\ ~lost')
      BY <2>2 DEF NothingForgotten
    <2> QED
      BY <2>1, <2>2
  <1> QED
    BY <1>5, <1>6, <1>7, <1>8 DEF IInv

--------------------------------------------------------------------------------
LEMMA StutterOK == IInv /\ UNCHANGED vars => IInv'
  <1> SUFFICES ASSUME IInv, UNCHANGED vars PROVE IInv'
    OBVIOUS
  <1> USE DEF vars
  <1>1. TypeOK' /\ UnsentOK' /\ CopiesOK' /\ JobsOK'
    BY SameJobs DEF IInv, TypeOK, UnsentOK, CopiesOK
  <1>2. \A o \in Outputs : Coming(o) => Coming(o)'
    BY PublishersStay DEF Waiting
  <1> QED
    BY <1>1, <1>2, Keeps DEF IInv

LEMMA NextOK == IInv /\ [Next]_vars => IInv'
  <1> SUFFICES ASSUME IInv, [Next]_vars PROVE IInv'
    OBVIOUS
  <1>1. CASE Change \/ SiblingChange \/ Send \/ SendFails
    BY <1>1, ChangeOK, SiblingChangeOK, SendOK, SendFailsOK
  <1>2. ASSUME NEW j \in Jobs, TakeForNothing(j) \/ \E w \in Workers : Take(w, j) PROVE IInv'
    BY <1>2, TakeForNothingOK, TakeOK
  <1>3. ASSUME NEW i \in Inline, PublishNow(i) \/ ChangeInline(i) \/ Restore(i) PROVE IInv'
    BY <1>3, InlineOK
  <1>4. ASSUME NEW p \in Publishers, PublisherStep(p) \/ Fail(p) PROVE IInv'
    BY <1>4, BuildOK, PutOK, FailOK DEF PublisherStep
  <1>5. CASE SoftDelete \/ Purge \/ RemovalFails \/ \E o \in Objects : Remove(o)
    BY <1>5, DeletionOK
  <1>6. CASE UNCHANGED vars
    BY <1>6, StutterOK
  <1> QED
    BY <1>1, <1>2, <1>3, <1>4, <1>5, <1>6 DEF Next

LEMMA Invariance == Spec => []IInv
  BY InitOK, NextOK, PTL DEF Spec

(* Every variable has its type.                                            *)
THEOREM TypeCorrect == Spec => []TypeOK
  <1>1. IInv => TypeOK
    BY DEF IInv
  <1> QED
    BY <1>1, Invariance, PTL

(* However many publishes overlap and fail, and whatever is deleted and    *)
(* restored, a change that is not out yet will be, unless its publish was  *)
(* lost in one of the ways counted.                                        *)
THEOREM NoChangeIsForgotten == Spec => []NothingForgotten
  <1>1. IInv => NothingForgotten
    BY DEF IInv
  <1> QED
    BY <1>1, Invariance, PTL
================================================================================
