--------------------------- MODULE AuditStreamProofs ---------------------------
(***************************************************************************)
(* Proofs about AuditStream, for any number of events, overlapping runs,   *)
(* crashes and updates of the sink.                                        *)
(***************************************************************************)
EXTENDS AuditStream, TLAPS

USE MaxEventsAssumption, BatchAssumption, MaxFailuresAssumption

(* What may be behind a cursor at c.                                       *)
Passed(c) == \A e \in committed \ late : e <= c => Accounted(e)

(* The range a batch says it covers.                                       *)
Ranged(batch) ==
    /\ batch.first \in Events
    /\ batch.last \in Events
    /\ batch.first <= batch.last

(* A run at its delivery: the batch lacks nothing between the cursor that  *)
(* was read and its last event, and what is accepted is with the sink.     *)
Batched(r) ==
    LET b == run[r].batch
    IN /\ Ranged(b)
       /\ b.events \subseteq Between(b.first, b.last)
       /\ run[r].cursor < b.first
       /\ \A e \in committed \ late : run[r].cursor < e /\ e <= b.last => e \in b.events
       /\ run[r].step = "accepted" => b.events \subseteq Got \cup overwritten

RunOK(r) ==
    /\ run[r].step \in {"idle", "load"} => run[r] = [Idle EXCEPT !.step = run[r].step]
    /\ run[r].step = "fetch" => run[r].batch = NoBatch
    /\ run[r].step \in {"fetch", "deliver", "accepted", "refused"} => Passed(run[r].cursor)
    /\ run[r].step \in {"deliver", "accepted", "refused"} => Batched(r)

LettersOK ==
    /\ \A l \in letters : Ranged(l) /\ l.events \subseteq Between(l.first, l.last)
    /\ resend = NotResending \/ /\ Ranged(resend.batch)
                                /\ resend.letter.events \subseteq resend.batch.events

IInv ==
    /\ TypeOK
    /\ Passed(cursor)
    /\ \A r \in Runs : RunOK(r)
    /\ LettersOK

--------------------------------------------------------------------------------
(* Types.                                                                  *)
LEMMA IdleTyped ==
    ASSUME NEW s \in {"idle", "load"}
    PROVE  [Idle EXCEPT !.step = s] \in
              [step : {"idle", "load", "fetch", "deliver", "accepted", "refused"},
               cursor : 0..MaxEvents, failures : 0..(MaxFailures - 1), batch : Batches]
  BY DEF Idle, Batches, NoBatch, Events

LEMMA CommittedAreEvents == TypeOK => committed \subseteq Events
  BY DEF TypeOK, Events

LEMMA TypeOKInit == Init => TypeOK
  <1> SUFFICES ASSUME Init PROVE TypeOK
    OBVIOUS
  <1>1. Idle = [Idle EXCEPT !.step = "idle"]
    BY DEF Idle
  <1>2. run \in [Runs -> [step : {"idle", "load", "fetch", "deliver", "accepted", "refused"},
                          cursor : 0..MaxEvents, failures : 0..(MaxFailures - 1),
                          batch : Batches]]
    BY <1>1, IdleTyped DEF Init
  <1>3. resend \in [letter : Batches, batch : Batches]
    BY DEF Init, NotResending, NoBatch, Batches, Events
  <1> QED
    BY <1>2, <1>3 DEF Init, TypeOK, Events

(* A batch the sink takes is with it, or written over; so is what was.     *)
LEMMA AcceptFacts ==
    ASSUME TypeOK, NEW b \in Batches, b.first \in Events, Accept(b)
    PROVE  /\ received' \in [Events -> SUBSET Events]
           /\ overwritten' \subseteq Events
           /\ Got \cup overwritten \subseteq Got' \cup overwritten'
           /\ b.events \subseteq Got' \cup overwritten'
  <1> DEFINE before == received[b.first]
             stored == IF kind = "s3" THEN b.events ELSE before \cup b.events
  <1> USE DEF TypeOK
  <1>1. before \subseteq Events /\ b.events \subseteq Events
    BY DEF Batches
  <1>2. stored \subseteq Events /\ b.events \subseteq stored
    BY <1>1
  <1>3. received' = [received EXCEPT ![b.first] = stored]
    BY DEF Accept
  <1>4. overwritten' = (overwritten \cup (before \ stored)) \ stored
    BY DEF Accept
  <1> HIDE DEF stored, before
  <1>5. received' \in [Events -> SUBSET Events]
    BY <1>2, <1>3
  <1>6. overwritten' \subseteq Events
    BY <1>1, <1>4 DEF before
  <1>7. received'[b.first] = stored /\ \A e \in Events : e # b.first => received'[e] = received[e]
    BY <1>3
  <1>8. stored \subseteq Got'
    BY <1>7 DEF Got
  <1>9. \A x \in Got : x \in Got' \/ x \in before \ stored
    <2> SUFFICES ASSUME NEW x \in Got, x \notin Got'
                 PROVE  x \in before \ stored
      OBVIOUS
    <2>1. PICK e \in Events : x \in received[e]
      BY DEF Got
    <2>2. e = b.first
      BY <1>7, <2>1 DEF Got
    <2> QED
      BY <1>8, <2>1, <2>2 DEF before
  <1> QED
    BY <1>2, <1>4, <1>5, <1>6, <1>8, <1>9

--------------------------------------------------------------------------------
(* What was delivered or set aside remains so.                             *)

Kept == \A e \in Events : Accounted(e) => Accounted(e)'

LEMMA PassedStays ==
    ASSUME TypeOK, Kept, UNCHANGED <<committed, late>>, NEW c, Passed(c)
    PROVE  Passed(c)'
  BY CommittedAreEvents DEF Passed, Kept

(* An accepted batch leaves everything else as it was.                     *)
LEMMA AcceptKeeps ==
    ASSUME TypeOK, NEW b \in Batches, b.first \in Events, Accept(b), UNCHANGED letters
    PROVE  Kept
  BY AcceptFacts DEF Kept, Accounted

LEMMA SameKeeps ==
    ASSUME UNCHANGED <<received, overwritten, letters>>
    PROVE  Kept /\ Got' = Got
  BY DEF Kept, Accounted, Got

(* The batch of a run is what there is to deliver.                         *)
LEMMA LastIsPassed ==
    ASSUME TypeOK, NEW r \in Runs, RunOK(r),
           run[r].step \in {"deliver", "accepted", "refused"},
           \A e \in run[r].batch.events : Accounted(e)'
    PROVE  \A e \in committed \ late :
              e <= run[r].batch.last => Accounted(e) \/ Accounted(e)'
  <1> SUFFICES ASSUME NEW e \in committed \ late, e <= run[r].batch.last,
                      ~Accounted(e)
               PROVE  Accounted(e)'
    OBVIOUS
  <1>1. ~(e <= run[r].cursor)
    BY DEF RunOK, Passed
  <1>2. run[r].cursor < e
    <2>1. run[r].cursor \in 0..MaxEvents
      BY DEF TypeOK
    <2>2. e \in 1..MaxEvents
      BY CommittedAreEvents DEF Events
    <2> QED
      BY <1>1, <2>1, <2>2
  <1> QED
    BY <1>2 DEF RunOK, Batched

(* What a run holds is untouched by a step that keeps what there is.       *)
LEMMA RunStays ==
    ASSUME TypeOK, Kept, UNCHANGED <<committed, late>>, NEW r \in Runs, RunOK(r),
           run'[r] = run[r], Got \cup overwritten \subseteq Got' \cup overwritten'
    PROVE  RunOK(r)'
  <1>1. run[r].step \in {"fetch", "deliver", "accepted", "refused"} => Passed(run[r].cursor)'
    BY PassedStays DEF RunOK
  <1>2. ASSUME run[r].step \in {"deliver", "accepted", "refused"}
        PROVE  Batched(r)'
    BY <1>2 DEF RunOK, Batched, Between, Ranged
  <1> QED
    BY <1>1, <1>2 DEF RunOK

LEMMA IdleRunOK ==
    ASSUME NEW r \in Runs, NEW s \in {"idle", "load"}, run'[r] = [Idle EXCEPT !.step = s]
    PROVE  RunOK(r)'
  BY DEF RunOK, Idle

LEMMA LettersStay ==
    ASSUME LettersOK, committed \subseteq committed', UNCHANGED <<letters, resend>>
    PROVE  LettersOK'
  BY DEF LettersOK, Between, Ranged

--------------------------------------------------------------------------------
(* The runs' types, one run at a time.                                     *)
RunTypes == [step : {"idle", "load", "fetch", "deliver", "accepted", "refused"},
             cursor : 0..MaxEvents, failures : 0..(MaxFailures - 1), batch : Batches]

LEMMA InitOK == Init => IInv
  <1> SUFFICES ASSUME Init PROVE IInv
    OBVIOUS
  <1>1. Passed(cursor)
    BY DEF Init, Passed
  <1>2. \A r \in Runs : RunOK(r)
    BY DEF Init, RunOK, Idle
  <1>3. LettersOK
    BY DEF Init, LettersOK
  <1> QED
    BY <1>1, <1>2, <1>3, TypeOKInit DEF IInv

LEMMA BeginEventOK == IInv /\ BeginEvent => IInv'
  <1> SUFFICES ASSUME IInv, BeginEvent PROVE IInv'
    OBVIOUS
  <1> USE DEF BeginEvent, sinkVars
  <1>1. TypeOK'
    BY DEF IInv, TypeOK
  <1>2. Kept /\ Got' = Got
    BY SameKeeps
  <1>3. Passed(cursor)'
    BY <1>2, PassedStays DEF IInv
  <1>4. \A r \in Runs : RunOK(r)'
    BY <1>2, RunStays DEF IInv
  <1>5. LettersOK'
    BY LettersStay DEF IInv
  <1> QED
    BY <1>1, <1>3, <1>4, <1>5 DEF IInv

(* An event that becomes readable behind a cursor is late.                 *)
LEMMA CommitEventOK ==
    ASSUME IInv, NEW e \in Events, CommitEvent(e)
    PROVE  IInv'
  <1> USE DEF CommitEvent, sinkVars
  <1>1. TypeOK'
    BY DEF IInv, TypeOK, Events
  <1>2. Kept /\ Got' = Got
    BY SameKeeps
  <1>3. committed' \ late' \subseteq (committed \ late) \cup {e}
    OBVIOUS
  <1>4. Passed(cursor)'
    BY <1>2, <1>3, CommittedAreEvents DEF IInv, Passed, Kept
  <1>5. ASSUME NEW r \in Runs PROVE RunOK(r)'
    <2>1. CASE run[r].step \in {"idle", "load"}
      BY <2>1 DEF IInv, RunOK
    <2>2. CASE run[r].step = "fetch"
      <3>1. e <= run[r].cursor => e \notin committed' \ late'
        BY <2>2 DEF IInv, RunOK, Reach
      <3>2. Passed(run[r].cursor)'
        BY <1>2, <1>3, <2>2, <3>1, CommittedAreEvents DEF IInv, RunOK, Passed, Kept
      <3> QED
        BY <2>2, <3>2 DEF IInv, RunOK
    <2>3. CASE run[r].step \in {"deliver", "accepted", "refused"}
      <3>1. Batched(r) /\ Passed(run[r].cursor)
        BY <2>3 DEF IInv, RunOK
      <3>2. run[r].cursor \in Nat /\ run[r].batch.first \in Nat /\ run[r].batch.last \in Nat
            /\ run[r].batch # NoBatch
        BY <3>1 DEF IInv, TypeOK, Batched, Ranged, NoBatch, Events
      <3>3. run[r].cursor < run[r].batch.last
        BY <3>1, <3>2 DEF Batched, Ranged
      <3>4. e <= run[r].batch.last => e \notin committed' \ late'
        BY <2>3, <3>2 DEF Reach
      <3>5. e <= run[r].cursor => e \notin committed' \ late'
        BY <3>2, <3>3, <3>4 DEF Events
      <3>6. Passed(run[r].cursor)'
        BY <1>2, <1>3, <3>1, <3>5, CommittedAreEvents DEF IInv, Passed, Kept
      <3>7. Batched(r)'
        BY <1>2, <1>3, <3>1, <3>4 DEF Batched, Between
      <3> QED
        BY <2>3, <3>6, <3>7 DEF RunOK
    <2> QED
      BY <2>1, <2>2, <2>3 DEF IInv, TypeOK
  <1>6. LettersOK'
    BY LettersStay DEF IInv
  <1> QED
    BY <1>1, <1>4, <1>5, <1>6 DEF IInv

LEMMA PatchOK ==
    ASSUME IInv, NEW on \in BOOLEAN, Patch(on)
    PROVE  IInv'
  <1> USE DEF Patch
  <1>1. TypeOK'
    BY DEF IInv, TypeOK
  <1>2. Kept /\ Got' = Got
    BY SameKeeps
  <1>3. Passed(cursor)'
    BY <1>2, PassedStays DEF IInv
  <1>4. \A r \in Runs : RunOK(r)'
    BY <1>2, RunStays DEF IInv
  <1>5. LettersOK'
    BY LettersStay DEF IInv
  <1> QED
    BY <1>1, <1>3, <1>4, <1>5 DEF IInv

--------------------------------------------------------------------------------
(* The steps of a run.                                                     *)

(* A step of a run that only changes what that run holds.                  *)
LEMMA OwnStep ==
    ASSUME IInv, NEW r \in Runs, NEW now, run' = [run EXCEPT ![r] = now], RunOK(r)',
           now \in RunTypes,
           UNCHANGED <<sinkVars, begun, committed, late, letters, resend, received, overwritten>>
    PROVE  IInv'
  <1> USE DEF sinkVars
  <1>1. TypeOK'
    BY DEF IInv, TypeOK, RunTypes
  <1>2. Kept /\ Got' = Got
    BY SameKeeps
  <1>3. Passed(cursor)'
    BY <1>2, PassedStays DEF IInv
  <1>4. ASSUME NEW q \in Runs, q # r PROVE RunOK(q)'
    <2>1. run'[q] = run[q]
      BY <1>4 DEF IInv, TypeOK
    <2> QED
      BY <1>2, <2>1, RunStays DEF IInv
  <1>5. LettersOK'
    BY LettersStay DEF IInv
  <1> QED
    BY <1>1, <1>3, <1>4, <1>5 DEF IInv

LEMMA StartOK ==
    ASSUME IInv, NEW r \in Runs, Start(r)
    PROVE  IInv'
  <1> DEFINE now == [Idle EXCEPT !.step = "load"]
  <1>1. now \in RunTypes
    BY IdleTyped DEF RunTypes
  <1>2. run' = [run EXCEPT ![r] = now]
    BY DEF Start
  <1>3. run'[r] = now
    BY <1>2 DEF IInv, TypeOK
  <1>4. RunOK(r)'
    BY <1>3, IdleRunOK
  <1> HIDE DEF now
  <1> QED
    BY <1>1, <1>2, <1>4, OwnStep DEF Start

LEMMA LoadOK ==
    ASSUME IInv, NEW r \in Runs, Load(r)
    PROVE  IInv'
  <1> DEFINE loaded == [step |-> "fetch", cursor |-> cursor, failures |-> failures,
                        batch |-> NoBatch]
             now == IF enabled THEN loaded ELSE Idle
  <1>1. Idle = [Idle EXCEPT !.step = "idle"]
    BY DEF Idle
  <1>2. now \in RunTypes
    <2>1. Idle \in RunTypes
      BY <1>1, IdleTyped DEF RunTypes
    <2>2. loaded \in RunTypes
      BY DEF RunTypes, IInv, TypeOK, Batches, NoBatch, Events
    <2> QED
      BY <2>1, <2>2
  <1>3. run' = [run EXCEPT ![r] = now]
    BY DEF Load
  <1>4. run'[r] = now
    BY <1>3 DEF IInv, TypeOK
  <1>5. RunOK(r)'
    <2>1. CASE ~enabled
      BY <1>1, <1>4, <2>1, IdleRunOK
    <2>2. CASE enabled
      <3>1. run'[r].step = "fetch" /\ run'[r].cursor = cursor /\ run'[r].batch = NoBatch
        BY <1>4, <2>2
      <3>2. Kept /\ UNCHANGED <<committed, late, cursor>>
        BY SameKeeps DEF Load, sinkVars
      <3>3. Passed(run[r].cursor)'
        BY <3>1, <3>2, CommittedAreEvents DEF IInv, Passed, Kept
      <3> QED
        BY <3>1, <3>3 DEF RunOK
    <2> QED
      BY <2>1, <2>2
  <1> HIDE DEF now
  <1> QED
    BY <1>2, <1>3, <1>5, OwnStep DEF Load

LEMMA FetchOK ==
    ASSUME IInv, NEW r \in Runs, Fetch(r)
    PROVE  IInv'
  <1>1. CASE After(run[r].cursor) = {}
    <2>1. run' = [run EXCEPT ![r] = Idle]
      BY <1>1 DEF Fetch
    <2>2. Idle = [Idle EXCEPT !.step = "idle"] /\ run'[r] = Idle
      BY <2>1 DEF Idle, IInv, TypeOK
    <2>3. RunOK(r)' /\ Idle \in RunTypes
      BY <2>2, IdleRunOK, IdleTyped DEF RunTypes
    <2> QED
      BY <2>1, <2>3, OwnStep DEF Fetch
  <1>2. CASE After(run[r].cursor) # {}
    <2>1. PICK first, last \in After(run[r].cursor) :
            /\ \A e \in After(run[r].cursor) : first <= e
            /\ run' = [run EXCEPT ![r].step = "deliver",
                         ![r].batch = [first |-> first, last |-> last,
                                       events |-> Between(first, last)]]
      BY <1>2 DEF Fetch
    <2> DEFINE batch == [first |-> first, last |-> last, events |-> Between(first, last)]
               now == [run[r] EXCEPT !.step = "deliver", !.batch = batch]
    <2>2. run' = [run EXCEPT ![r] = now]
      BY <2>1 DEF IInv, TypeOK
    <2>3. first \in Events /\ last \in Events /\ first <= last /\ Between(first, last) \subseteq Events
      BY <2>1, CommittedAreEvents DEF After, Between, IInv
    <2>4. batch \in Batches
      BY <2>3 DEF Batches, Events
    <2>5. now \in RunTypes
      BY <2>4 DEF RunTypes, IInv, TypeOK
    <2>6. run'[r] = now
      BY <2>2 DEF IInv, TypeOK
    <2>7. run'[r].step = "deliver" /\ run'[r].cursor = run[r].cursor /\ run'[r].batch = batch
      BY <2>6 DEF IInv, TypeOK
    <2>8. Kept /\ UNCHANGED <<committed, late>>
      BY SameKeeps DEF Fetch
    <2>9. Passed(run[r].cursor)'
      BY <2>7, <2>8, CommittedAreEvents DEF IInv, RunOK, Passed, Kept, Fetch
    <2>10. Batched(r)'
      <3>1. run[r].cursor < first
        BY <2>1 DEF After
      <3>2. \A e \in committed : run[r].cursor < e => first <= e
        BY <2>1, CommittedAreEvents DEF After, IInv, TypeOK, Events
      <3> QED
        BY <2>3, <2>7, <2>8, <3>1, <3>2 DEF Batched, Ranged, Between
    <2>11. RunOK(r)'
      BY <2>7, <2>9, <2>10 DEF RunOK
    <2> HIDE DEF now
    <2> QED
      BY <2>2, <2>5, <2>11, OwnStep DEF Fetch
  <1> QED
    BY <1>1, <1>2

(* Other runs, the letters and the cursor, when a batch is delivered.      *)
LEMMA DeliverOK ==
    ASSUME IInv, NEW r \in Runs, Deliver(r)
    PROVE  IInv'
  <1>1. RunOK(r) /\ TypeOK /\ run[r].step = "deliver" /\ run[r].batch \in Batches
    BY DEF Deliver, IInv, TypeOK
  <1>2. Batched(r) /\ run[r].batch.first \in Events
    BY <1>1 DEF RunOK, Batched, Ranged
  <1>3. CASE Accept(run[r].batch) /\ run' = [run EXCEPT ![r].step = "accepted"]
    <2> DEFINE b == run[r].batch
    <2>1. UNCHANGED <<kind, cursor, failures, enabled, patches, crashes, begun, committed, late,
                      letters, resend>>
      BY DEF Deliver, sinkVars
    <2>2. /\ received' \in [Events -> SUBSET Events]
          /\ overwritten' \subseteq Events
          /\ Got \cup overwritten \subseteq Got' \cup overwritten'
          /\ b.events \subseteq Got' \cup overwritten'
      BY <1>1, <1>2, <1>3, AcceptFacts
    <2>3. Kept
      BY <1>1, <1>2, <1>3, <2>1, AcceptKeeps
    <2>4. TypeOK'
      BY <1>1, <1>3, <2>1, <2>2 DEF TypeOK
    <2>5. Passed(cursor)'
      BY <2>1, <2>3, PassedStays DEF IInv
    <2>6. ASSUME NEW q \in Runs, q # r PROVE RunOK(q)'
      <3>1. run'[q] = run[q]
        BY <1>1, <1>3, <2>6 DEF TypeOK
      <3> QED
        BY <2>1, <2>2, <2>3, <3>1, RunStays DEF IInv
    <2>7. RunOK(r)'
      <3>1. run'[r].step = "accepted" /\ run'[r].batch = b /\ run'[r].cursor = run[r].cursor
        BY <1>1, <1>3 DEF TypeOK
      <3>2. Passed(run[r].cursor)'
        BY <1>1, <2>1, <2>3, <3>1, CommittedAreEvents DEF RunOK, Passed, Kept
      <3>3. Batched(r)'
        BY <1>2, <2>1, <2>2, <3>1 DEF Batched, Between, Ranged
      <3> QED
        BY <3>1, <3>2, <3>3 DEF RunOK
    <2>8. LettersOK'
      BY <2>1, LettersStay DEF IInv
    <2> QED
      BY <2>4, <2>5, <2>6, <2>7, <2>8 DEF IInv
  <1>4. CASE run' = [run EXCEPT ![r].step = "refused"] /\ UNCHANGED <<received, overwritten>>
    <2> DEFINE now == [run[r] EXCEPT !.step = "refused"]
    <2>1. run' = [run EXCEPT ![r] = now] /\ now \in RunTypes
      BY <1>1, <1>4 DEF TypeOK, RunTypes
    <2>2. run'[r].step = "refused" /\ run'[r].batch = run[r].batch
          /\ run'[r].cursor = run[r].cursor
      BY <1>1, <1>4 DEF TypeOK
    <2>3. Kept /\ UNCHANGED <<committed, late>>
      BY <1>4, SameKeeps DEF Deliver
    <2>4. Passed(run[r].cursor)'
      BY <1>1, <2>2, <2>3, CommittedAreEvents DEF RunOK, Passed, Kept
    <2>5. Batched(r)'
      BY <1>2, <2>2, <2>3 DEF Batched, Between, Ranged
    <2>6. RunOK(r)'
      BY <2>2, <2>4, <2>5 DEF RunOK
    <2> HIDE DEF now
    <2> QED
      BY <1>4, <2>1, <2>6, OwnStep DEF Deliver
  <1> QED
    BY <1>3, <1>4 DEF Deliver

(* A step with which a run ends (or begins again), leaving a cursor behind *)
(* which nothing is missing.                                               *)
LEMMA RunEnds ==
    ASSUME IInv, NEW r \in Runs, NEW s \in {"idle", "load"},
           run' = [run EXCEPT ![r] = [Idle EXCEPT !.step = s]],
           UNCHANGED <<kind, begun, committed, late, resend, received, overwritten, patches, enabled>>,
           failures' \in 0..(MaxFailures - 1), cursor' \in 0..MaxEvents, crashes' \in Nat,
           Kept, Passed(cursor)', letters' \subseteq Batches,
           \A l \in letters' : Ranged(l) /\ l.events \subseteq Between(l.first, l.last)
    PROVE  IInv'
  <1>1. TypeOK'
    BY IdleTyped DEF IInv, TypeOK
  <1>2. ASSUME NEW q \in Runs PROVE RunOK(q)'
    <2>1. CASE q = r
      BY <2>1, IdleRunOK DEF IInv, TypeOK
    <2>2. CASE q # r
      <3>1. run'[q] = run[q] /\ Got' = Got
        BY <2>2 DEF IInv, TypeOK, Got
      <3> QED
        BY <3>1, RunStays DEF IInv
    <2> QED
      BY <2>1, <2>2
  <1>3. LettersOK'
    BY DEF IInv, LettersOK, Between, Ranged
  <1> QED
    BY <1>1, <1>2, <1>3 DEF IInv

LEMMA MoveOnOK ==
    ASSUME IInv, NEW r \in Runs, MoveOn(r)
    PROVE  IInv'
  <1> USE DEF MoveOn
  <1>1. RunOK(r) /\ TypeOK
    BY DEF IInv
  <1>2. Batched(r)
    BY <1>1 DEF RunOK
  <1>3. Kept /\ Got' = Got
    BY SameKeeps
  <1>4. \A e \in run[r].batch.events : Accounted(e)'
    BY <1>2, <1>3 DEF Batched, Accounted
  <1>5. Passed(cursor)'
    BY <1>1, <1>3, <1>4, LastIsPassed, CommittedAreEvents DEF Passed, Kept
  <1>6. cursor' \in 0..MaxEvents
    BY <1>2 DEF Batched, Ranged, Events
  <1>7. PICK s \in {"load", "idle"} : run' = [run EXCEPT ![r] = [Idle EXCEPT !.step = s]]
    OBVIOUS
  <1>8. /\ failures' \in 0..(MaxFailures - 1) /\ crashes' \in Nat /\ letters' \subseteq Batches
        /\ \A l \in letters' : Ranged(l) /\ l.events \subseteq Between(l.first, l.last)
    BY DEF IInv, TypeOK, LettersOK
  <1>9. UNCHANGED <<kind, begun, committed, late, resend, received, overwritten, patches, enabled>>
    OBVIOUS
  <1> HIDE DEF MoveOn
  <1> QED
    BY <1>3, <1>5, <1>6, <1>7, <1>8, <1>9, RunEnds

LEMMA CountFailureOK ==
    ASSUME IInv, NEW r \in Runs, CountFailure(r)
    PROVE  IInv'
  <1> USE DEF CountFailure, Failed
  <1>1. Kept
    BY SameKeeps
  <1>2. Passed(cursor)'
    BY <1>1, PassedStays DEF IInv
  <1>3. failures' \in 0..(MaxFailures - 1)
    BY DEF IInv, TypeOK
  <1>4. Idle = [Idle EXCEPT !.step = "idle"]
    BY DEF Idle
  <1> QED
    BY <1>1, <1>2, <1>3, <1>4, RunEnds DEF IInv, TypeOK, LettersOK

LEMMA DeadLetterOK ==
    ASSUME IInv, NEW r \in Runs, DeadLetter(r)
    PROVE  IInv'
  <1> USE DEF DeadLetter, Failed
  <1>1. RunOK(r) /\ TypeOK /\ run[r].batch \in Batches
    BY DEF IInv, TypeOK
  <1>2. Batched(r)
    BY <1>1 DEF RunOK
  <1>3. Kept
    BY DEF Kept, Accounted, Got
  <1>4. \A e \in run[r].batch.events : Accounted(e)'
    BY DEF Accounted
  <1>5. Passed(cursor)'
    BY <1>1, <1>3, <1>4, LastIsPassed, CommittedAreEvents DEF Passed, Kept
  <1>6. cursor' \in 0..MaxEvents /\ failures' \in 0..(MaxFailures - 1)
    BY <1>2 DEF Batched, Ranged, Events
  <1>7. \A l \in letters' : Ranged(l) /\ l.events \subseteq Between(l.first, l.last)
    BY <1>2 DEF Batched, IInv, LettersOK
  <1>8. Idle = [Idle EXCEPT !.step = "idle"]
    BY DEF Idle
  <1> QED
    BY <1>1, <1>3, <1>5, <1>6, <1>7, <1>8, RunEnds DEF TypeOK

LEMMA CrashOK ==
    ASSUME IInv, NEW r \in Runs, Crash(r)
    PROVE  IInv'
  <1> USE DEF Crash
  <1>1. Kept
    BY SameKeeps
  <1>2. Passed(cursor)'
    BY <1>1, PassedStays DEF IInv
  <1>3. Idle = [Idle EXCEPT !.step = "idle"]
    BY DEF Idle
  <1>4. crashes' \in Nat
    BY DEF IInv, TypeOK
  <1> QED
    BY <1>1, <1>2, <1>3, <1>4, RunEnds DEF IInv, TypeOK, LettersOK

--------------------------------------------------------------------------------
(* Letters: what is sent again is no less than the letter holds.           *)
LEMMA ReadLetterOK == IInv /\ ReadLetter => IInv'
  <1> SUFFICES ASSUME IInv, ReadLetter PROVE IInv'
    OBVIOUS
  <1>1. PICK l \in letters :
          resend' = [letter |-> l, batch |-> [l EXCEPT !.events = Between(l.first, l.last)]]
    BY DEF ReadLetter
  <1> DEFINE b == [l EXCEPT !.events = Between(l.first, l.last)]
  <1>2. l \in Batches /\ Ranged(l) /\ l.events \subseteq Between(l.first, l.last)
    BY DEF IInv, TypeOK, LettersOK
  <1>3. b \in Batches /\ b.first = l.first /\ b.last = l.last
        /\ b.events = Between(l.first, l.last)
    BY <1>2, CommittedAreEvents DEF Batches, Between, IInv
  <1>4. TypeOK'
    BY <1>1, <1>2, <1>3 DEF IInv, TypeOK, ReadLetter, sinkVars
  <1>5. Kept /\ Got' = Got
    BY SameKeeps DEF ReadLetter
  <1>6. Passed(cursor)'
    BY <1>5, PassedStays DEF IInv, ReadLetter, sinkVars
  <1>7. \A r \in Runs : RunOK(r)'
    BY <1>5, RunStays DEF IInv, ReadLetter
  <1>8. resend'.letter = l /\ resend'.batch = b
    BY <1>1
  <1>9. LettersOK'
    BY <1>2, <1>3, <1>8 DEF IInv, LettersOK, ReadLetter, Ranged, Between
  <1> QED
    BY <1>4, <1>6, <1>7, <1>9 DEF IInv

LEMMA ResendOK == IInv /\ Resend => IInv'
  <1> SUFFICES ASSUME IInv, Resend PROVE IInv'
    OBVIOUS
  <1>1. UNCHANGED <<kind, cursor, failures, enabled, patches, crashes, begun, committed, late, run>>
        /\ resend' = NotResending
    BY DEF Resend, sinkVars
  <1>2. /\ TypeOK /\ resend.batch \in Batches /\ resend.batch.first \in Events
        /\ resend.letter.events \subseteq resend.batch.events
    BY DEF Resend, IInv, TypeOK, LettersOK, Ranged
  <1>3. /\ Kept
        /\ Got \cup overwritten \subseteq Got' \cup overwritten'
        /\ received' \in [Events -> SUBSET Events] /\ overwritten' \subseteq Events
        /\ letters' \subseteq letters
    <2>1. CASE Accept(resend.batch) /\ letters' \in {letters, letters \ {resend.letter}}
      <3>1. /\ Got \cup overwritten \subseteq Got' \cup overwritten'
            /\ resend.batch.events \subseteq Got' \cup overwritten'
            /\ received' \in [Events -> SUBSET Events] /\ overwritten' \subseteq Events
        BY <1>2, <2>1, AcceptFacts
      <3>2. Kept
        BY <1>2, <2>1, <3>1 DEF Kept, Accounted
      <3> QED
        BY <2>1, <3>1, <3>2
    <2>2. CASE UNCHANGED <<received, overwritten, letters>>
      BY <1>2, <2>2, SameKeeps DEF TypeOK
    <2> QED
      BY <2>1, <2>2 DEF Resend
  <1>4. NotResending \in [letter : Batches, batch : Batches]
    BY DEF NotResending, NoBatch, Batches, Events
  <1>5. TypeOK'
    BY <1>1, <1>3, <1>4 DEF IInv, TypeOK
  <1>6. Passed(cursor)'
    BY <1>1, <1>3, PassedStays DEF IInv
  <1>7. \A r \in Runs : RunOK(r)'
    BY <1>1, <1>3, RunStays DEF IInv
  <1>8. LettersOK'
    BY <1>1, <1>3 DEF IInv, LettersOK, Between, Ranged
  <1> QED
    BY <1>5, <1>6, <1>7, <1>8 DEF IInv

LEMMA StutterOK == IInv /\ UNCHANGED vars => IInv'
  <1> SUFFICES ASSUME IInv, UNCHANGED vars PROVE IInv'
    OBVIOUS
  <1> USE DEF vars
  <1>1. TypeOK'
    BY DEF IInv, TypeOK
  <1>2. Kept /\ Got' = Got
    BY SameKeeps
  <1>3. Passed(cursor)'
    BY <1>2, PassedStays DEF IInv
  <1>4. \A r \in Runs : RunOK(r)'
    BY <1>2, RunStays DEF IInv
  <1>5. LettersOK'
    BY LettersStay DEF IInv
  <1> QED
    BY <1>1, <1>3, <1>4, <1>5 DEF IInv

LEMMA NextOK == IInv /\ [Next]_vars => IInv'
  <1> SUFFICES ASSUME IInv, [Next]_vars PROVE IInv'
    OBVIOUS
  <1>1. CASE BeginEvent
    BY <1>1, BeginEventOK
  <1>2. CASE \E e \in Events : CommitEvent(e)
    BY <1>2, CommitEventOK
  <1>3. CASE \E on \in BOOLEAN : Patch(on)
    BY <1>3, PatchOK
  <1>4. ASSUME NEW r \in Runs, RunStep(r) PROVE IInv'
    BY <1>4, StartOK, LoadOK, FetchOK, DeliverOK, MoveOnOK, CountFailureOK, DeadLetterOK
       DEF RunStep
  <1>5. ASSUME NEW r \in Runs, Crash(r) PROVE IInv'
    BY <1>5, CrashOK
  <1>6. CASE ReadLetter
    BY <1>6, ReadLetterOK
  <1>7. CASE Resend
    BY <1>7, ResendOK
  <1>8. CASE UNCHANGED vars
    BY <1>8, StutterOK
  <1> QED
    BY <1>1, <1>2, <1>3, <1>4, <1>5, <1>6, <1>7, <1>8 DEF Next

LEMMA Invariance == Spec => []IInv
  BY InitOK, NextOK, PTL DEF Spec

(* Every variable has its type.                                            *)
THEOREM TypeCorrect == Spec => []TypeOK
  <1>1. IInv => TypeOK
    BY DEF IInv
  <1> QED
    BY <1>1, Invariance, PTL

(* Whatever number of runs overlap, crash and move the cursor back, no     *)
(* event that was there for the cursor to pass is passed unless it was     *)
(* delivered or set aside as a dead letter.                                *)
THEOREM StreamSkipsNothing == Spec => []NothingSkipped
  <1>1. IInv => NothingSkipped
    BY DEF IInv, Passed, NothingSkipped
  <1> QED
    BY <1>1, Invariance, PTL
================================================================================
