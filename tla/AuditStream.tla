------------------------------ MODULE AuditStream ------------------------------
(***************************************************************************)
(* An organization's audit events streamed to one of its sinks: every      *)
(* minute a run of the audit.stream job reads the sink, the events after   *)
(* its cursor, delivers them and moves the cursor; batches the sink keeps  *)
(* refusing become dead letters, which an admin can send again.            *)
(*                                                                         *)
(* An event is its position (createdAt, id), which it gets before its      *)
(* transaction commits.  Abstracted: the two tables of events are one; the *)
(* events of one batch are of one hour; the sink was made with backfill; a *)
(* letter is never more than STREAM_BATCH late events short.               *)
(***************************************************************************)
EXTENDS Naturals, FiniteSets

CONSTANTS
    MaxEvents,   \* bound on events
    Batch,       \* STREAM_BATCH
    MaxFailures, \* MAX_FAILURES
    MaxPatches,  \* bound on updates of the sink
    MaxCrashes,  \* bound on crashes
    Runs         \* runs of the job there may be at a time, on any replica

ASSUME MaxEventsAssumption == MaxEvents \in Nat
ASSUME BatchAssumption == Batch \in Nat \ {0}
ASSUME MaxFailuresAssumption == MaxFailures \in Nat \ {0}

Events == 1..MaxEvents

VARIABLES
    kind,       \* of the sink: an HTTPS receiver, or a bucket
    begun,      \* how many events have a position
    committed,  \* events that can be read
    late,       \* those that committed behind the cursor, or behind what a run has read
    cursor,
    failures,
    enabled,
    patches,
    crashes,
    letters,    \* batches set aside and not delivered since
    run,        \* run[r]: its next step, what it read of the sink, its batch
    resend,     \* the letter being sent again, and the batch read for it
    received,   \* received[e]: events of the batches that started with e
    overwritten \* events an object lost to a shorter batch with its name

sinkVars == <<kind, cursor, failures, enabled, patches, crashes>>
vars == <<kind, begun, committed, late, cursor, failures, enabled, patches, crashes,
          letters, run, resend, received, overwritten>>

NoBatch == [first |-> 0, last |-> 0, events |-> {}]
Batches == [first : 0..MaxEvents, last : 0..MaxEvents, events : SUBSET Events]
Idle == [step |-> "idle", cursor |-> 0, failures |-> 0, batch |-> NoBatch]
NotResending == [letter |-> NoBatch, batch |-> NoBatch]

TypeOK ==
    /\ kind \in {"https", "s3"}
    /\ begun \in 0..MaxEvents
    /\ committed \subseteq 1..begun
    /\ late \subseteq committed
    /\ cursor \in 0..MaxEvents
    /\ failures \in 0..(MaxFailures - 1)
    /\ enabled \in BOOLEAN
    /\ patches \in Nat
    /\ crashes \in Nat
    /\ letters \subseteq Batches
    /\ run \in [Runs -> [step : {"idle", "load", "fetch", "deliver", "accepted", "refused"},
                         cursor : 0..MaxEvents, failures : 0..(MaxFailures - 1),
                         batch : Batches]]
    /\ resend \in [letter : Batches, batch : Batches]
    /\ received \in [Events -> SUBSET Events]
    /\ overwritten \subseteq Events

Init ==
    /\ kind \in {"https", "s3"}
    /\ begun = 0
    /\ committed = {}
    /\ late = {}
    /\ cursor = 0
    /\ failures = 0
    /\ enabled = TRUE
    /\ patches = 0
    /\ crashes = 0
    /\ letters = {}
    /\ run = [r \in Runs |-> Idle]
    /\ resend = NotResending
    /\ received = [e \in Events |-> {}]
    /\ overwritten = {}

Got == UNION {received[e] : e \in Events}

(* How far the cursor is moved by a run, at most.                          *)
Reach(r) == IF run[r].batch = NoBatch THEN run[r].cursor ELSE run[r].batch.last

--------------------------------------------------------------------------------
(* Events: createdAt is taken when the row is made ...                     *)
BeginEvent ==
    /\ begun < MaxEvents
    /\ begun' = begun + 1
    /\ UNCHANGED <<sinkVars, committed, late, letters, run, resend, received, overwritten>>

(* ... and the row is there when its transaction commits.                  *)
CommitEvent(e) ==
    /\ e <= begun
    /\ e \notin committed
    /\ committed' = committed \cup {e}
    /\ late' = IF e <= cursor \/ \E r \in Runs : run[r].step # "idle" /\ e <= Reach(r)
               THEN late \cup {e} ELSE late
    /\ UNCHANGED <<sinkVars, begun, letters, run, resend, received, overwritten>>

(* Turning a sink on, also when it is on, forgets its failures.            *)
Patch(on) ==
    /\ patches < MaxPatches
    /\ patches' = patches + 1
    /\ enabled' = on
    /\ failures' = IF on THEN 0 ELSE failures
    /\ UNCHANGED <<kind, begun, committed, late, cursor, crashes, letters, run, resend, received,
                   overwritten>>

--------------------------------------------------------------------------------
(* streamSink.                                                             *)
Start(r) ==
    /\ run[r] = Idle
    /\ enabled
    /\ run' = [run EXCEPT ![r].step = "load"]
    /\ UNCHANGED <<sinkVars, begun, committed, late, letters, resend, received, overwritten>>

Load(r) ==
    /\ run[r].step = "load"
    /\ run' = [run EXCEPT ![r] =
                 IF enabled
                 THEN [step |-> "fetch", cursor |-> cursor, failures |-> failures,
                       batch |-> NoBatch]
                 ELSE Idle]
    /\ UNCHANGED <<sinkVars, begun, committed, late, letters, resend, received, overwritten>>

Between(first, last) == {e \in committed : first <= e /\ e <= last}
After(c) == {e \in committed : e > c}

(* eventsAfter: the first events after the cursor that was read.           *)
Fetch(r) ==
    /\ run[r].step = "fetch"
    /\ IF After(run[r].cursor) = {}
       THEN run' = [run EXCEPT ![r] = Idle]
       ELSE \E first, last \in After(run[r].cursor) :
              LET batch == Between(first, last)
              IN /\ \A e \in After(run[r].cursor) : first <= e
                 /\ batch # {} /\ Cardinality(batch) <= Batch
                 /\ Cardinality(batch) = Batch \/ \A e \in After(run[r].cursor) : e <= last
                 /\ run' = [run EXCEPT ![r].step = "deliver",
                              ![r].batch = [first |-> first, last |-> last, events |-> batch]]
    /\ UNCHANGED <<sinkVars, begun, committed, late, letters, resend, received, overwritten>>

(* deliverBatch: a receiver takes the events; an object named by its first *)
(* event is written over.                                                  *)
Accept(batch) ==
    LET before == received[batch.first]
        stored == IF kind = "s3" THEN batch.events ELSE before \cup batch.events
    IN /\ received' = [received EXCEPT ![batch.first] = stored]
       /\ overwritten' = (overwritten \cup (before \ stored)) \ stored

Deliver(r) ==
    /\ run[r].step = "deliver"
    /\ \/ Accept(run[r].batch) /\ run' = [run EXCEPT ![r].step = "accepted"]
       \/ run' = [run EXCEPT ![r].step = "refused"] /\ UNCHANGED <<received, overwritten>>
    /\ UNCHANGED <<sinkVars, begun, committed, late, letters, resend>>

(* The cursor is set, wherever it is by now; up to BATCHES_PER_RUN batches *)
(* follow.                                                                 *)
MoveOn(r) ==
    /\ run[r].step = "accepted"
    /\ cursor' = run[r].batch.last
    /\ failures' = 0
    /\ \E step \in {"load", "idle"} : run' = [run EXCEPT ![r] = [Idle EXCEPT !.step = step]]
    /\ UNCHANGED <<kind, enabled, patches, crashes, begun, committed, late, letters, resend,
                   received, overwritten>>

(* Plausible error: the batch is given up.                                 *)
DropBatch(r) ==
    /\ run[r].step = "refused"
    /\ run[r].failures + 1 >= MaxFailures
    /\ cursor' = run[r].batch.last
    /\ failures' = 0
    /\ run' = [run EXCEPT ![r] = Idle]
    /\ UNCHANGED <<kind, enabled, patches, crashes, begun, committed, late, letters, resend,
                   received, overwritten>>

(* Plausible error: failures are counted, and never enough.                *)
NeverDeadLetter(r) ==
    /\ run[r].step = "refused"
    /\ run[r].failures + 1 >= MaxFailures
    /\ run' = [run EXCEPT ![r] = Idle]
    /\ UNCHANGED <<sinkVars, begun, committed, late, letters, resend, received, overwritten>>

(* A batch is refused, or accepted and the cursor could not be set, which  *)
(* the code does not tell apart.                                           *)
Failed(r) == run[r].step \in {"refused", "accepted"}

(* The failure is counted from what was read, or is one too many: a dead   *)
(* letter, with the cursor behind it, in one transaction.                  *)
CountFailure(r) ==
    /\ Failed(r)
    /\ run[r].failures + 1 < MaxFailures
    /\ failures' = run[r].failures + 1
    /\ run' = [run EXCEPT ![r] = Idle]
    /\ UNCHANGED <<kind, cursor, enabled, patches, crashes, begun, committed, late, letters, resend,
                   received, overwritten>>

DeadLetter(r) ==
    /\ Failed(r)
    /\ run[r].failures + 1 >= MaxFailures
    /\ letters' = letters \cup {run[r].batch}
    /\ cursor' = run[r].batch.last
    /\ failures' = 0
    /\ run' = [run EXCEPT ![r] = Idle]
    /\ UNCHANGED <<kind, enabled, patches, crashes, begun, committed, late, resend,
                   received, overwritten>>

(* The replica dies, or the sink is gone when it is updated.               *)
Crash(r) ==
    /\ run[r] # Idle
    /\ crashes < MaxCrashes
    /\ crashes' = crashes + 1
    /\ run' = [run EXCEPT ![r] = Idle]
    /\ UNCHANGED <<kind, cursor, failures, enabled, patches, begun, committed, late, letters,
                   resend, received, overwritten>>

--------------------------------------------------------------------------------
(* resendDeadLetter: the events of the letter's range, as they are now.    *)
ReadLetter ==
    /\ resend = NotResending
    /\ \E l \in letters :
         resend' = [letter |-> l,
                    batch |-> [l EXCEPT !.events = Between(l.first, l.last)]]
    /\ UNCHANGED <<sinkVars, begun, committed, late, letters, run, received, overwritten>>

(* Refused, it remains a letter, and so it does when it cannot be marked.  *)
Resend ==
    /\ resend # NotResending
    /\ \/ /\ Accept(resend.batch)
          /\ letters' \in {letters, letters \ {resend.letter}}
       \/ UNCHANGED <<received, overwritten, letters>>
    /\ resend' = NotResending
    /\ UNCHANGED <<sinkVars, begun, committed, late, run>>

--------------------------------------------------------------------------------
RunStep(r) ==
    Start(r) \/ Load(r) \/ Fetch(r) \/ Deliver(r) \/ MoveOn(r) \/ CountFailure(r) \/ DeadLetter(r)

Next ==
    \/ BeginEvent
    \/ \E e \in Events : CommitEvent(e)
    \/ \E on \in BOOLEAN : Patch(on)
    \/ \E r \in Runs : RunStep(r) \/ Crash(r)
    \/ ReadLetter
    \/ Resend

Spec == Init /\ [][Next]_vars

(* The job runs every minute, on a replica that is up.                     *)
FairSpec == Spec /\ \A r \in Runs : WF_vars(RunStep(r))

--------------------------------------------------------------------------------
Accounted(e) == e \in Got \/ e \in overwritten \/ \E l \in letters : e \in l.events

(* "A batch is resent until the sink accepts it (at least once)": no event *)
(* that was there for the cursor to pass is passed, but what is delivered  *)
(* or set aside; whatever runs overlap, crash, or move the cursor back.    *)
(* Objects may still be written over, and late events are not there.       *)
NothingSkipped ==
    \A e \in committed \ late :
       e <= cursor => Accounted(e)

(* A sink that stays enabled gets every event, or there is a letter with   *)
(* it: a sink that keeps refusing, or a bad batch, does not stop the stream.*)
EventuallyStreamed ==
    \A e \in Events :
       e \in committed \ late
          ~> ~enabled \/ Accounted(e)

(* Said of every event, and of buckets too.                                *)
EveryEventIsStreamed ==
    \A e \in committed : e <= cursor => e \in Got \/ \E l \in letters : e \in l.events
================================================================================
