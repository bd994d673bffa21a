------------------------------- MODULE Publishing ------------------------------
(***************************************************************************)
(* The published copies of one environment: the manifest and the import    *)
(* map in storage and the ETag recorded with them.  Changes queue a        *)
(* publish (pg-boss), workers of all replicas run and retry it, some       *)
(* routes publish inline, and the copies of a deleted workspace are        *)
(* removed, and put back when it is restored.                              *)
(*                                                                         *)
(* Abstracted: the manifest is the number of the change that made it.      *)
(* Storage is configured; each put and each removal is a step that may     *)
(* fail, and a replica may die between any two.                            *)
(***************************************************************************)
EXTENDS Naturals

CONSTANTS
    Workers,    \* replicas working the manifest.publish queue
    Inline,     \* requests that publish themselves
    Jobs,       \* queued publishes there may be at a time
    Retries,    \* retryLimit
    MaxChanges  \* bound on changes

ASSUME PublishersAssumption == Workers \cap Inline = {}
ASSUME JobsAssumption == "none" \notin Jobs
ASSUME BoundsAssumption == Retries \in Nat /\ MaxChanges \in Nat \ {0}

VARIABLES
    version,    \* number of the last committed change
    tenant,     \* the workspace: live, (soft) deleted, or purged with its rows
    removing,   \* objects a deletion has yet to remove
    unsent,     \* changes that are committed and not queued yet
    job,        \* job[j]: a queued publish and the retries it has left
    pub,        \* pub[p]: a publish in progress, by its next step
    published,  \* published[o]: the change that the object or the recorded ETag shows
    lost        \* whether a publish was lost that nothing makes up for

vars == <<version, tenant, removing, unsent, job, pub, published, lost>>

Publishers == Workers \cup Inline
Objects == {"manifest", "importMap"}
Outputs == Objects \cup {"etag"}
Absent == 0

NoJob == [state |-> "none", left |-> 0]
Idle == [step |-> "idle", copy |-> Absent, job |-> "none"]

TypeOK ==
    /\ version \in 1..MaxChanges
    /\ tenant \in {"live", "deleted", "purged"}
    /\ removing \subseteq Objects
    /\ unsent \in 0..MaxChanges
    /\ job \in [Jobs -> [state : {"none", "waiting", "active"}, left : 0..Retries]]
    /\ pub \in [Publishers -> [step : {"idle", "build"} \cup Outputs,
                               copy : 0..MaxChanges, job : Jobs \cup {"none"}]]
    /\ published \in [Outputs -> 0..MaxChanges]
    /\ lost \in BOOLEAN

Init ==
    /\ version = 1
    /\ tenant = "live"
    /\ removing = {}
    /\ unsent = 0
    /\ job = [j \in Jobs |-> NoJob]
    /\ pub = [p \in Publishers |-> Idle]
    /\ published = [o \in Outputs |-> 1]
    /\ lost = FALSE

--------------------------------------------------------------------------------
(* Changes and the queue.                                                  *)

(* A change of the workspace, or of a sibling whose shared modules it      *)
(* shows.  Its replica then calls onCommitted.                             *)
Change ==
    /\ tenant = "live"
    /\ version < MaxChanges
    /\ version' = version + 1
    /\ unsent' = unsent + 1
    /\ UNCHANGED <<tenant, removing, job, pub, published, lost>>

(* A sibling changes a shared module: fanOut does not see deleted ones.    *)
SiblingChange ==
    /\ tenant = "deleted"
    /\ version < MaxChanges
    /\ version' = version + 1
    /\ UNCHANGED <<tenant, removing, unsent, job, pub, published, lost>>

Waiting(j) == job[j].state = "waiting"
Queue(j) == job' = [job EXCEPT ![j] = [state |-> "waiting", left |-> Retries]]

(* Plausible error, which the code's comment warns of: singletonSeconds,   *)
(* with which a running publish also absorbs the new one.                  *)
SendSingleton ==
    /\ unsent > 0
    /\ unsent' = unsent - 1
    /\ \/ (\A j \in Jobs : job[j] = NoJob) /\ \E j \in Jobs : Queue(j)
       \/ (\E j \in Jobs : job[j] # NoJob) /\ UNCHANGED job
    /\ UNCHANGED <<version, tenant, removing, pub, published, lost>>

(* enqueuePublish: a new job, or the singletonKey finds one still waiting. *)
Send ==
    /\ unsent > 0
    /\ unsent' = unsent - 1
    /\ \/ \E j \in Jobs : job[j] = NoJob /\ Queue(j)
       \/ (\E j \in Jobs : Waiting(j)) /\ UNCHANGED job
    /\ UNCHANGED <<version, tenant, removing, pub, published, lost>>

(* The replica dies before it sends, or the queue refuses.                 *)
SendFails ==
    /\ unsent > 0
    /\ unsent' = unsent - 1
    /\ lost' = TRUE
    /\ UNCHANGED <<version, tenant, removing, job, pub, published>>

--------------------------------------------------------------------------------
(* One publish.                                                            *)

(* A worker takes a job; publish loads the environment, which must exist,  *)
(* and looks at nothing else.                                              *)
Take(w, j) ==
    /\ pub[w] = Idle
    /\ Waiting(j)
    /\ tenant # "purged"
    /\ job' = [job EXCEPT ![j].state = "active"]
    /\ pub' = [pub EXCEPT ![w] = [step |-> "build", copy |-> Absent, job |-> j]]
    /\ UNCHANGED <<version, tenant, removing, unsent, published, lost>>

(* The environment is gone: the job fails until no retry is left.          *)
TakeForNothing(j) ==
    /\ Waiting(j)
    /\ tenant = "purged"
    /\ job' = [job EXCEPT ![j] = IF @.left = 0 THEN NoJob
                                 ELSE [state |-> "waiting", left |-> @.left - 1]]
    /\ UNCHANGED <<version, tenant, removing, unsent, pub, published, lost>>

StartInline(i) ==
    /\ pub[i] = Idle
    /\ pub' = [pub EXCEPT ![i] = [Idle EXCEPT !.step = "build"]]

(* The publish route.                                                      *)
PublishNow(i) ==
    /\ tenant = "live"
    /\ StartInline(i)
    /\ UNCHANGED <<version, tenant, removing, unsent, job, published, lost>>

(* refreshWorkspace and GitOps: a change that is only published inline.    *)
ChangeInline(i) ==
    /\ tenant = "live"
    /\ version < MaxChanges
    /\ version' = version + 1
    /\ StartInline(i)
    /\ UNCHANGED <<tenant, removing, unsent, job, published, lost>>

(* The shared modules and the manifest are read.                           *)
Build(p) ==
    /\ pub[p].step = "build"
    /\ pub' = [pub EXCEPT ![p].step = "manifest", ![p].copy = version]
    /\ UNCHANGED <<version, tenant, removing, unsent, job, published, lost>>

Done(p) ==
    /\ pub' = [pub EXCEPT ![p] = Idle]
    /\ job' = [j \in Jobs |-> IF j = pub[p].job THEN NoJob ELSE job[j]]

Following == [manifest |-> "importMap", importMap |-> "etag"]

(* storage.put of the manifest, then of the import map, then the ETag in   *)
(* the environment's row.  None looks at what it overwrites.               *)
Put(p) ==
    LET o == pub[p].step
    IN /\ o \in Outputs
       /\ o = "etag" => tenant # "purged"
       /\ published' = [published EXCEPT ![o] = pub[p].copy]
       /\ lost' = (lost \/ pub[p].copy < published[o])
       /\ IF o = "etag"
          THEN Done(p)
          ELSE pub' = [pub EXCEPT ![p].step = Following[o]] /\ UNCHANGED job
       /\ UNCHANGED <<version, tenant, removing, unsent>>

(* A step fails or the replica dies: pg-boss retries the job while it has  *)
(* retries left; an inline publish is not retried.                         *)
Fail(p) ==
    LET j == pub[p].job
    IN /\ pub[p] # Idle
       /\ pub' = [pub EXCEPT ![p] = Idle]
       /\ \/ /\ j \in Jobs /\ job[j].left > 0
             /\ job' = [job EXCEPT ![j] = [state |-> "waiting", left |-> @.left - 1]]
             /\ UNCHANGED lost
          \/ /\ j \in Jobs /\ job[j].left = 0
             /\ job' = [job EXCEPT ![j] = NoJob]
             /\ lost' = TRUE
          \/ /\ j \notin Jobs
             /\ lost' = TRUE
             /\ UNCHANGED job
       /\ UNCHANGED <<version, tenant, removing, unsent, published>>

--------------------------------------------------------------------------------
(* Deletion and restore.                                                   *)

(* softDeleteWorkspace marks the row, then removes the published copies.   *)
SoftDelete ==
    /\ tenant = "live"
    /\ tenant' = "deleted"
    /\ removing' = Objects
    /\ UNCHANGED <<version, unsent, job, pub, published, lost>>

(* deleteWorkspace (the purge, or no restore window) and the expiry of a   *)
(* preview environment: the rows go first.                                 *)
Purge ==
    /\ tenant # "purged"
    /\ tenant' = "purged"
    /\ removing' = Objects
    /\ published' = [published EXCEPT !["etag"] = Absent]
    /\ UNCHANGED <<version, unsent, job, pub, lost>>

Remove(o) ==
    /\ o \in removing
    /\ removing' = removing \ {o}
    /\ published' = [published EXCEPT ![o] = Absent]
    /\ lost' = (lost \/ tenant = "live")
    /\ UNCHANGED <<version, tenant, unsent, job, pub>>

(* Storage refuses; with a preview, or when the replica dies, the rest of  *)
(* the removals are not tried either.                                      *)
RemovalFails ==
    /\ removing # {}
    /\ removing' \in (SUBSET removing) \ {removing}
    /\ UNCHANGED <<version, tenant, unsent, job, pub, published, lost>>

(* Plausible error: the restore leaves publishing to the next change.      *)
RestoreOnly(i) ==
    /\ tenant = "deleted"
    /\ tenant' = "live"
    /\ UNCHANGED <<version, removing, unsent, job, pub, published, lost>>

(* restoreWorkspace clears the mark and publishes each environment.        *)
Restore(i) ==
    /\ tenant = "deleted"
    /\ tenant' = "live"
    /\ StartInline(i)
    /\ UNCHANGED <<version, removing, unsent, job, published, lost>>

--------------------------------------------------------------------------------
PublisherStep(p) == Build(p) \/ Put(p)

Next ==
    \/ Change
    \/ SiblingChange
    \/ Send
    \/ SendFails
    \/ \E j \in Jobs : TakeForNothing(j) \/ \E w \in Workers : Take(w, j)
    \/ \E i \in Inline : PublishNow(i) \/ ChangeInline(i) \/ Restore(i)
    \/ \E p \in Publishers : PublisherStep(p) \/ Fail(p)
    \/ SoftDelete
    \/ Purge
    \/ \E o \in Objects : Remove(o)
    \/ RemovalFails

Spec == Init /\ [][Next]_vars

(* The replica that committed goes on to send, workers poll the queue, and *)
(* a publish or a removal that started goes on until it ends or fails.     *)
FairSpec ==
    /\ Spec
    /\ WF_vars(Send \/ SendFails)
    /\ WF_vars(\E w \in Workers, j \in Jobs : Take(w, j))
    /\ \A p \in Publishers : WF_vars(PublisherStep(p) \/ Fail(p))
    /\ WF_vars(RemovalFails \/ \E o \in Objects : Remove(o))

--------------------------------------------------------------------------------
(* What a publish in progress has yet to put.                              *)
ToPut(p) ==
    CASE pub[p].step \in {"build", "manifest"} -> Outputs
      [] pub[p].step = "importMap" -> {"importMap", "etag"}
      [] pub[p].step = "etag" -> {"etag"}
      [] OTHER -> {}

(* A publish of the current manifest to o is due or under way.             *)
Coming(o) ==
    \/ unsent > 0
    \/ \E j \in Jobs : Waiting(j)
    \/ \E p \in Publishers :
         o \in ToPut(p) /\ (pub[p].step = "build" \/ pub[p].copy = version)

(* "It reads the latest state when it runs, so bursts collapse" (container)*)
(* yet no change is forgotten: while a live workspace's manifest, import   *)
(* map or recorded ETag is not that of the last change, a publish that     *)
(* will make it so is queued or running; unless one was lost for good      *)
(* (died before it was queued, ran out of retries, inline and failed, or   *)
(* its outcome was overwritten by a slower one).                           *)
NothingForgotten ==
    tenant = "live" /\ ~lost =>
       \A o \in Outputs : published[o] = version \/ Coming(o)

(* So hosts on the CDN get the last change in the end, also after a        *)
(* restore, and all three outputs agree, once the workspace stays live.    *)
CopiesCatchUp ==
    []~lost /\ <>[](tenant = "live") => <>[](\A o \in Outputs : published[o] = version)

(* "Its published manifest copies leave the CDN", "they go now, not at the *)
(* purge" (softDeleteWorkspace): nothing puts one back before a restore.   *)
DeletedStaysOffline ==
    [][\A o \in Objects :
         tenant = "deleted" /\ published[o] = Absent /\ removing = {} => published'[o] = Absent]_vars
================================================================================
