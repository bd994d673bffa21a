----------------------------- MODULE ManifestCache -----------------------------
(***************************************************************************)
(* The cached manifest of one environment: the entry hosts are served from *)
(* and the last-known-good copy behind it, both in the cache the replicas  *)
(* share (Redis).  Three kinds of processes of a replica write them: a     *)
(* change, after its commit (ManifestMutations.afterCommit, or             *)
(* OrgSharedModules.fanOut when a sibling workspace changes a module it    *)
(* shares); the deletion or the restore of the workspace, which forgets    *)
(* both (forgetCached); and a cache miss, after it built the manifest      *)
(* (resolveStable).  Every cache command and every database read is a      *)
(* step, so they interleave.                                               *)
(*                                                                         *)
(* Abstracted: a copy of the manifest is the set of its parts that are out *)
(* of date; a commit makes its part of every copy held anywhere so.  The   *)
(* canary variants and the "missing" marker share the fate of the entry    *)
(* (invalidateManifest drops them with it) and are left out.               *)
(***************************************************************************)
EXTENDS FiniteSets

CONSTANTS
    Replicas,   \* replicas of the registry, each with one change and one miss at a time
    MayFail     \* whether a replica may crash, and the cache and the database fail

ASSUME MayFailAssumption == MayFail \in BOOLEAN

(* What a manifest is made of: the workspace's own modules, and those the  *)
(* other workspaces of its organization share.                             *)
Parts == {"own", "shared"}
NoCopy == {"none"}
Copies == SUBSET Parts

VARIABLES
    cache,      \* the entry at manifestKey
    lkg,        \* the entry at lastKnownGoodKey
    change,     \* change[r]: the change, deletion or restore r is making, by its next step
    miss,       \* miss[r]: the build in flight on r (once: misses that come later join it)
    deleted     \* whether the workspace's deletedAt is set (it can be restored)

vars == <<cache, lkg, change, miss, deleted>>

Idle == [step |-> "idle", copy |-> NoCopy]
Changes == [step : {"idle", "fanOut", "forget", "forgetLkg"}, copy : {NoCopy}]
           \cup [step : {"commit", "invalidate", "set", "lkg"}, copy : Copies]
Misses == [step : {"idle", "shared"}, copy : {NoCopy}]
          \cup [step : {"build", "set", "lkg"}, copy : Copies]

TypeOK ==
    /\ cache \in Copies \cup {NoCopy}
    /\ lkg \in Copies \cup {NoCopy}
    /\ change \in [Replicas -> Changes]
    /\ miss \in [Replicas -> Misses]
    /\ deleted \in BOOLEAN

Init ==
    /\ cache = NoCopy
    /\ lkg = NoCopy
    /\ change = [r \in Replicas |-> Idle]
    /\ miss = [r \in Replicas |-> Idle]
    /\ deleted = FALSE

Older(copy, part) == IF copy = NoCopy THEN NoCopy ELSE copy \cup {part}

(* Every copy anywhere lacks what has just been committed.                 *)
AllOlder(part) ==
    /\ cache' = Older(cache, part)
    /\ lkg' = Older(lkg, part)
    /\ miss' = [r \in Replicas |-> [miss[r] EXCEPT !.copy = Older(@, part)]]
    /\ UNCHANGED deleted

--------------------------------------------------------------------------------
(* A change of the workspace itself.  Routes refuse it once the workspace  *)
(* is deleted, when the request begins; the rollout job does not ask.      *)

(* snapshot reads the shared modules in a transaction of their own, while  *)
(* the change holds the workspace's audit lock.                            *)
ReadShared(r) ==
    /\ change[r] = Idle
    /\ \A q \in Replicas : change[q].step # "commit"
    /\ change' = [change EXCEPT ![r] = [step |-> "commit", copy |-> {}]]
    /\ UNCHANGED <<cache, lkg, miss, deleted>>

(* It then builds the manifest from its own writes and commits; the lock   *)
(* keeps other changes of the workspace out until it has.                  *)
CommitOwn(r) ==
    /\ change[r].step = "commit"
    /\ AllOlder("own")
    /\ change' = [q \in Replicas |->
                    IF q = r THEN [change[r] EXCEPT !.step = "invalidate"]
                    ELSE [change[q] EXCEPT !.copy = Older(@, "own")]]

(* Plausible error: the pattern also matches the last known good copy.     *)
InvalidateLkgToo(r) ==
    /\ change[r].step = "invalidate"
    /\ cache' = NoCopy
    /\ lkg' = NoCopy
    /\ change' = [change EXCEPT ![r].step = "set"]
    /\ UNCHANGED <<miss, deleted>>

Invalidate(r) ==
    /\ change[r].step = "invalidate"
    /\ cache' = NoCopy
    /\ change' = [change EXCEPT ![r].step = "set"]
    /\ UNCHANGED <<lkg, miss, deleted>>

SetCache(r) ==
    /\ change[r].step = "set"
    /\ cache' = change[r].copy
    /\ change' = [change EXCEPT ![r].step = "lkg"]
    /\ UNCHANGED <<lkg, miss, deleted>>

SetLkg(r) ==
    /\ change[r].step = "lkg"
    /\ lkg' = change[r].copy
    /\ change' = [change EXCEPT ![r] = Idle]
    /\ UNCHANGED <<cache, miss, deleted>>

(* A workspace of the organization changes a module it shares; its own     *)
(* cache is refreshed first, then this environment's entry is dropped.     *)
CommitShared(r) ==
    /\ change[r] = Idle
    /\ AllOlder("shared")
    /\ change' = [q \in Replicas |->
                    IF q = r THEN [step |-> "fanOut", copy |-> NoCopy]
                    ELSE [change[q] EXCEPT !.copy = Older(@, "shared")]]

FanOut(r) ==
    /\ change[r].step = "fanOut"
    /\ cache' = NoCopy
    /\ change' = [change EXCEPT ![r] = Idle]
    /\ UNCHANGED <<lkg, miss, deleted>>

--------------------------------------------------------------------------------
(* The workspace is deleted, restorably, or restored: softDeleteWorkspace,  *)
(* restoreWorkspace.                                                       *)

(* The request looks at deletedAt when it begins; that two of them may then *)
(* both delete (or restore) it only means that it is forgotten twice.      *)
SetDeleted(r) ==
    /\ change[r] = Idle
    /\ deleted' = ~deleted
    /\ change' = [change EXCEPT ![r].step = "forget"]
    /\ UNCHANGED <<cache, lkg, miss>>

(* forgetCached drops every cached copy, one after the other.              *)
Forget(r) ==
    /\ change[r].step = "forget"
    /\ cache' = NoCopy
    /\ change' = [change EXCEPT ![r].step = "forgetLkg"]
    /\ UNCHANGED <<lkg, miss, deleted>>

ForgetLkg(r) ==
    /\ change[r].step = "forgetLkg"
    /\ lkg' = NoCopy
    /\ change' = [change EXCEPT ![r] = Idle]
    /\ UNCHANGED <<cache, miss, deleted>>

--------------------------------------------------------------------------------
(* Plausible error: what was built for the failed refresh is kept.         *)
ChangeStopsKeepingCopy(r) ==
    /\ MayFail
    /\ change[r] # Idle
    /\ change' = [change EXCEPT ![r].step = "idle"]
    /\ UNCHANGED <<cache, lkg, miss, deleted>>

(* The transaction rolls back, the replica crashes, or a cache command (for *)
(* fanOut, the queue) fails: the rest of the refresh, or of forgetting, is  *)
(* lost.                                                                   *)
ChangeStops(r) ==
    /\ MayFail
    /\ change[r] # Idle
    /\ change' = [change EXCEPT ![r] = Idle]
    /\ UNCHANGED <<cache, lkg, miss, deleted>>

--------------------------------------------------------------------------------
(* A host loads the manifest and it is not cached: resolveStable, load.  A *)
(* hit changes nothing and is no step.                                     *)

Miss(r) ==
    /\ miss[r] = Idle
    /\ cache = NoCopy
    /\ miss' = [miss EXCEPT ![r].step = "shared"]
    /\ UNCHANGED <<cache, lkg, change, deleted>>

(* Plausible error: load does not look at deletedAt.                       *)
LoadDeletedToo(r) ==
    /\ miss[r].step = "shared"
    /\ miss' = [miss EXCEPT ![r] = [step |-> "build", copy |-> {}]]
    /\ UNCHANGED <<cache, lkg, change, deleted>>

(* load finds the workspace and reads the shared modules.  The manifest of *)
(* a deleted one is gone (410), whatever the last known good copy is.      *)
LoadShared(r) ==
    /\ miss[r].step = "shared"
    /\ miss' = [miss EXCEPT ![r] =
                    IF deleted THEN Idle ELSE [step |-> "build", copy |-> {}]]
    /\ UNCHANGED <<cache, lkg, change, deleted>>

(* buildManifest reads the workspace's modules: that part is up to date    *)
(* again, whatever was committed since the shared part was read.           *)
Build(r) ==
    /\ miss[r].step = "build"
    /\ miss' = [miss EXCEPT ![r] = [step |-> "set", copy |-> @.copy \ {"own"}]]
    /\ UNCHANGED <<cache, lkg, change, deleted>>

FillCache(r) ==
    /\ miss[r].step = "set"
    /\ cache' = miss[r].copy
    /\ miss' = [miss EXCEPT ![r].step = "lkg"]
    /\ UNCHANGED <<lkg, change, deleted>>

(* Plausible error: only changes refresh the last known good copy.         *)
FillCacheOnly(r) ==
    /\ miss[r].step = "lkg"
    /\ miss' = [miss EXCEPT ![r] = Idle]
    /\ UNCHANGED <<cache, lkg, change, deleted>>

FillLkg(r) ==
    /\ miss[r].step = "lkg"
    /\ lkg' = miss[r].copy
    /\ miss' = [miss EXCEPT ![r] = Idle]
    /\ UNCHANGED <<cache, change, deleted>>

(* A read or a cache command fails: the waiting hosts get the last known   *)
(* good copy, or an error when there is none.  Also a crash.               *)
MissFails(r) ==
    /\ MayFail
    /\ miss[r] # Idle
    /\ miss' = [miss EXCEPT ![r] = Idle]
    /\ UNCHANGED <<cache, lkg, change, deleted>>

(* MANIFEST_CACHE_TTL_SECONDS; the last known good copy has no TTL.        *)
Expire ==
    /\ cache # NoCopy
    /\ cache' = NoCopy
    /\ UNCHANGED <<lkg, change, miss, deleted>>

--------------------------------------------------------------------------------
Commit(r) == CommitOwn(r) \/ CommitShared(r)
AfterCommit(r) ==
    Invalidate(r) \/ SetCache(r) \/ SetLkg(r) \/ FanOut(r) \/ Forget(r) \/ ForgetLkg(r)
Fill(r) == LoadShared(r) \/ Build(r) \/ FillCache(r) \/ FillLkg(r)
Failure(r) == ChangeStops(r) \/ MissFails(r)

Next ==
    \/ \E r \in Replicas :
        \/ ReadShared(r) \/ Commit(r) \/ SetDeleted(r) \/ AfterCommit(r)
        \/ Miss(r) \/ Fill(r) \/ Failure(r)
    \/ Expire

Spec == Init /\ [][Next]_vars

(* A process that started goes on until it ends or stops, and an entry     *)
(* expires.  Changes and loads need not come.                              *)
FairSpec ==
    /\ Spec
    /\ \A r \in Replicas : WF_vars(AfterCommit(r)) /\ WF_vars(Fill(r))
    /\ WF_vars(Expire)

--------------------------------------------------------------------------------
(* Properties.                                                             *)

UpToDate(copy) == copy \in {NoCopy, {}}

NothingCommits == <>[][~\E r \in Replicas : Commit(r) \/ SetDeleted(r)]_vars
BuildsSucceed == []<><<\E r \in Replicas : FillLkg(r)>>_vars

(* However the cache refreshes of changes on several replicas, fan-outs,   *)
(* deletions, restores, builds on a miss, crashes and failing cache        *)
(* commands interleave, an old manifest is not served for good, nor that   *)
(* of a deleted workspace: once the changes stop, the entry is absent or,  *)
(* if the workspace is live, current for ever (TTL of every set,           *)
(* cacheKeys.ts; load, tenantLifecycle.ts).                                *)
CacheCatchesUp ==
    NothingCommits => <>[](UpToDate(cache) /\ (deleted => cache = NoCopy))

(* The copy served during an outage (MAN-06) catches up as well, although  *)
(* invalidation never touches it and a late build or a slow change may put *)
(* an old one back: once the changes stop, and as long as hosts miss the   *)
(* cache and their builds succeed now and then, it is current for ever.    *)
LkgCatchesUp == NothingCommits /\ BuildsSucceed => <>[]UpToDate(lkg)

(* MAN-06: once a manifest was built, an outage finds a copy of it: no     *)
(* invalidation, fan-out, expiry, crash or failing build takes the last    *)
(* known good copy away.  Only a deletion or a restore of the workspace    *)
(* does, after it committed and dropped the entry (forgetCached).          *)
LkgStays ==
    [][lkg # NoCopy /\ lkg' = NoCopy =>
        \E r \in Replicas : change[r].step = "forgetLkg" /\ change'[r] = Idle]_vars

(* routes/modules.ts:1008 (and every other change): "Hosts stop loading    *)
(* the module at their next manifest fetch": once a change has answered,   *)
(* what the cache holds includes it.                                       *)
NextFetchIsCurrent ==
    (\A r \in Replicas : change[r].step \notin {"invalidate", "set", "lkg"})
        => "own" \notin cache

(* services/tenantLifecycle.ts:58: "Writes and manifests answer `410` at   *)
(* once", routes/manifest.ts:261: "Never a last-known-good copy of a       *)
(* deleted workspace": once a deletion has answered, no copy is left to    *)
(* answer with.                                                            *)
DeletedIsGone ==
    deleted /\ (\A r \in Replicas : change[r].step \notin {"forget", "forgetLkg"})
        => cache = NoCopy /\ lkg = NoCopy

================================================================================
