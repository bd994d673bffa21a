# A verification project for Harmoniq

Harmoniq is a control plane for micro-frontends: teams deploy versions of remote modules
into the environments of a host app, and browsers load a manifest that says which version
of each module to run. This directory holds TLA+ models of the registry
(`apps/registry/src`), the TLC runs that check them and TLAPS proofs about them.
`PROJECT.json` maps every definition to the lines it models and lists components, runs,
hazards, findings and theorems.

Paths below are relative to `apps/registry/src` unless they start with `packages/` or `docs/`.

## 1. The system

| Component | State it keeps | Operations | Talks to |
| --- | --- | --- | --- |
| Release operations (`routes/modules.ts`, `services/modules.ts`) | `ModuleVersion` rows per module and environment: status (active, canary, inactive), traffic, targeting, rollout, `activatedAt`, `deletedAt`; the kill switch | deploy, canary deploy, rollback, promote, start/update/advance/promote/abort canary, kill switch | mutation pipeline, approvals, quotas, gate |
| Mutation pipeline (`services/manifestMutation.ts`) | none of its own | freeze check, operation, audit event, snapshot, commit; then cache, webhooks, publish, fan-out | PostgreSQL, cache, queue |
| Staged rollouts (`services/rollout.ts`) | schedule, band, start of the band on the canary's row | `rollout.advance` each minute: judge, then advance, promote or abort | health data, mutation pipeline |
| Alerts (`services/alerts.ts`) | rule state: ok/firing, last trigger | `alert.evaluate` each minute: measure, then abort the canary or roll back | health data, mutation pipeline |
| Garbage collection (`jobs/gc.ts`) | `deletedAt` of versions, snapshots, events; preview environments | soft delete, hard delete with purge of bundles, expiry of previews | PostgreSQL, storage |
| Audit chain (`services/audit.ts`, `auditChain.ts`, trigger in `packages/db`) | numbered, hash-chained events per scope | insert under an advisory lock, verify, stream, export | every writer |
| Manifest delivery (`routes/manifest.ts`, `services/manifestBuilder.ts`, `cacheKeys.ts`) | cached entry per environment and canary variant, last known good copy, in-flight builds per replica | load (hit, miss, fallback), invalidate | cache, PostgreSQL |
| Organization-shared modules (`services/orgShared.ts`) | none of its own | read siblings' shared modules; fan-out after a change | cache, queue |
| Publishing (`services/manifestPublisher.ts`, `jobs/publish.ts`, `plugins/container.ts`) | two storage objects per environment, last published ETag and error | enqueue, publish, retry, publish inline, remove, restore | pg-boss, storage, tenant lifecycle |
| Approvals (`services/approvals.ts`, `routes/approvals.ts`) | policy, `DeploymentRequest` status, decisions | intercept, approve, reject, bypass, execute, expire | release operations |
| Scheduler (`services/scheduler.ts`, `routes/scheduled.ts`) | `ScheduledOperation` status | create, cancel, claim, call, settle, sweep | release operations |
| Sessions (`services/authService.ts`, `routes/auth.ts`) | refresh-token families, TOTP step, suspension | sign in, refresh, upgrade, re-authenticate, revoke, suspend | identity providers |
| Webhooks (`jobs/webhooks.ts`, `services/webhookDispatcher.ts`) | queue, deliveries, dead letters, the endpoint's state | dispatch, attempt, retry, dead letter, resend, pause | pg-boss |
| Audit streaming (`services/auditStream.ts`) | a sink's cursor and failures, dead letters | run each minute: load, fetch, deliver, move on; resend a letter | sinks |
| Membership (`routes/access.ts`, `routes/orgs.ts`, `routes/transfers.ts`, `services/invitations.ts`, `services/orgProvisioning.ts`, `services/scim.ts`) | seats and roles, invitations, transfers, access requests, API keys | change role, remove, offboard, provision, transfer, invite, ask, erase, issue a key | identity providers |
| Client SDK (`packages/client/src/index.ts`) | manifest in use, ETag per source, copy in storage, poll timer | init, poll, set user or context, destroy | registry, CDN |
| Freezes and policy (`routes/hostApps.ts`, `services/policy.ts`) | freeze, window, override of an environment; organization windows | freeze, unfreeze, override | mutation pipeline |
| Plans and quotas, administration, access control, health, GitOps, adapters, tools, dashboard | see `PROJECT.json` | | |

How they interact: a release operation runs inside the mutation pipeline, which after the
commit refreshes the cache (`ManifestCache`), dispatches webhooks (`Webhooks`) and queues a
publish (`Publishing`); its audit event is what `AuditStream` reads later. Approvals and the
scheduler call the release operations from outside. The SDK (`Client`) reads what delivery
and publishing made.

What is hard about it:

- **Concurrency.** Several replicas share PostgreSQL at READ COMMITTED (`withTenant` asks
  for no other level), with no unique index on the active version and no row locks taken
  for reads. What orders writers is one advisory lock per workspace, taken by the audit
  trigger near the *end* of every change.
- **Decisions made on earlier reads.** Both jobs, approvals and the scheduler decide in
  one transaction and act in another.
- **Work after the commit.** Cache, webhooks and publishing are best effort: a crash loses
  them, two changes' refreshes interleave, and a cache miss races both.
- **Retries and restarts.** Queued publishes and deliveries are at-least-once; `executing`
  and `running` rows outlive a crash.
- **Check, then act.** Sessions, memberships and sinks are read by one statement and written
  by id in another; some writes carry a condition (`usedAt: null`, `status: 'pending'`), some
  do not, and the difference is what the models are about.
- **Answers that cross.** A page has several fetches in flight, from two sources.

What makes the parts correct: one active version and at most one canary per environment,
which no operation, job or collection breaks or loses; freezes that bind; staged rollouts
that end; audit and snapshot exact for every change; caches and published copies that
catch up, down to the page; approved and scheduled calls that run once; ended sessions that
stay ended; an owner who remains; events that are delivered, streamed, or set aside.

## 2. The modules

| Module | Models | Depends on |
| --- | --- | --- |
| `ReleaseContract` | abstract: what the registry promises of the stable version and the canary of each environment | |
| `Releases` | release operations, both jobs, freezes and garbage collection; every transaction one step | instance of `ReleaseContract` |
| `ReleaseTransactions` | the same operations for one environment, statement by statement, as PostgreSQL interleaves them; audit lock, snapshot, kill switch | instance of `ReleaseContract` |
| `ManifestCache` | the cached manifest and its last known good copy: changes, fan-outs, deletion and restore, misses, expiry, failures | |
| `Publishing` | the published copies: queue, retries, inline publishes, deletion, restore | |
| `Client` | the SDK on a page, between registry, CDN and a storage that may fail and that other pages share | |
| `ApprovalContract` | abstract: what an approval promises of the change it holds | |
| `Approvals` | requests, decisions, bypass, execution, expiry, policy changes, crashes | instance of `ApprovalContract` |
| `Scheduler` | scheduled operations and the job that runs them | |
| `Membership` | seats, ownership, invitations, transfers, provisioning, offboarding, organization admins, API keys | |
| `Sessions` | refresh-token families statement by statement | |
| `AuditStream` | one sink's cursor, its runs and dead letters | |
| `Webhooks` | one endpoint's deliveries, attempts, dead letters | |
| `MCReleases`, `MCApprovals`, `MCMembership`, `MCSessions`, `MCClient` | constants and symmetry for TLC | extend the module they are named after |
| `ReleasesProofs`, `PublishingProofs`, `ApprovalsProofs`, `AuditStreamProofs`, `WebhooksProofs` | theorems and their proofs | extend the module they are named after |
| `ChangesProofs`, `AccessProofs`, `DeliveryProofs` | theorems and their proofs, each in a section per component | extend `Scheduler` and `ReleaseTransactions`; `Membership` and `Sessions`; `ManifestCache` and `Client` |

`ReleaseTransactions`, `Sessions` and `Client` share a proof module with another component, so
their specifications, invariants and variables carry a prefix (`TxnSpec`, `TxnTypeOK`,
`SessionsSpec`, `ClientSpec`, ...) where the others say `Spec`, `TypeOK`, `vars`. The components of
one proof module share no variable, and no theorem speaks of two.

The other modules are checked with the constants of their own `.cfg`. In each module the
operator that a comment introduces with "Plausible error" is not part of the model: it is
the form an action would take with a likely bug, and a mutant in `PROJECT.json`.

### Releases

`versions[e][v]` is a `ModuleVersion` row of environment `e`. Ids are numbered in the order
of `deployedAt`, so comparisons of times are comparisons of ids. `activated` stands for
`activatedAt` being set, `deleted` for `deletedAt`, `traffic`/`targeted`/`band` for
`trafficPercent`, `targeting` and `currentBandIndex + 1` (0: no staged rollout). `freeze[e]`
is the freeze in force as `isFrozen` and `activeOrgFreeze` judge it; windows and override
windows are folded into it, an owner's per-request override is a parameter. `Mutate` is
`ManifestMutations.run`: it refuses under a freeze and writes one environment's table.
One module is modelled: modules share no version rows, and an operation touches one.

`job` and `alert` hold what a job decided on in an earlier transaction. A gate's or an
alert's arithmetic is a nondeterministic verdict: the model says what may happen for any
health data. `RolloutGivesUp` and `AlertGivesUp` cover a crash, 423 and `Stale`.

### ReleaseTransactions

`Program` gives the statements of each operation in the order of its handler; `tx[w]` is a
running transaction with what it read (`target`, `canary`, `actives`), its uncommitted
`writes`, and whether anything ran or was collected beside it (`alone`, a ghost). `Update`
waits for a row another transaction wrote, as PostgreSQL does; a set UPDATE
(`deactivateActive`) first takes the rows it sees (`ScanActive`) and then rechecks them
(`Deactivate`), which is READ COMMITTED's rule. `Abort` is any refusal, error, crash or
deadlock PostgreSQL breaks, possible at every statement. `InsertAudit` takes the advisory
lock of the chain's trigger and numbers the event; the lock lasts to the commit.

### ManifestCache

A copy of the manifest is the set of its parts (`own`, `shared`) that are out of date, so no
versions need counting: a commit adds its part to every copy held anywhere, in the cache or
in a process's memory. A change goes `ReadShared`, `CommitOwn`, `Invalidate`, `SetCache`,
`SetLkg`; a sibling's change goes `CommitShared`, `FanOut`; a miss goes `Miss`, `LoadShared`,
`Build`, `FillCache`, `FillLkg`. `ReadShared` to `CommitOwn` is exclusive, because the
audit lock is held there. With `MayFail` any process may stop at any step (`ChangeStops`,
`MissFails`): a crash, a failing cache command or read. The cache is Redis, shared by the
replicas.

Deleting the workspace (restorably) and restoring it go `SetDeleted`, `Forget`, `ForgetLkg`
(`forgetCached`): the only operations that drop the last known good copy. `LoadShared`
refuses a deleted workspace (410), but a build or a change that is past its check goes on and
stores both copies again, as does the rollout job, which never checks. Operations that drop
only the entry (CRUD of host apps and environments, a move to another organization, a purge)
do what `Expire` does.

### Publishing

A manifest is the number of the change that made it; `published[o]` is the change each
object, or the recorded ETag, shows. `Change` is a commit whose replica then calls
`onCommitted` (`Send`, or `SendFails` when it dies or the queue refuses); `Take` starts a
queued job and re-reads the rows (`Build`), then `Put` writes manifest, import map and ETag,
one step each. `Fail` is any failure or a dead replica: pg-boss retries until `left` is 0.
`PublishNow` and `ChangeInline` are the routes that publish without the queue. `SoftDelete`,
`Purge`, `Remove` and `Restore` are the tenant lifecycle as far as it touches the copies.
`lost` is the ghost of the code's known gaps: a publish that died before it was queued, that
ran out of retries, that failed inline, or whose outcome a slower one overwrote.

### Client

`inUse`, `source`, `etags`, `stored`, `load` (`initPromise`), `timer` and `destroyed` are the
fields of `HarmoniqClient`. `fetches[c]` is the `fetchManifest` that caller `c` awaits: the
first load, the poll, or the n-th `setUserId`. It holds the source asked, those left, the
ETag and user it was asked with. `Answer` is the server's side (registry: the user's variant
of the last change; CDN: the stable variant of the last published one), `UseAnswer`,
`MarkFresh`, `TryNext` and `GiveUp` what the page does with an answer, a 304, or none. Since
JavaScript runs to the next `await`, each is one step. `Reload` loses everything but storage.
`published` lags behind `latest` as `Publishing` makes it. `settled` is a ghost: nothing failed,
no user changed, and no request is older than the last change. `Persist` may fail and leave the
older copy, reading the storage may fail (`NothingPersisted`), and another page of the host may
write its own user's manifest under the same key (`OtherPage`): the history `lapsed` says that
one of these happened since this page last saved.

### Approvals

`request[r]` is the `DeploymentRequest`, `decision[r][u]` the `DeploymentApproval`, `call[c]` a
deciding call by its next step: `Check` (decisionEligibility), `Record` (the decision and the
count, one transaction), `Reject` or `Claim` (a second one), `Run` (the stored call, applied
or refused), `Settle` (the final status). `Bypass` goes straight to `Claim`. `Crash` cuts a
call between any two. `dropped` collects requests of which a call died. In `ApprovalContract`
a change is `waiting`, `started` with enough approvers other than its requester (or
bypassed), applied at most once, and ends as it really ended.

### Scheduler

`status[o]` is the row, `run[r]` a run of `schedule.run` on some replica with the batch it
claimed. A run goes `Sweep`, `ClaimDue` (FOR UPDATE SKIP LOCKED: one step), then `Call` and
`Settle` for each. `stale` says that `startedAt` is `STALE_RUNNING_MS` ago, so the sweep of
another run may fail what this one still has to do. `effects[o]` counts what was really made.

### Membership

A workspace and an organization have the same shape (roles, one that must remain, keys or
seats below), so one module with role ranks stands for both. Seen as a workspace, it also has
the admins of its organization (`orgAdmins`), who are let in without a seat (`LetIn`, as
`requireWorkspace` does) and may issue keys. Each operation is two steps:
its reads, which settle a plan (`Plan`: whom it writes, to which rank, what it does to keys
and proposals, and the owners its check saw), and `Commit`, which writes by id whatever
has changed since, as READ COMMITTED allows. `raced` is the ghost of the known gap: an owner
went while the owners were not those its check saw.

`keys` holds the users with live keys *that are to end with the membership*. A user leaves it
when the keys are revoked, or become keys of which the code does not promise that: those kept
on purpose (`keepKeys`), those a removal left because they were issued beside it, and those of
organization admins without a seat who step down or are offboarded (`OffboardMember`, second
disjunct: `removeFromWorkspaces` passes over who has no seat, and over the last owner).
`OffboardingRevokes` (section 5) is the statement about the last. Keys that an organization key
created belong to no user and are left out, as is moving a workspace to another organization.

### Sessions

`token[f][n]` is the n-th refresh token of family `f` by its `usedAt` (fresh, used, used and
out of the grace), `revoked[f]` the tokens with a `revokedAt`. AuthService runs outside
transactions, so each statement is a step of `call[c]`: load, `Claim` (an UPDATE ... WHERE
`usedAt` is null), `CheckUser`, `Issue`; upgrades check and set in two steps (`MarkUsed`).
`forked` and `slipped` are the ghosts of the two known gaps.

### AuditStream

An event is its position `(createdAt, id)`, taken before its transaction commits. A run goes
`Load` (the sink), `Fetch` (a batch after the cursor it read), `Deliver`, then `MoveOn`,
`CountFailure` or `DeadLetter`, all written from what it read at the start. The last two also
follow a delivery whose cursor could not be set, which the code does not tell from a refusal.
`late` are events
that committed behind the cursor, `overwritten` those an object lost to a shorter one of the
same name. The retry route also sends a letter again that was sent before; in the model a letter
that was accepted and marked is gone.

### Webhooks

A job is an attempt with the runs pg-boss has left for it; `queue` is a bag, since crashes make
doubles. A worker goes `Take`, `Post`, then `Retry` (queue the next attempt) or `DeadLetter`,
and `Complete`. `owner` tells the workspace's retry route (queue, then mark) from the
organization's (mark, then queue). `lost` collects the events given up in another way than
by a dead letter. Both routes also take a letter that was retried before, which sends an event
that is accounted for once more; that is left out.

## 3. What is checked

| Run | Properties | What it shows |
| --- | --- | --- |
| `releases` | `TypeOK`, `OneVersionEach`, `CanaryWellFormed`, `FreezeHolds`, `ImplementsContract`, `RolloutsEnd` | whatever order operations, jobs and collection run in, one stable version and at most one coherent canary; freezes bind jobs; rollouts end |
| `txn_concurrent` | `TxnTypeOK`, `SnapshotIsExact`, `ChainIsLinear`, `EveryChangeIsRecorded`, `IsolatedImplementsContract` | overlapping transactions keep the chain linear, the newest snapshot exact and every change recorded; one that nothing overlapped with takes a step of `ReleaseContract`, failing half-way included |
| `txn_two_active` | `OneActiveVersion` (violated) | two overlapping activations leave two active versions |
| `cache` | `TypeOK`, `CacheCatchesUp`, `LkgCatchesUp`, `LkgStays` | neither an outdated manifest nor a deleted workspace's is served for good; only a deletion or a restore takes the outage copy away, and it catches up |
| `publishing` | `NothingForgotten`, `CopiesCatchUp` | the copies show the last change or a publish that will make them is due, up to `lost`; in the end all three agree |
| `client` | `ClientTypeOK`, `OnePollLoop`, `EtagOfWhatIsShown`, `CatchesUp` | one poll loop; with one source and a storage, a 304 is about what is shown up to `lapsed`; the last change reaches the page |
| `approvals` | `TypeOK`, `OneCallRuns`, `QuorumIsNotLost`, `ImplementsContract`, `EveryRequestEnds` | an approved change is run by one call, once, and recorded as it ended; a complete count is not overlooked; nothing stays pending for ever (a request whose replica died stays `executing`, see section 5) |
| `scheduler` | `MadeAtMostOnce`, `OperationsFinish` | at most once, never after a cancellation; every operation ends, by the sweep if need be |
| `membership` | `TypeOK`, `OwnerRemains`, `KeysEndWithMembership` | an owner remains up to `raced`; keys end with what lets their creator in, a seat or the organization |
| `sessions` | `SessionsTypeOK`, `RotationIsLinear`, `EndedStaysEnded`, `CodesWorkOnce` | one live token per family up to `forked`; ended sessions stay ended up to `slipped`; codes work once |
| `audit_stream` | `NothingSkipped`, `EventuallyStreamed` | the cursor passes no readable event that is not delivered, set aside or overwritten; the stream goes on |
| `webhooks` | `NoEventVanishes`, `DeliveriesEnd` | an event is queued, delivered, a letter, or lost in a known way; attempts end |

The type invariants of `Publishing`, `Scheduler`, `AuditStream` and `Webhooks` are not among the
runs' properties: they are theorems (`TypeCorrect` of the proof modules).

`releases` and `txn_concurrent` look at the same operations from two sides: `Releases` and its
proofs take transactions as atomic, and `txn_two_active` shows what is lost when they are not.
`txn_concurrent` shows what holds nevertheless, thanks to the audit lock, and that each
transaction by itself is what `Releases` takes it for.

**Ghosts and exceptions.** Where the code has a gap, the property is stated up to a ghost
variable that names exactly the steps of that gap (`lost`, `raced`, `forked`, `slipped`, `late`,
`overwritten`, `dropped`, `settled`, `lapsed`, `alone`), and the unrestricted statement stands beside it
(section 5). `Membership` has no such variable for keys: they leave the set `keys`, by the steps named above.
A ghost is set only by the gap's own steps, and the mutants show that the properties still
break when the code around it is wrong. So the runs say nothing about the gap itself: of an older
manifest published last, an operation made after the sweep, a token issued after the end, and the
fork of an upgrade, only section 5 and the findings speak.

**Bounds**, and why they are enough to meet the cases:

- `MCReleases`: two environments, one version in the source to promote from and three rows in
  the target: an active version, a canary and a third to deploy, roll back to or collect.
  Three bands give a first, a middle and a promoting step; `KeepVersions = 1` lets collection
  happen; the hand-set percentages 0 and 20 tell "targeting only" from real traffic.
- `TxnConcurrent`: two overlapping transactions (each hazard needs two), three versions and
  three audited changes, enough for a deploy, a canary, and its promotion, or a rollback,
  beside another one. Four changes pass as well, in some minutes.
- `ManifestCache`: two replicas with one change (or deletion, or restore) and one miss each; no counters.
- `Publishing`: one queue worker and one inline publisher, so that two publishes overlap; two
  jobs, one retry, three changes (an older, a newer, one while both are under way).
- `Client`: one change, two changes of user or reloads (so two of `setUserId`'s fetches beside
  load or poll), one outage; pages with a CDN, with the registry and both offline copies, and
  with a bundled copy only. Two changes with two switches pass as well, in some minutes.
- `Approvals`: one request (requests share nothing but the policy), three users of whom one
  owns, two approvals needed, two calls at once.
- `Scheduler`: three operations, two runs, batches of two: a batch with one that waits while
  the other run sweeps.
- `Membership`: two users, two ranks, one proposal, two requests at a time; symmetric.
- `Sessions`: one family of three tokens, one time step, three requests at once (a refresh, an
  upgrade, an end); symmetric. Families share the TOTP step and suspension only.
- `AuditStream`: two events, a batch of two, two failures to a dead letter, one update of the
  sink, one crash, two runs.
- `Webhooks`: one event (events share the endpoint only), two workers, one retry of the
  endpoint and one of the queue, two crashes, one resend.

**Deadlock** is not checked: every model has a state in which nobody need act (all rows
created, no request), and the bounds stop the rest.

**Fairness**, each from what schedules the code:

- `Releases`: `rollout.advance` runs every minute and reads every staged canary, so a canary that
  stays staged is judged again and again and, judged and the environment open, its
  transaction commits; strong fairness, because a freeze, another environment's turn or a
  stale verdict disables both in between. It assumes that the gate does not answer `wait`
  for ever. `RolloutsEnd` asks nothing of an environment that keeps being frozen.
- `ManifestCache`: a process that started goes on until it ends or fails; entries expire
  (`MANIFEST_CACHE_TTL_SECONDS`). That changes and deletions cease and, for the outage copy, that
  hosts go on missing the cache and some builds succeed are premises of the properties.
- `Publishing`: the replica that committed sends or fails, workers poll, a publish or removal
  that started ends or fails. `CopiesCatchUp` has "nothing is lost" and "the workspace stays
  live" as premises.
- `Client`: a request ends, by its timeout if need be, and a timer fires. That sources come up,
  the page stays, changes cease and a page with one source has a storage that works are premises.
- `Approvals`: time passes, the expiry job runs, a call that does not crash goes on. Nobody is
  assumed to decide.
- `Scheduler`: time passes; strong fairness of the sweep and of a claim that finds something,
  since runs overlap and take each other's work; a run that does not die goes on.
- `AuditStream`: runs start every minute and go on. `Webhooks`: a started request, worker and
  resend go on.

Nothing is assumed of operators, hosts or sinks.

Every property of a passing run has a mutant in `PROJECT.json` that makes TLC report it.

## 4. What is proved

Eight modules hold theorems, each for every value of the constants that satisfies the named
assumptions of the component's module: any number of requests, replicas, users, versions, rows
and events, where a run has two or three. Every invariant and every action property of the
passing runs, and every refinement, is a theorem. All follow one scheme: an inductive invariant
(`IInv`; `TxnIInv`, `SessionsIInv`, `ClientIInv`), `Init => IInv`, a lemma per action
`IInv /\ Action => IInv'`, the stutter, and PTL to put them together. An action
property or a refinement is then a statement about one step from a state that satisfies the
invariant.

The assumptions are few: bounds are natural numbers, model values differ (`NoWorker` is no
worker, a user is not called `"nothing"` or `"unchanged"`, which `Client` uses for no manifest and a
304), the schedule of bands is well formed, a policy asks for at least one approval, users are
finitely many, batches are not empty, an owner's rank is above a former owner's. TLC evaluates
them in the runs.

| Theorems | The inductive invariant, and why the property alone is not inductive |
| --- | --- |
| `ReleasesProofs`: `TypeCorrect`, `OneVersion`, `WellFormed`, `Freeze`, `Refinement` | rows beyond `created[e]` do not exist (a deploy writes the next one), fields are coherent row by row (`RowsOK`; advancing indexes `Bands[band + 1]`), one active version and one canary next to it (`OneOfEach`). Each action rewrites one environment's table, so the work is in lemmas about table functions; `TableStep` and `NextStep` carry it to the state, `ContractTableStep` to the contract |
| `DeliveryProofs`, `ManifestCache`: `CacheTypeCorrect`, `LkgIsKept` | a process that writes a copy holds a manifest at that step, so no write takes the copy away; a deletion's or a restore's last step does, and is the exception the theorem names |
| `PublishingProofs`: `TypeCorrect`, `NoChangeIsForgotten` | a publish that works a job has it for itself and the job is active (`JobsOK`), no copy is newer than the last change (`CopiesOK`), changes yet to be sent only of a workspace that has them (`UnsentOK`) |
| `ApprovalsProofs`: `TypeCorrect`, `OneCallRunsARequest`, `ApprovalsAreCounted`, `Refinement` | a call past `Check` is by a user who may decide and did not ask (`CallsOK`), a request's status fits its decisions (`RequestsOK`), whoever runs it claimed it (`RunningOK`), and the decision that completes a count leaves a call at `claim` (`QuorumOK`). `Refinement` maps `Claim`, `Run` and `Settle` to the contract's steps and the others to stutters or decisions |
| `ChangesProofs`, `Scheduler`: `TypeCorrect`, `NoOperationRunsTwice` | what a run claimed is its own until it settles it (`Disjoint`) and was not made before (`RunOK`), also after another run's sweep has failed it |
| `AccessProofs`, `Membership`: `TypeCorrect`, `LastOwnerStays`, `LiveKeysAreOfThoseLetIn` | a plan lowers or removes only owners its check saw, and leaves another (`PlanOK`); the marks of accepted proposals are made (`MarksMade`); each step keeps users with keys let in, also when the seat and the organization's role go apart. The last step counts owners with `FS_*` facts of finite sets |
| `AuditStreamProofs`: `TypeCorrect`, `StreamSkipsNothing` | not only the sink's cursor but every cursor a run still holds has nothing unaccounted behind it (`Passed`, `RunOK`): that is what lets overlapping runs write old cursors; and letters cover their range (`LettersOK`) |
| `WebhooksProofs`: `TypeCorrect`, `EventsAreSomewhere` | an event is accounted for job by job: by a job that has yet to settle it, or by what became of it (`Safe`, `ResendOK`) |
| `ChangesProofs`, `ReleaseTransactions`: `TransactionsTypeCorrect`, `SnapshotsAreExact`, `ChainNeverForks`, `ChangesAreRecorded` | `TxnIInv`, below |
| `ChangesProofs`, `ReleaseTransactions`: `IsolatedRequestsImplementContract`, `SerialRequestsImplementContract` | `TxnIInv` and `IsolatedIInv`, below |
| `AccessProofs`, `Sessions`: `SessionsTypeCorrect`, `OneTokenIsAlive`, `EndedSessionsStayEnded`, `EachCodeWorksOnce` | a request works on a token that was issued, and a sign-in has its family to itself (`RequestOK`); tokens are issued in order, so the next one is free (`IssuedInOrder`); of an ended family that no request slipped through, every token is revoked and no request can still issue one (`EndedOK`); a code above `lastStep` was never accepted (`CodesOK`). `OneAlive` says `RotationIsLinear` without counting |
| `DeliveryProofs`, `Client`: `ClientTypeCorrect`, `PollLoopIsOne`, `EtagIsOfWhatIsShown` | the load is pending exactly while its request runs, and the loop starts only once it succeeded (`LoopOK`); without a CDN every request asks the registry, with nothing else to try (`UrlsOK`); until a write lapses, the stored copy is the manifest of the ETag as well, since a load that fails late falls back to it (`CopiesAgree`) |

**Why the snapshot and the chain hold.** Neither is inductive: a commit writes the numbers it
took and the manifest it built several statements earlier. `TxnIInv` says what a transaction
knows at each statement. `ScriptOK`: what is left of it is the end of its operation's script, so
"one statement left" means that it was audited and built its snapshot. `NumbersOK`: its numbers
continue the committed chain, and who has numbers holds the advisory lock; so at most one
transaction has any, and no other can commit, freeze or number until it ends. `BuiltOK`: what it
built is still the manifest of the rows it sees; only a commit, which needs the lock, or garbage
collection, which touches no served row, could have changed them. `FreshOK`: rows beyond `created`
were never written, so an insert collides with nobody. `ChangesAreRecorded` is then the step:
only a commit changes the manifest.

**Why an isolated request is a step of the contract.** The commit takes the step; the handler
chose what to do statements before. For each operation, `Course` says, by how many statements
are left, what it has read and how the rows it sees differ from the committed ones (nothing yet,
the canary over, no active version, both), and `Outcome` that at the end they differ by exactly
one step of `ReleaseContract`. `IsolatedIInv` claims both for a transaction that is `alone` in a
state the contract allows, and that nothing runs beside it; whoever begins beside it, or
collects, ends the claim. Each statement has a lemma that leads from its place in the script to
the next. `IsolatedRequestsImplementContract` is the property the run checks: step by step, from
any state the contract allows, also one reached through earlier overlaps.
`SerialRequestsImplementContract` adds that the contract's steps stay among those states and
that the initial state is one: if everything that commits was alone, `TxnSpec` implements
`ContractSpec`. Together with `Releases`' own `Refinement` this says what reading transactions
as atomic is worth, and `txn_two_active` what it hides.

Only model-checked: the liveness properties (`RolloutsEnd`, `CacheCatchesUp`, `LkgCatchesUp`,
`CopiesCatchUp`, `CatchesUp`, `EveryRequestEnds`, `OperationsFinish`, `EventuallyStreamed`,
`DeliveriesEnd`), since they rest on fairness and TLAPS reasons about neither fairness nor
ENABLED. The statements of section 5 are refuted by TLC, not proved false.

## 5. Statements that do not hold

What a document, a comment or a test says without exception, stated as a formula that the
models violate. To see a counterexample, add the formula to the configuration named.

| Formula | Kind | Configuration | In the code |
| --- | --- | --- | --- |
| `ReleaseTransactions!OneActiveVersion` | invariant | `TxnTwoActive.cfg` (a run) | two overlapping activations |
| `ReleaseTransactions!FreezeIsRespected` | property | `TxnConcurrent.cfg` | a change that found the environment open commits after a freeze |
| `ReleaseTransactions!ServedIsKept` | invariant | `TxnConcurrent.cfg` | a rollback target is collected between read and write |
| `Releases!JobMovesWhatItJudged` | property | `MCReleases.cfg` | the rollout job moves a canary it did not judge |
| `Releases!AbortedCanaryIsSkipped` | property | `MCReleases.cfg` | an aborted canary that once was active is a rollback target |
| `ManifestCache!NextFetchIsCurrent` | invariant | `ManifestCache.cfg` with `MayFail = FALSE` | a build in flight overwrites what a change has just cached |
| `ManifestCache!DeletedIsGone` | invariant | `ManifestCache.cfg` with `MayFail = FALSE` | a build or change in flight stores a deleted workspace's manifest again |
| `Publishing!DeletedStaysOffline` | property | `Publishing.cfg` | a publish under way puts a deleted workspace's copy back |
| `Client!HealsByItself` | property | `Client.cfg`, for `CatchesUp` | a 304 refreshes a manifest of the other source |
| `Client!HealsWithStorage` | property | `Client.cfg`, for `CatchesUp` | a write to the storage fails, and a late load shows the older copy |
| `Approvals!RejectedNeverRuns` | property | `Approvals.cfg` | an approval claims between a rejection and its status |
| `Membership!AlwaysAnOwner` | invariant | `Membership.cfg` | two owners go at once |
| `Membership!OffboardingRevokes` | property | `Membership.cfg` without `SYMMETRY` | offboarding passes over the keys of an organization admin without a seat |
| `Sessions!EndedMeansEnded` | invariant | `Sessions.cfg` | a refresh in flight issues a token after the end |
| `Scheduler!GivenUpIsOver` | property | `Scheduler.cfg` | an operation swept as interrupted is made afterwards |
| `AuditStream!EveryEventIsStreamed` | invariant | `AuditStream.cfg` | an event commits behind the cursor, or its object is overwritten |
| `Webhooks!PauseKeepsEvents` | property | `Webhooks.cfg` | events that come up while paused are dropped |

`PROJECT.json` lists these as findings with the quoted lines, and eleven more that were met while
modelling and need no formula, among them: a promotion leaves a canary in its target
environment; an overridden organization window hides a second one; the in-memory cache drops
the last known good copy after an hour; a request whose replica died stays `executing` for
good; upgrades fork a session; a failed removal leaves a preview's import map public;
an organization's dead letter is marked before it is queued; a cursor that could not be set
counts as a failed delivery.

## 6. Not modelled, and the plan

Left out of the modules above: artifacts and metadata of versions, the arithmetic of health
gates and freeze windows, the other modules of a workspace, canary variants of the cache, creation
of preview environments, row-level security, health reports and overrides of the SDK,
notification channels, recovery codes and identity providers. `PROJECT.json` gives the reason
for every component left out; most are CRUD with role checks, pure arithmetic over rows,
protocol parsing, or I/O.

Next, most important first:

1. `Approvals` composed with `Releases`: a stored rollback or promote names no version and
   resolves its target when it runs.
2. `Gc` with storage paths: redeploys of an upload whose rows are being purged, preview
   environments that are redeployed while they expire.
3. Canary variants in `ManifestCache`, with the assignment of users.
4. Quotas: counting checks before a write that nothing enforces afterwards.
5. GitOps reconciliation, once the components it writes are composed.
