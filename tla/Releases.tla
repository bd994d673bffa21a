------------------------------- MODULE Releases -------------------------------
(***************************************************************************)
(* The release operations of one remote module, each as the single         *)
(* transaction ManifestMutations.run gives it, and the two jobs (staged    *)
(* rollouts, alerts) that read the state first and change it in a later    *)
(* transaction.  Transactions are atomic here; ReleaseTransactions splits  *)
(* them into the statements PostgreSQL interleaves.                        *)
(*                                                                         *)
(* Abstracted: modules do not share version rows, so one module stands for *)
(* each; the artifact (url, integrity, metadata) of a version; times,      *)
(* except their order: ids grow with deployedAt inside an environment.  A  *)
(* refused request (gate, quota, approval, 404, 409) changes nothing and   *)
(* is no step.                                                             *)
(***************************************************************************)
EXTENDS Naturals, Sequences, FiniteSets

CONSTANTS
    Envs,           \* the environments of the module's host app
    MaxVersions,    \* bound: ids of an environment's version rows are 1..MaxVersions
    Limit,          \* bound: Limit[e] versions are created in e at most
    Percents,       \* the traffic percentages operators set by hand
    Bands,          \* percentages of a staged rollout's bands (all rollouts use this one)
    KeepVersions,   \* gc.softDelete keeps the newest KeepVersions rows
    Freezes         \* Freezes[e]: the freezes e can come under, see Locked

Ids == 1..MaxVersions
Statuses == {"none", "inactive", "active", "canary"}
FreezeModes == {"open", "frozen", "org"}

ASSUME LimitAssumption == MaxVersions \in Nat /\ Limit \in [Envs -> 0..MaxVersions]
(* TrafficPercentSchema, RolloutScheduleSchema: bands increase and end at 100. *)
ASSUME PercentAssumption == Percents \subseteq 0..99
ASSUME BandsAssumption ==
    /\ Bands \in Seq(1..100) /\ Len(Bands) >= 2 /\ Bands[Len(Bands)] = 100
    /\ \A i \in 1..Len(Bands) - 1 : Bands[i] < Bands[i + 1]
ASSUME KeepAssumption == KeepVersions \in Nat
ASSUME FreezeAssumption == Freezes \in [Envs -> {F \in SUBSET FreezeModes : "open" \in F}]

VARIABLES
    versions,   \* versions[e][v]: the ModuleVersion row v of environment e ("none": no row)
    created,    \* created[e]: how many rows were ever created in e
    freeze,     \* freeze[e]: the freeze in force, as isFrozen and activeOrgFreeze judge it
    job,        \* what rollout.advance decided to do next, from rows it read earlier
    alert       \* the auto-rollback alert.evaluate decided on, from earlier health data

vars == <<versions, created, freeze, job, alert>>

(* trafficPercent, targeting and the rollout are null outside a canary: 0, *)
(* FALSE and 0 here.  band is currentBandIndex + 1.                        *)
Row == [status : Statuses, activated : BOOLEAN, deleted : BOOLEAN,
        traffic : 0..99, targeted : BOOLEAN, band : 0..Len(Bands)]

NoRow == [status |-> "none", activated |-> FALSE, deleted |-> FALSE,
          traffic |-> 0, targeted |-> FALSE, band |-> 0]

Idle == [busy |-> FALSE]
JobTasks == [busy : {TRUE}, env : Envs, version : Ids, band : 1..Len(Bands),
             verdict : {"pass", "fail"}]
AlertTasks == [busy : {TRUE}, env : Envs, scope : {"canary", "module"}]

TypeOK ==
    /\ versions \in [Envs -> [Ids -> Row]]
    /\ created \in [Envs -> 0..MaxVersions]
    /\ freeze \in [Envs -> FreezeModes]
    /\ job \in JobTasks \cup {Idle}
    /\ alert \in AlertTasks \cup {Idle}

Init ==
    /\ versions = [e \in Envs |-> [v \in Ids |-> NoRow]]
    /\ created = [e \in Envs |-> 0]
    /\ freeze = [e \in Envs |-> "open"]
    /\ job = Idle
    /\ alert = Idle

--------------------------------------------------------------------------------
(* Reading rows.                                                           *)

Listed(e, s) == {v \in Ids : versions[e][v].status = s /\ ~versions[e][v].deleted}

Active(e) == Listed(e, "active")
Canaries(e) == Listed(e, "canary")

(* "previous": the newest version that was active once and was deployed    *)
(* before the current one.                                                 *)
PreviousCandidates(e) ==
    {v \in Listed(e, "inactive") :
        versions[e][v].activated /\ \A current \in Active(e) : v < current}

Previous(e) ==
    {v \in PreviousCandidates(e) : \A w \in PreviousCandidates(e) : w <= v}

(* Whether a change is refused with 423: an organization's freeze binds    *)
(* everyone, an environment's yields to an owner's override of this change. *)
(* An organization's overridden freeze and a freeze inside its override     *)
(* window lock nothing: they are "open" here.                               *)
Locked(e, override) ==
    \/ freeze[e] = "org"
    \/ freeze[e] = "frozen" /\ ~override

--------------------------------------------------------------------------------
(* Writing rows.  rs is the table of one environment.                      *)

CreateVersion(rs, id, s, traffic, targeted, band) ==
    [rs EXCEPT ![id] = [status |-> s, activated |-> (s = "active"), deleted |-> FALSE,
                        traffic |-> traffic, targeted |-> targeted, band |-> band]]

DeactivateNothing(rs) == rs

DeactivateActive(rs) ==
    [v \in Ids |-> IF rs[v].status = "active" THEN [rs[v] EXCEPT !.status = "inactive"]
                                              ELSE rs[v]]

StopCanaryOnly(rs) ==
    [v \in Ids |-> IF rs[v].status = "canary" THEN [rs[v] EXCEPT !.status = "inactive"]
                                              ELSE rs[v]]

EndCanary(rs) ==
    [v \in Ids |->
        IF rs[v].status = "canary" /\ ~rs[v].deleted
        THEN [rs[v] EXCEPT !.status = "inactive", !.traffic = 0, !.targeted = FALSE, !.band = 0]
        ELSE rs[v]]

MakeActive(rs, v) ==
    [rs EXCEPT ![v] = [@ EXCEPT !.status = "active", !.activated = TRUE, !.traffic = 0,
                                !.targeted = FALSE, !.band = 0]]

AdvancedNeverPromotes(rs, c) ==
    LET next == rs[c].band + 1
    IN  [rs EXCEPT ![c] = [@ EXCEPT !.traffic = Bands[next], !.band = next]]

(* rollout.ts advanceRollout: the next band, or promotion when it is 100%. *)
Advanced(rs, c) ==
    LET next == rs[c].band + 1
    IN  IF Bands[next] = 100
        THEN MakeActive(DeactivateActive(rs), c)
        ELSE [rs EXCEPT ![c] = [@ EXCEPT !.traffic = Bands[next], !.band = next]]

(* The one path of every change: the freeze is checked in the transaction  *)
(* that makes the change.                                                  *)
MutateDespiteFreeze(e, override, rs) == versions' = [versions EXCEPT ![e] = rs]

Mutate(e, override, rs) ==
    /\ ~Locked(e, override)
    /\ versions' = [versions EXCEPT ![e] = rs]

--------------------------------------------------------------------------------
(* Operators' requests (routes/modules.ts).                                *)

(* A normal deploy ends the running canary and replaces the active version. *)
Deploy(e, override) ==
    LET id == created[e] + 1 IN
    /\ created[e] < Limit[e]
    /\ Mutate(e, override,
              CreateVersion(DeactivateActive(EndCanary(versions[e])), id, "active", 0, FALSE, 0))
    /\ created' = [created EXCEPT ![e] = id]
    /\ UNCHANGED <<freeze, job, alert>>

DeployCanaryAlone(e, override, traffic, targeted, band) ==
    LET id == created[e] + 1 IN
    /\ created[e] < Limit[e]
    /\ traffic # 0 \/ targeted
    /\ Mutate(e, override,
              CreateVersion(EndCanary(versions[e]), id, "canary", traffic, targeted, band))
    /\ created' = [created EXCEPT ![e] = id]
    /\ UNCHANGED <<freeze, job, alert>>

(* A canary deploy replaces the running canary and needs an active version. *)
(* The schema asks for a percentage or a schedule, and for targeting rules  *)
(* with 0%.                                                                *)
DeployCanary(e, override, traffic, targeted, band) ==
    LET id == created[e] + 1 IN
    /\ created[e] < Limit[e]
    /\ Active(e) # {}
    /\ traffic # 0 \/ targeted
    /\ Mutate(e, override,
              CreateVersion(EndCanary(versions[e]), id, "canary", traffic, targeted, band))
    /\ created' = [created EXCEPT ![e] = id]
    /\ UNCHANGED <<freeze, job, alert>>

(* startRollout gives a staged canary its first band's percentage.         *)
CanaryPlans ==
    {[traffic |-> p, band |-> 0] : p \in Percents} \cup {[traffic |-> Bands[1], band |-> 1]}

(* deactivateActive, then the target becomes the active version.           *)
Reactivated(rs, v) ==
    [DeactivateActive(rs) EXCEPT ![v] = [@ EXCEPT !.status = "active", !.activated = TRUE]]

(* To a version named by id or by version string, never a canary.          *)
RollbackTo(e, override, v) ==
    /\ v \in Listed(e, "inactive")
    /\ Mutate(e, override, Reactivated(versions[e], v))
    /\ UNCHANGED <<created, freeze, job, alert>>

RollbackToPrevious(e, override) ==
    \E v \in Previous(e) : RollbackTo(e, override, v)

(* Copies a version of another environment (the active one, or any by id). *)
Promote(from, to, override, v) ==
    LET id == created[to] + 1 IN
    /\ from # to
    /\ v \in Active(from) \cup Canaries(from) \cup Listed(from, "inactive")
    /\ created[to] < Limit[to]
    /\ Mutate(to, override,
              CreateVersion(DeactivateActive(versions[to]), id, "active", 0, FALSE, 0))
    /\ created' = [created EXCEPT ![to] = id]
    /\ UNCHANGED <<freeze, job, alert>>

(* Makes an earlier version the canary.                                    *)
StartCanary(e, override, v, traffic, targeted) ==
    /\ v \in Listed(e, "inactive")
    /\ Active(e) # {}
    /\ traffic # 0 \/ targeted
    /\ Mutate(e, override,
              [EndCanary(versions[e]) EXCEPT
                  ![v] = [@ EXCEPT !.status = "canary", !.traffic = traffic,
                                   !.targeted = targeted, !.band = 0]])
    /\ UNCHANGED <<created, freeze, job, alert>>

(* Sets the running canary's traffic, which takes over from a staged       *)
(* rollout, and possibly its targeting.                                    *)
SetTraffic(e, override, v, traffic, targeted) ==
    /\ v \in Canaries(e)
    /\ traffic # 0 \/ targeted
    /\ Mutate(e, override,
              [versions[e] EXCEPT ![v] = [@ EXCEPT !.traffic = traffic, !.targeted = targeted,
                                                   !.band = 0]])
    /\ UNCHANGED <<created, freeze, job, alert>>

(* Targeting alone: a staged rollout goes on.                              *)
SetTargeting(e, override, v, targeted) ==
    /\ v \in Canaries(e)
    /\ versions[e][v].traffic # 0 \/ targeted
    /\ Mutate(e, override, [versions[e] EXCEPT ![v] = [@ EXCEPT !.targeted = targeted]])
    /\ UNCHANGED <<created, freeze, job, alert>>

PromoteCanary(e, override, v) ==
    /\ v \in Canaries(e)
    /\ Mutate(e, override, MakeActive(DeactivateActive(versions[e]), v))
    /\ UNCHANGED <<created, freeze, job, alert>>

AbortCanary(e, override) ==
    /\ Canaries(e) # {}
    /\ Mutate(e, override, EndCanary(versions[e]))
    /\ UNCHANGED <<created, freeze, job, alert>>

(* By hand: the next band now, without the gate.                           *)
AdvanceByHand(e, override, v) ==
    /\ v \in Canaries(e)
    /\ versions[e][v].band # 0
    /\ Mutate(e, override, Advanced(versions[e], v))
    /\ UNCHANGED <<created, freeze, job, alert>>

(* Freezing, unfreezing and override windows, by an admin, an organization *)
(* or the clock.                                                           *)
SetFreeze(e, mode) ==
    /\ freeze' = [freeze EXCEPT ![e] = mode]
    /\ UNCHANGED <<versions, created, job, alert>>

--------------------------------------------------------------------------------
(* rollout.advance (services/rollout.ts).  The job reads the staged        *)
(* canaries, then each one's health since its band began; the change it    *)
(* decides on runs in a transaction of its own.  A gate that waits for     *)
(* samples, and a band that has not run its hold time, leave the job idle. *)

RolloutJudges(e, v, verdict) ==
    /\ job = Idle
    /\ v \in Canaries(e)
    /\ versions[e][v].band # 0
    /\ job' = [busy |-> TRUE, env |-> e, version |-> v, band |-> versions[e][v].band,
               verdict |-> verdict]
    /\ UNCHANGED <<versions, created, freeze, alert>>

RolloutAdvancesFromNextBand(c) ==
    /\ job # Idle /\ job.verdict = "pass"
    /\ c \in Canaries(job.env)
    /\ versions[job.env][c].band = job.band + 1
    /\ Mutate(job.env, FALSE, Advanced(versions[job.env], c))
    /\ job' = Idle
    /\ UNCHANGED <<created, freeze, alert>>

(* advanceRollout: the canary found then, if it is in the expected band.   *)
RolloutAdvances(c) ==
    /\ job # Idle /\ job.verdict = "pass"
    /\ c \in Canaries(job.env)
    /\ versions[job.env][c].band = job.band
    /\ Mutate(job.env, FALSE, Advanced(versions[job.env], c))
    /\ job' = Idle
    /\ UNCHANGED <<created, freeze, alert>>

(* failRollout: the canary that was judged, if it still is in that band.   *)
RolloutFails ==
    /\ job # Idle /\ job.verdict = "fail"
    /\ job.version \in Canaries(job.env)
    /\ versions[job.env][job.version].band = job.band
    /\ Mutate(job.env, FALSE, EndCanary(versions[job.env]))
    /\ job' = Idle
    /\ UNCHANGED <<created, freeze, alert>>

(* Stale, frozen (423), or a crash of the process: the job leaves it for   *)
(* its next run.                                                           *)
RolloutGivesUp ==
    /\ job # Idle
    /\ job' = Idle
    /\ UNCHANGED <<versions, created, freeze, alert>>

--------------------------------------------------------------------------------
(* alert.evaluate (services/alerts.ts): a rule that starts to breach acts  *)
(* on what is released when its transaction runs, not on what it measured. *)

AlertFires(e, scope) ==
    /\ alert = Idle
    /\ alert' = [busy |-> TRUE, env |-> e, scope |-> scope]
    /\ UNCHANGED <<versions, created, freeze, job>>

AlertAbortsCanary ==
    /\ alert # Idle
    /\ Canaries(alert.env) # {}
    /\ Mutate(alert.env, FALSE, EndCanary(versions[alert.env]))
    /\ alert' = Idle
    /\ UNCHANGED <<created, freeze, job>>

AlertRollsBack(v) ==
    /\ alert # Idle /\ alert.scope = "module"
    /\ Canaries(alert.env) = {} /\ Active(alert.env) # {}
    /\ v \in Previous(alert.env)
    /\ Mutate(alert.env, FALSE, Reactivated(versions[alert.env], v))
    /\ alert' = Idle
    /\ UNCHANGED <<created, freeze, job>>

AlertGivesUp ==
    /\ alert # Idle
    /\ alert' = Idle
    /\ UNCHANGED <<versions, created, freeze, job>>

--------------------------------------------------------------------------------
(* Garbage collection (jobs/gc.ts).                                        *)

Existing(e) == {v \in Ids : versions[e][v].status # "none" /\ ~versions[e][v].deleted}

(* gc.softDelete, one UPDATE: inactive rows deployed before the retention  *)
(* cutoff that are not among the newest KeepVersions.                      *)
SoftDeletable(e, cutoff) ==
    {v \in Listed(e, "inactive") :
        v < cutoff /\ Cardinality({w \in Existing(e) : w > v}) >= KeepVersions}

SoftDelete(e, cutoff) ==
    /\ SoftDeletable(e, cutoff) # {}
    /\ versions' = [versions EXCEPT ![e] = [v \in Ids |->
            [versions[e][v] EXCEPT !.deleted = @ \/ v \in SoftDeletable(e, cutoff)]]]
    /\ UNCHANGED <<created, freeze, job, alert>>

(* gc.hardDelete: rows soft-deleted more than a week ago.                  *)
HardDelete(e, v) ==
    /\ versions[e][v].deleted
    /\ versions[e][v].status \notin {"active", "canary"}
    /\ versions' = [versions EXCEPT ![e][v] = NoRow]
    /\ UNCHANGED <<created, freeze, job, alert>>

--------------------------------------------------------------------------------
Operator(e, override) ==
    \/ Deploy(e, override)
    \/ \E plan \in CanaryPlans, targeted \in BOOLEAN :
            DeployCanary(e, override, plan.traffic, targeted, plan.band)
    \/ RollbackToPrevious(e, override)
    \/ AbortCanary(e, override)
    \/ \E v \in Ids :
        \/ RollbackTo(e, override, v)
        \/ \E from \in Envs : Promote(from, e, override, v)
        \/ PromoteCanary(e, override, v)
        \/ AdvanceByHand(e, override, v)
        \/ \E targeted \in BOOLEAN :
            \/ SetTargeting(e, override, v, targeted)
            \/ \E traffic \in Percents :
                \/ StartCanary(e, override, v, traffic, targeted)
                \/ SetTraffic(e, override, v, traffic, targeted)

RolloutJob ==
    \/ \E e \in Envs, v \in Ids, verdict \in {"pass", "fail"} : RolloutJudges(e, v, verdict)
    \/ \E c \in Ids : RolloutAdvances(c)
    \/ RolloutFails
    \/ RolloutGivesUp

AlertJob ==
    \/ \E e \in Envs, scope \in {"canary", "module"} : AlertFires(e, scope)
    \/ AlertAbortsCanary
    \/ \E v \in Ids : AlertRollsBack(v)
    \/ AlertGivesUp

Next ==
    \/ \E e \in Envs, override \in BOOLEAN : Operator(e, override)
    \/ \E e \in Envs : \E mode \in Freezes[e] : SetFreeze(e, mode)
    \/ \E e \in Envs, v \in Ids : SoftDelete(e, v) \/ HardDelete(e, v)
    \/ RolloutJob
    \/ AlertJob

Spec == Init /\ [][Next]_vars

(* The job runs every minute and takes up every staged canary; once its    *)
(* gate has samples enough to judge, its transaction commits.              *)
RolloutActs == (\E c \in Ids : RolloutAdvances(c)) \/ RolloutFails

FairSpec ==
    /\ Spec
    /\ \A e \in Envs :
        /\ SF_vars(\E v \in Ids, verdict \in {"pass", "fail"} : RolloutJudges(e, v, verdict))
        /\ SF_vars(RolloutActs /\ job.env = e)
    /\ WF_vars(RolloutGivesUp)

--------------------------------------------------------------------------------
(* Properties.                                                             *)

(* VER-03, CAN-01: in an environment at most one version is active and at  *)
(* most one is a canary; a canary runs next to an active version; and what *)
(* is live has not been garbage collected.                                 *)
OneActive ==
    \A e \in Envs : \A v, w \in Ids :
        versions[e][v].status = "active" /\ versions[e][w].status = "active" => v = w

OneCanary ==
    \A e \in Envs : \A v, w \in Ids :
        versions[e][v].status = "canary" /\ versions[e][w].status = "canary" => v = w

CanaryNextToActive ==
    \A e \in Envs : Canaries(e) # {} => Active(e) # {}

LiveIsKept ==
    \A e \in Envs : \A v \in Ids :
        versions[e][v].status \in {"active", "canary"} => ~versions[e][v].deleted

OneVersionEach == OneActive /\ OneCanary /\ CanaryNextToActive /\ LiveIsKept

(* Every way a canary starts, changes and ends (by hand, by schedule, by   *)
(* alert) leaves its fields coherent: only a canary has traffic, targeting *)
(* or a rollout; it reaches somebody; and a staged one serves its band's   *)
(* percentage and always has a next band to move to (rollout.ts reads      *)
(* bands[currentBandIndex + 1] without checking).                          *)
CanaryWellFormed ==
    \A e \in Envs : \A v \in Ids :
        LET r == versions[e][v] IN
        /\ r.status # "canary" => r.traffic = 0 /\ ~r.targeted /\ r.band = 0
        /\ r.status = "canary" => r.traffic # 0 \/ r.targeted
        /\ r.band # 0 => r.band < Len(Bands) /\ r.traffic = Bands[r.band]

(* What hosts are served in e.                                             *)
Served(e) == {<<v, versions[e][v]>> : v \in Active(e) \cup Canaries(e)}

(* ENV-FRZ-01, POL-05: under an organization's freeze nobody changes what  *)
(* an environment serves, and under the environment's own freeze neither   *)
(* job does, whatever it had decided before the freeze.                    *)
FreezeHolds ==
    [][\A e \in Envs :
        \/ freeze[e] = "org"
        \/ freeze[e] = "frozen" /\ (job' # job \/ alert' # alert)
        => Served(e)' = Served(e)]_vars

(* The operations and jobs together implement the contract: whichever      *)
(* order they run in, an environment that has a stable version keeps one,  *)
(* and stable and canary versions change only as the contract says.        *)
Contract == INSTANCE ReleaseContract
    WITH stable <- [e \in Envs |-> Active(e)], canary <- [e \in Envs |-> Canaries(e)]

ImplementsContract == Contract!ContractSpec

(* STG-02..04: no staged rollout is stranded: unless its environment keeps *)
(* being frozen, it ends in promotion, abort or manual traffic.            *)
Staged(e) == \E v \in Canaries(e) : versions[e][v].band # 0

RolloutsEnd ==
    \A e \in Envs : <>[](freeze[e] = "open") => []<>~Staged(e)

(* rollout.ts:206, progressive-delivery.md: "Each gate check covers the    *)
(* loads of the band that just ran": the job moves on only the canary      *)
(* whose loads it judged.                                                  *)
JobMovesWhatItJudged ==
    [][\A e \in Envs : \A v \in Canaries(e) :
        job # Idle /\ job' = Idle /\ versions'[e][v] # versions[e][v] => v = job.version]_vars

(* schema.prisma:236, of activatedAt: "Never set for a canary that was     *)
(* aborted, so \"roll back to the previous version\" skips it."            *)
AbortedCanaryIsSkipped ==
    [][\A e \in Envs : \A v \in Canaries(e) :
        versions'[e][v].status = "inactive" => ~versions'[e][v].activated]_vars
================================================================================
