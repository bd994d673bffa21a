-------------------------- MODULE ReleaseTransactions --------------------------
(***************************************************************************)
(* The release operations of one module in one environment, statement by   *)
(* statement, as PostgreSQL interleaves the requests of several users,     *)
(* replicas and jobs.  Transactions run at READ COMMITTED (withTenant asks *)
(* for no other level): each statement sees what is committed when it      *)
(* starts, plus its own transaction's writes; an UPDATE waits for a row    *)
(* another transaction has written and then works on what was committed.   *)
(* Nothing locks what a transaction only reads, and no unique index bounds *)
(* the active versions.                                                    *)
(*                                                                         *)
(* The audit event of every change takes the workspace's advisory lock     *)
(* (the trigger of the audit chain) and keeps it until the commit; the     *)
(* snapshot of the manifest is built under it.                             *)
(*                                                                         *)
(* Abstracted: a canary's traffic, rollout and targeting (see Releases);   *)
(* reads of one handler with no write between them are one step.           *)
(***************************************************************************)
EXTENDS Naturals, Sequences, FiniteSets

CONSTANTS
    Workers,        \* requests and jobs running at the same time
    NoWorker,
    MaxVersions,    \* bound: versions created in the environment
    MaxEvents,      \* bound: audited changes
    KeepVersions,   \* gc.softDelete keeps the newest KeepVersions rows
    Overrides       \* whether owners override freezes: {FALSE} or BOOLEAN

ASSUME BoundAssumption ==
    /\ NoWorker \notin Workers
    /\ MaxVersions \in Nat /\ MaxEvents \in Nat /\ KeepVersions \in Nat
    /\ Overrides \in {{FALSE}, BOOLEAN}

Ids == 1..MaxVersions
KillSwitch == 0     \* the module's ModuleEnvState row, beside its version rows
RowIds == Ids \cup {KillSwitch}

VARIABLES
    rows,       \* the committed rows
    created,    \* how many version rows were inserted, committed or not
    frozen,     \* the environment's freeze, as isFrozen judges the committed row
    tx,         \* tx[w]: the transaction w runs
    auditLock,  \* the transaction that holds the workspace's advisory lock
    chain,      \* the chainSeq values of the committed audit events, in commit order
    snapshot    \* the newest committed ManifestSnapshot

txnVars == <<rows, created, frozen, tx, auditLock, chain, snapshot>>

Statuses == {"none", "inactive", "active", "canary", "on", "off"}
Row == [status : Statuses, activated : BOOLEAN, deleted : BOOLEAN]
NewRow(s) == [status |-> s, activated |-> (s = "active"), deleted |-> FALSE]

(* What buildManifest reads of the rows: the live versions, and whether    *)
(* the module is switched off.                                             *)
Manifest(rs) ==
    {<<v, rs[v].status>> : v \in {u \in DOMAIN rs :
        rs[u].status \in {"active", "canary", "off"} /\ ~rs[u].deleted}}

(* The statements of each operation between the freeze check and the audit *)
(* event, in the order of the handler in routes/modules.ts (or of          *)
(* failRollout, autoRollback).                                             *)
Program == [
    deploy        |-> <<"findCanary", "endCanary", "scanActive", "deactivate", "insertActive">>,
    deployCanary  |-> <<"needActive", "findCanary", "endCanary", "insertCanary">>,
    rollback      |-> <<"findTarget", "scanActive", "deactivate", "makeActive">>,
    promote       |-> <<"scanActive", "deactivate", "insertActive">>,
    startCanary   |-> <<"findEarlier", "needActive", "findCanary", "endCanary", "makeCanary">>,
    promoteCanary |-> <<"targetCanary", "scanActive", "deactivate", "makeActive">>,
    abortCanary   |-> <<"runningCanary", "endCanary">>,
    jobAbort      |-> <<"needCanary", "findCanary", "endCanary">>,
    killSwitch    |-> <<"toggle">>]

Recorded == <<"audit", "snapshot", "commit">>

NoTx == [op |-> "none", override |-> FALSE, todo |-> <<>>, target |-> 0, canary |-> 0,
         actives |-> {}, writes |-> <<>>, seqs |-> <<>>, built |-> {}, alone |-> TRUE]

(* Of running transactions: something else runs or commits beside them.    *)
Overlapped(txs) ==
    [w \in Workers |-> IF txs[w].op = "none" THEN txs[w] ELSE [txs[w] EXCEPT !.alone = FALSE]]

TxnTypeOK ==
    /\ rows \in [RowIds -> Row]
    /\ created \in 0..MaxVersions
    /\ frozen \in BOOLEAN
    /\ \A w \in Workers :
        /\ tx[w].op \in DOMAIN Program \cup {"none"}
        /\ tx[w].target \in 0..MaxVersions /\ tx[w].canary \in 0..MaxVersions
        /\ tx[w].actives \subseteq Ids
        /\ DOMAIN tx[w].writes \subseteq RowIds
        /\ \A v \in DOMAIN tx[w].writes : tx[w].writes[v] \in Row
        /\ tx[w].seqs # <<>> => auditLock = w
    /\ auditLock \in Workers \cup {NoWorker}
    /\ chain \in Seq(Nat)

TxnInit ==
    /\ rows = [v \in RowIds |-> NewRow(IF v = KillSwitch THEN "on" ELSE "none")]
    /\ created = 0
    /\ frozen = FALSE
    /\ tx = [w \in Workers |-> NoTx]
    /\ auditLock = NoWorker
    /\ chain = <<>>
    /\ snapshot = {}

--------------------------------------------------------------------------------
(* Statements.                                                             *)

(* Rows, with these written over them.                                     *)
Over(new, old) ==
    [v \in DOMAIN new \cup DOMAIN old |-> IF v \in DOMAIN new THEN new[v] ELSE old[v]]

(* What a statement of w reads.                                            *)
View(w) == Over(tx[w].writes, rows)

Seen(w, s) == {v \in Ids : View(w)[v].status = s /\ ~View(w)[v].deleted}

(* findFirst: any of them, 0 when there is none.                           *)
First(S) == IF S = {} THEN {0} ELSE S

LockedByOther(w, v) == \E u \in Workers \ {w} : v \in DOMAIN tx[u].writes

(* w runs s, the next statement of its program, which leaves its           *)
(* transaction as t; only the last one changes what is committed.          *)
Run(w, s, t) ==
    /\ tx[w].todo # <<>> /\ Head(tx[w].todo) = s
    /\ tx' = [tx EXCEPT ![w] = [t EXCEPT !.todo = Tail(tx[w].todo)]]

Find(w, s, t) == Run(w, s, t) /\ UNCHANGED <<rows, created, frozen, auditLock, chain, snapshot>>

(* UPDATE ... WHERE id = v: waits for the row, then writes it whatever it  *)
(* has become.                                                             *)
Update(w, s, v, row) ==
    /\ ~LockedByOther(w, v)
    /\ Find(w, s, [tx[w] EXCEPT !.writes = Over([u \in {v} |-> row], @)])

--------------------------------------------------------------------------------
(* ManifestMutations.runInTransaction: the transaction opens, and the      *)
(* freeze is read in it.  Environment freezes yield to an owner's          *)
(* override, which is audited first; the kill switch ignores them.         *)
Begin(w, op, override) ==
    /\ tx[w] = NoTx
    /\ Len(chain) < MaxEvents
    /\ frozen => override \/ op = "killSwitch"
    /\ LET overridden == frozen /\ op # "killSwitch" IN
       tx' = [Overlapped(tx) EXCEPT ![w] = [NoTx EXCEPT
                !.op = op,
                !.alone = \A u \in Workers : tx[u] = NoTx,
                !.override = overridden,
                !.todo = (IF overridden THEN <<"auditOverride">> ELSE <<>>)
                         \o Program[op] \o Recorded]]
    /\ UNCHANGED <<rows, created, frozen, auditLock, chain, snapshot>>

NeedActive(w) == Seen(w, "active") # {} /\ Find(w, "needActive", tx[w])

NeedCanary(w) == Seen(w, "canary") # {} /\ Find(w, "needCanary", tx[w])

(* endCanary first reads the running canary, if any ...                    *)
FindCanary(w) ==
    \E v \in First(Seen(w, "canary")) : Find(w, "findCanary", [tx[w] EXCEPT !.canary = v])

(* ... the abort route gives up when there was none ...                    *)
RunningCanary(w) ==
    \E v \in Seen(w, "canary") : Find(w, "runningCanary", [tx[w] EXCEPT !.canary = v])

EndCanaryStillRunning(w) ==
    LET v == tx[w].canary IN
    Update(w, "endCanary", v, [View(w)[v] EXCEPT !.status = "canary"])

(* ... then ends it by its id.                                             *)
EndCanary(w) ==
    LET v == tx[w].canary IN
    IF v = 0 THEN Find(w, "endCanary", tx[w])
    ELSE Update(w, "endCanary", v, [View(w)[v] EXCEPT !.status = "inactive"])

(* Rollback, by id, by version string or to the previous version.          *)
FindTarget(w) ==
    \E v \in Seen(w, "inactive") : Find(w, "findTarget", [tx[w] EXCEPT !.target = v])

(* A version to start as the canary: neither active nor the canary found.  *)
FindEarlier(w) ==
    \E current \in First(Seen(w, "canary")) :
        \E v \in (Seen(w, "inactive") \cup Seen(w, "canary")) \ {current} :
            Find(w, "findEarlier", [tx[w] EXCEPT !.target = v])

(* The canary to promote.                                                  *)
TargetCanary(w) ==
    \E v \in Seen(w, "canary") : Find(w, "targetCanary", [tx[w] EXCEPT !.target = v])

(* deactivateActive, one UPDATE ... WHERE status = 'active': it sees the   *)
(* active rows when it starts, ...                                         *)
ScanActive(w) ==
    Find(w, "scanActive",
         [tx[w] EXCEPT !.actives = {v \in Ids : View(w)[v].status = "active"}])

(* ... waits for each of them and writes those that still are active.      *)
Deactivate(w) ==
    LET still == {v \in tx[w].actives : View(w)[v].status = "active"} IN
    /\ \A v \in tx[w].actives : ~LockedByOther(w, v)
    /\ Find(w, "deactivate",
            [tx[w] EXCEPT !.writes =
                Over([v \in still |-> [View(w)[v] EXCEPT !.status = "inactive"]], @)])

Insert(w, s, status) ==
    /\ created < MaxVersions
    /\ created' = created + 1
    /\ Run(w, s, [tx[w] EXCEPT !.writes = Over([v \in {created'} |-> NewRow(status)], @)])
    /\ UNCHANGED <<rows, frozen, auditLock, chain, snapshot>>

InsertActive(w) == Insert(w, "insertActive", "active")
InsertCanary(w) == Insert(w, "insertCanary", "canary")

MakeActive(w) ==
    LET v == tx[w].target IN
    Update(w, "makeActive", v, [View(w)[v] EXCEPT !.status = "active", !.activated = TRUE])

MakeCanary(w) ==
    LET v == tx[w].target IN
    Update(w, "makeCanary", v, [View(w)[v] EXCEPT !.status = "canary"])

(* The kill switch: the module is left out of the manifest, or again in it. *)
Toggle(w) ==
    \E s \in {"on", "off"} :
        Update(w, "toggle", KillSwitch, [View(w)[KillSwitch] EXCEPT !.status = s])

--------------------------------------------------------------------------------
(* What makes a change complete.                                           *)

NumbersSeen(w) == {chain[i] : i \in 1..Len(chain)}
                  \cup {tx[w].seqs[i] : i \in 1..Len(tx[w].seqs)} \cup {0}

NextNumber(w) == 1 + CHOOSE n \in NumbersSeen(w) : \A m \in NumbersSeen(w) : m <= n

InsertAuditUnlocked(w, s) ==
    /\ Run(w, s, [tx[w] EXCEPT !.seqs = Append(@, NextNumber(w))])
    /\ UNCHANGED <<rows, created, frozen, auditLock, chain, snapshot>>

(* The trigger harmoniq_audit_chain takes the workspace's lock, which the  *)
(* transaction keeps, and numbers the event after the last one it sees.    *)
InsertAudit(w, s) ==
    /\ auditLock \in {NoWorker, w}
    /\ auditLock' = w
    /\ Run(w, s, [tx[w] EXCEPT !.seqs = Append(@, NextNumber(w))])
    /\ UNCHANGED <<rows, created, frozen, chain, snapshot>>

AuditOverride(w) == InsertAudit(w, "auditOverride")
Audit(w) == InsertAudit(w, "audit")

SnapshotOutsideTransaction(w) ==
    Find(w, "snapshot", [tx[w] EXCEPT !.built = Manifest(rows)])

Snapshot(w) == Find(w, "snapshot", [tx[w] EXCEPT !.built = Manifest(View(w))])

Release(w) == auditLock' = IF auditLock = w THEN NoWorker ELSE auditLock

Commit(w) ==
    /\ tx[w].todo = <<"commit">>
    /\ rows' = View(w)
    /\ chain' = chain \o tx[w].seqs
    /\ snapshot' = tx[w].built
    /\ Release(w)
    /\ tx' = [tx EXCEPT ![w] = NoTx]
    /\ UNCHANGED <<created, frozen>>

(* A refusal (404, 409, a failed gate), an error, a deadlock that          *)
(* PostgreSQL breaks, or a crash: nothing of the transaction remains.      *)
Abort(w) ==
    /\ tx[w] # NoTx
    /\ Release(w)
    /\ tx' = [tx EXCEPT ![w] = NoTx]
    /\ UNCHANGED <<rows, created, frozen, chain, snapshot>>

--------------------------------------------------------------------------------
(* The environment's other writers.                                        *)

(* Freezing and unfreezing, with its audit event, in one transaction that  *)
(* touches no version row.                                                 *)
SetFreeze(on) ==
    /\ auditLock = NoWorker
    /\ Len(chain) < MaxEvents
    /\ frozen' = on
    /\ chain' = Append(chain, Len(chain) + 1)
    /\ UNCHANGED <<rows, created, tx, auditLock, snapshot>>

SoftDeleteAnyStatus(v) ==
    /\ rows[v].status # "none" /\ ~rows[v].deleted
    /\ ~\E w \in Workers : v \in DOMAIN tx[w].writes
    /\ Cardinality({u \in Ids : u > v /\ rows[u].status # "none" /\ ~rows[u].deleted})
        >= KeepVersions
    /\ rows' = [rows EXCEPT ![v].deleted = TRUE]
    /\ tx' = Overlapped(tx)
    /\ UNCHANGED <<created, frozen, auditLock, chain, snapshot>>

(* gc.softDelete, row by row: it waits for a row another transaction has   *)
(* written and skips it if it is not inactive any more.                    *)
SoftDelete(v) ==
    /\ rows[v].status = "inactive" /\ ~rows[v].deleted
    /\ ~\E w \in Workers : v \in DOMAIN tx[w].writes
    /\ Cardinality({u \in Ids : u > v /\ rows[u].status # "none" /\ ~rows[u].deleted})
        >= KeepVersions
    /\ rows' = [rows EXCEPT ![v].deleted = TRUE]
    /\ tx' = Overlapped(tx)
    /\ UNCHANGED <<created, frozen, auditLock, chain, snapshot>>

--------------------------------------------------------------------------------
Statement(w) ==
    \/ NeedActive(w) \/ NeedCanary(w)
    \/ FindCanary(w) \/ RunningCanary(w) \/ EndCanary(w)
    \/ FindTarget(w) \/ FindEarlier(w) \/ TargetCanary(w)
    \/ ScanActive(w) \/ Deactivate(w)
    \/ InsertActive(w) \/ InsertCanary(w) \/ MakeActive(w) \/ MakeCanary(w)
    \/ Toggle(w)
    \/ AuditOverride(w) \/ Audit(w) \/ Snapshot(w)

TxnNext ==
    \/ \E w \in Workers :
        \/ \E op \in DOMAIN Program, override \in Overrides : Begin(w, op, override)
        \/ Statement(w)
        \/ Commit(w)
        \/ Abort(w)
    \/ \E on \in BOOLEAN : SetFreeze(on)
    \/ \E v \in Ids : SoftDelete(v)

TxnSpec == TxnInit /\ [][TxnNext]_txnVars

--------------------------------------------------------------------------------
(* Properties.                                                             *)

(* SNAP-01, SNAP-03: "the exact manifest after a change".  The newest      *)
(* snapshot is what the committed rows give, however transactions overlap, *)
(* also after one of them failed.                                          *)
SnapshotIsExact == snapshot = Manifest(rows)

(* "The advisory lock serializes inserts of a scope, so concurrent writers *)
(* can't fork the chain" (20261012180000_audit_hash_chain/migration.sql):  *)
(* numbers are consecutive in the order of the commits, with none missing  *)
(* after an abort.                                                         *)
ChainIsLinear == \A i \in 1..Len(chain) : chain[i] = i

(* AUD-01, SNAP-01: nothing changes the manifest without an audit event    *)
(* and a snapshot in the same commit; garbage collection, which has        *)
(* neither, never changes it.                                              *)
EveryChangeIsRecorded ==
    [][Manifest(rows') # Manifest(rows) =>
           Len(chain') > Len(chain) /\ snapshot' = Manifest(rows')]_txnVars

(* Isolated, the statements of each operation add up to a step of          *)
(* ReleaseContract, also when any of them is refused or fails half-way:    *)
(* from a state the contract allows, which overlapping requests may have   *)
(* left behind, only a transaction that overlapped with another one, or    *)
(* with garbage collection, takes a step the contract does not have.       *)
Committed(s) == {v \in Ids : rows[v].status = s /\ ~rows[v].deleted}

Contract == INSTANCE ReleaseContract
    WITH Envs <- {"environment"},
         stable <- [e \in {"environment"} |-> Committed("active")],
         canary <- [e \in {"environment"} |-> Committed("canary")]

Allowed ==
    /\ Cardinality(Committed("active")) <= 1 /\ Cardinality(Committed("canary")) <= 1
    /\ Committed("canary") # {} => Committed("active") # {}

Commits(w) == tx[w].todo = <<"commit">> /\ tx'[w] = NoTx

IsolatedImplementsContract ==
    [][(Allowed /\ \A w \in Workers : Commits(w) => tx[w].alone)
            => [Contract!ContractNext]_(Contract!contractVars)]_txnVars

(* services/modules.ts:70, VER-03: "exactly one non-canary active version  *)
(* per module + environment".                                              *)
OneActiveVersion ==
    \A v, w \in Ids : rows[v].status = "active" /\ rows[w].status = "active" => v = w

(* manifestMutation.ts:100, ENV-FRZ-02: the freeze is "Read inside the     *)
(* transaction so a concurrent freeze can't slip past": once a freeze is   *)
(* committed, only an override or the kill switch changes the manifest.    *)
FreezeIsRespected ==
    [][frozen /\ Manifest(rows') # Manifest(rows) =>
           \E w \in Workers : Commits(w) /\ (tx[w].override \/ tx[w].op = "killSwitch")]_txnVars

(* docs/requirements.md:229, GC-06: "GC MUST never process a version with  *)
(* status active or canary": what is served has not been collected.        *)
ServedIsKept == \A v \in Ids : rows[v].status \in {"active", "canary"} => ~rows[v].deleted
================================================================================
