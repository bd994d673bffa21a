----------------------------- MODULE ChangesProofs -----------------------------
(***************************************************************************)
(* Proofs about changes that run beside each other: Scheduler, for any     *)
(* operations, overlapping runs and batch, and ReleaseTransactions, for    *)
(* any number of requests, versions and events.  They share no state; the  *)
(* theorems of each speak of its specification only.                       *)
(***************************************************************************)
EXTENDS Scheduler, ReleaseTransactions, FiniteSetTheorems, SequenceTheorems, TLAPS

(***************************************************************************)
(* Scheduler.                                                              *)
(***************************************************************************)

USE BatchAssumption, OperationsAssumption

RunTypes == [step : {"idle", "claim", "call", "succeeded", "refused"},
             todo : SUBSET Operations, op : Operations \cup {"none"}]

Called(r) == run[r].step \in {"succeeded", "refused"}

(* What a run has claimed is its own until it settles it: it is running,   *)
(* or was given up; it was made only if the run has just made it.          *)
RunOK(r) ==
    /\ run[r].step \in {"idle", "claim"} => run[r].todo = {}
    /\ Called(r) => run[r].op \in run[r].todo
    /\ \A o \in run[r].todo : status[o] \in {"running", "failed"}
    /\ \A o \in run[r].todo :
         effects[o] = IF run[r].step = "succeeded" /\ run[r].op = o THEN 1 ELSE 0

Disjoint == \A r, q \in Runs : r # q => run[r].todo \cap run[q].todo = {}

IInv ==
    /\ TypeOK
    /\ \A r \in Runs : RunOK(r)
    /\ Disjoint
    /\ MadeAtMostOnce

LEMMA IdleTyped == Idle \in RunTypes
  BY DEF Idle, RunTypes

LEMMA InitOK == Init => IInv
  <1> SUFFICES ASSUME Init PROVE IInv
    OBVIOUS
  <1>1. TypeOK
    BY IdleTyped DEF Init, TypeOK, RunTypes, Finished
  <1>2. \A r \in Runs : run[r].todo = {} /\ run[r].step = "idle"
    BY DEF Init, Idle
  <1> QED
    BY <1>1, <1>2 DEF Init, IInv, RunOK, Called, Disjoint, MadeAtMostOnce

(* What is not claimed by a run is not seen by it.                         *)
LEMMA RunStays ==
    ASSUME IInv, NEW r \in Runs, run'[r] = run[r],
           \A o \in run[r].todo : /\ status'[o] \in {"running", "failed"}
                                  /\ effects'[o] = effects[o]
    PROVE  RunOK(r)'
  BY DEF IInv, RunOK, Called

--------------------------------------------------------------------------------
(* Users and time: no run has claimed what they change.                    *)
LEMMA UsersOK ==
    ASSUME IInv, NEW o \in Operations,
           Create(o) \/ Cancel(o) \/ FallsDue(o) \/ GetsStale(o)
    PROVE  IInv'
  <1>1. UNCHANGED <<run, effects>>
    BY DEF Create, Cancel, FallsDue, GetsStale
  <1>2. \/ status' = status
        \/ /\ status[o] \in {"none", "pending"}
           /\ \E s \in {"pending", "cancelled"} : status' = [status EXCEPT ![o] = s]
    BY DEF Create, Cancel, FallsDue, GetsStale
  <1>3. due' \subseteq Operations /\ stale' \subseteq Operations
    BY DEF Create, Cancel, FallsDue, GetsStale, IInv, TypeOK
  <1>4. status' \in [Operations -> {"none", "pending", "running"} \cup Finished]
    BY <1>2 DEF IInv, TypeOK, Finished
  <1>5. TypeOK'
    BY <1>1, <1>3, <1>4 DEF IInv, TypeOK
  <1>6. ASSUME NEW r \in Runs PROVE RunOK(r)'
    <2>1. \A x \in run[r].todo : x \in Operations /\ status[x] \in {"running", "failed"}
      BY DEF IInv, RunOK, TypeOK
    <2>2. \A x \in run[r].todo : status'[x] \in {"running", "failed"}
      BY <1>2, <2>1 DEF IInv, TypeOK
    <2> QED
      BY <1>1, <2>2, RunStays
  <1>7. MadeAtMostOnce'
    BY <1>1, <1>2 DEF IInv, TypeOK, MadeAtMostOnce
  <1> QED
    BY <1>1, <1>5, <1>6, <1>7 DEF IInv, Disjoint

--------------------------------------------------------------------------------
LEMMA SweepOK ==
    ASSUME IInv, NEW r \in Runs, Sweep(r)
    PROVE  IInv'
  <1> DEFINE now == [Idle EXCEPT !.step = "claim"]
  <1>1. now \in RunTypes /\ now.todo = {} /\ now.step = "claim"
    BY DEF Idle, RunTypes
  <1>2. run' = [run EXCEPT ![r] = now] /\ effects' = effects
    BY DEF Sweep, IInv, TypeOK
  <1> HIDE DEF now
  <1>3. \A o \in Operations : status'[o] = status[o]
                              \/ (status[o] = "running" /\ status'[o] = "failed")
    BY DEF Sweep
  <1>4. status' \in [Operations -> {"none", "pending", "running"} \cup Finished]
    BY DEF Sweep, IInv, TypeOK, Finished
  <1>5. TypeOK'
    BY <1>1, <1>2, <1>4 DEF IInv, TypeOK, RunTypes, Sweep
  <1>6. run'[r] = now /\ \A q \in Runs : q # r => run'[q] = run[q]
    BY <1>2 DEF IInv, TypeOK
  <1>7. RunOK(r)'
    BY <1>1, <1>6 DEF RunOK, Called
  <1>8. ASSUME NEW q \in Runs, q # r PROVE RunOK(q)'
    <2>1. \A o \in run[q].todo : o \in Operations /\ status[o] \in {"running", "failed"}
      BY DEF IInv, RunOK, TypeOK
    <2> QED
      BY <1>2, <1>3, <1>6, <1>8, <2>1, RunStays
  <1>9. Disjoint'
    BY <1>1, <1>6 DEF IInv, Disjoint
  <1>10. MadeAtMostOnce'
    BY <1>2, <1>3 DEF IInv, MadeAtMostOnce
  <1> QED
    BY <1>5, <1>7, <1>8, <1>9, <1>10 DEF IInv

(* What is pending is in no run's hands.                                   *)
LEMMA ClaimDueOK ==
    ASSUME IInv, NEW r \in Runs, ClaimDue(r)
    PROVE  IInv'
  <1>1. PICK taken \in SUBSET Claimable :
          /\ run[r].step = "claim"
          /\ status' = [o \in Operations |-> IF o \in taken THEN "running" ELSE status[o]]
          /\ run' = [run EXCEPT ![r] = IF taken = {} THEN Idle
                                       ELSE [step |-> "call", todo |-> taken, op |-> "none"]]
          /\ UNCHANGED <<due, stale, effects>>
    BY DEF ClaimDue
  <1>2. taken \subseteq Operations /\ \A o \in taken : status[o] = "pending" /\ effects[o] = 0
    BY DEF Claimable, IInv, TypeOK, MadeAtMostOnce
  <1> DEFINE now == IF taken = {} THEN Idle
                    ELSE [step |-> "call", todo |-> taken, op |-> "none"]
  <1>3. now \in RunTypes /\ now.todo = taken /\ now.step \in {"idle", "call"}
        /\ (now.step = "idle" => taken = {})
    BY <1>2, IdleTyped DEF RunTypes, Idle
  <1>4. run' = [run EXCEPT ![r] = now]
    BY <1>1
  <1> HIDE DEF now
  <1>5. run'[r] = now /\ \A q \in Runs : q # r => run'[q] = run[q]
    BY <1>4 DEF IInv, TypeOK
  <1>6. TypeOK'
    BY <1>1, <1>3, <1>4 DEF IInv, TypeOK, RunTypes
  <1>7. RunOK(r)'
    BY <1>1, <1>2, <1>3, <1>5 DEF RunOK, Called
  <1>8. ASSUME NEW q \in Runs, q # r
        PROVE  RunOK(q)' /\ run[q].todo \cap taken = {}
    <2>1. \A o \in run[q].todo : o \in Operations /\ status[o] \in {"running", "failed"}
      BY DEF IInv, RunOK, TypeOK
    <2> QED
      BY <1>1, <1>2, <1>5, <1>8, <2>1, RunStays
  <1>9. Disjoint'
    BY <1>3, <1>5, <1>8 DEF IInv, Disjoint
  <1>10. MadeAtMostOnce'
    BY <1>1, <1>2 DEF IInv, MadeAtMostOnce
  <1> QED
    BY <1>6, <1>7, <1>8, <1>9, <1>10 DEF IInv

(* The call of an operation that is nobody else's, and was not made.       *)
LEMMA CallOK ==
    ASSUME IInv, NEW r \in Runs, NEW o \in Operations, Call(r, o)
    PROVE  IInv'
  <1>1. PICK s \in {"succeeded", "refused"} :
          /\ run' = [run EXCEPT ![r].step = s, ![r].op = o]
          /\ s = "succeeded" => effects' = [effects EXCEPT ![o] = @ + 1]
          /\ s = "refused" => effects' = effects
    BY DEF Call
  <1>2. run[r].step = "call" /\ o \in run[r].todo /\ UNCHANGED <<status, due, stale>>
    BY DEF Call
  <1>3. effects[o] = 0 /\ status[o] \in {"running", "failed"}
    BY <1>2 DEF IInv, RunOK
  <1> DEFINE now == [run[r] EXCEPT !.step = s, !.op = o]
  <1>4. now \in RunTypes /\ now.todo = run[r].todo /\ now.step = s /\ now.op = o
    BY DEF IInv, TypeOK, RunTypes
  <1>5. run' = [run EXCEPT ![r] = now]
    BY <1>1 DEF IInv, TypeOK
  <1> HIDE DEF now
  <1>6. run'[r] = now /\ \A q \in Runs : q # r => run'[q] = run[q]
    BY <1>5 DEF IInv, TypeOK
  <1>7. effects' \in [Operations -> Nat] /\ \A x \in Operations : x # o => effects'[x] = effects[x]
    BY <1>1 DEF IInv, TypeOK
  <1>8. effects'[o] = IF s = "succeeded" THEN 1 ELSE 0
    BY <1>1, <1>3 DEF IInv, TypeOK
  <1>9. TypeOK'
    BY <1>2, <1>4, <1>5, <1>7 DEF IInv, TypeOK, RunTypes
  <1>10. RunOK(r)'
    <2>1. \A x \in run[r].todo : x \in Operations /\ status[x] \in {"running", "failed"}
                                 /\ effects[x] = 0
      BY <1>2 DEF IInv, RunOK, TypeOK
    <2> QED
      BY <1>2, <1>4, <1>6, <1>7, <1>8, <2>1 DEF RunOK, Called
  <1>11. ASSUME NEW q \in Runs, q # r PROVE RunOK(q)'
    <2>1. \A x \in run[q].todo : x \in Operations /\ x # o /\ status[x] \in {"running", "failed"}
      BY <1>2, <1>11 DEF IInv, RunOK, TypeOK, Disjoint
    <2> QED
      BY <1>2, <1>6, <1>7, <1>11, <2>1, RunStays
  <1>12. Disjoint'
    BY <1>4, <1>6 DEF IInv, Disjoint
  <1>13. MadeAtMostOnce'
    BY <1>2, <1>3, <1>7, <1>8 DEF IInv, MadeAtMostOnce
  <1> QED
    BY <1>9, <1>10, <1>11, <1>12, <1>13 DEF IInv

(* A settled operation leaves its run, which may have more to do.          *)
LEMMA SettleOK ==
    ASSUME IInv, NEW r \in Runs, Settle(r)
    PROVE  IInv'
  <1>1. PICK o \in Operations : o = run[r].op /\ o \in run[r].todo
    BY DEF Settle, IInv, RunOK, Called, TypeOK
  <1> DEFINE rest == run[r].todo \ {o}
             now == IF rest = {} THEN Idle ELSE [step |-> "call", todo |-> rest, op |-> "none"]
             outcome == IF run[r].step = "succeeded" THEN "done" ELSE "failed"
  <1>2. run' = [run EXCEPT ![r] = now] /\ status' = [status EXCEPT ![o] = outcome]
        /\ UNCHANGED <<due, stale, effects>>
    BY <1>1 DEF Settle
  <1>3. rest \subseteq Operations
    BY DEF IInv, TypeOK
  <1>4. now \in RunTypes /\ now.todo = rest /\ now.step \in {"idle", "call"}
        /\ (now.step = "idle" => rest = {})
    BY <1>3, IdleTyped DEF RunTypes, Idle
  <1>5. outcome = "done" => effects[o] = 1
    BY <1>1 DEF IInv, RunOK
  <1>6. outcome \in {"done", "failed"}
    OBVIOUS
  <1>7. \A x \in rest : /\ x # o /\ x \in Operations /\ effects[x] = 0
                        /\ status[x] \in {"running", "failed"}
    BY <1>1, <1>3 DEF IInv, RunOK
  <1>8. rest \subseteq run[r].todo
    OBVIOUS
  <1> HIDE DEF now, rest, outcome
  <1>9. run'[r] = now /\ \A q \in Runs : q # r => run'[q] = run[q]
    BY <1>2 DEF IInv, TypeOK
  <1>10. status'[o] = outcome /\ \A x \in Operations : x # o => status'[x] = status[x]
    BY <1>2 DEF IInv, TypeOK
  <1>11. TypeOK'
    BY <1>2, <1>4, <1>6 DEF IInv, TypeOK, RunTypes, Finished
  <1>12. RunOK(r)'
    BY <1>2, <1>4, <1>7, <1>9, <1>10 DEF RunOK, Called
  <1>13. ASSUME NEW q \in Runs, q # r PROVE RunOK(q)'
    <2>1. \A x \in run[q].todo : x \in Operations /\ x # o /\ status[x] \in {"running", "failed"}
      BY <1>1, <1>13 DEF IInv, RunOK, TypeOK, Disjoint
    <2> QED
      BY <1>2, <1>9, <1>10, <1>13, <2>1, RunStays
  <1>14. Disjoint'
    BY <1>4, <1>8, <1>9 DEF IInv, Disjoint
  <1>15. MadeAtMostOnce'
    BY <1>2, <1>5, <1>6, <1>10 DEF IInv, MadeAtMostOnce
  <1> QED
    BY <1>11, <1>12, <1>13, <1>14, <1>15 DEF IInv

LEMMA CrashOK ==
    ASSUME IInv, NEW r \in Runs, Crash(r)
    PROVE  IInv'
  <1>1. run' = [run EXCEPT ![r] = Idle] /\ UNCHANGED <<status, due, stale, effects>>
    BY DEF Crash
  <1>2. Idle.todo = {} /\ Idle.step = "idle"
    BY DEF Idle
  <1>3. run'[r] = Idle /\ \A q \in Runs : q # r => run'[q] = run[q]
    BY <1>1 DEF IInv, TypeOK
  <1>4. TypeOK'
    BY <1>1, IdleTyped DEF IInv, TypeOK, RunTypes
  <1>5. RunOK(r)'
    BY <1>2, <1>3 DEF RunOK, Called
  <1>6. ASSUME NEW q \in Runs, q # r PROVE RunOK(q)'
    BY <1>1, <1>3, <1>6 DEF IInv, RunOK, Called
  <1>7. Disjoint'
    BY <1>2, <1>3 DEF IInv, Disjoint
  <1> QED
    BY <1>1, <1>4, <1>5, <1>6, <1>7 DEF IInv, MadeAtMostOnce

--------------------------------------------------------------------------------
LEMMA NextOK == IInv /\ [Next]_vars => IInv'
  <1> SUFFICES ASSUME IInv, [Next]_vars PROVE IInv'
    OBVIOUS
  <1>1. ASSUME NEW o \in Operations, Create(o) \/ Cancel(o) \/ FallsDue(o) \/ GetsStale(o)
        PROVE  IInv'
    BY <1>1, UsersOK
  <1>2. ASSUME NEW r \in Runs, RunStep(r) \/ Crash(r) PROVE IInv'
    BY <1>2, SweepOK, ClaimDueOK, CallOK, SettleOK, CrashOK DEF RunStep
  <1>3. CASE UNCHANGED vars
    BY <1>3 DEF vars, IInv, TypeOK, RunOK, Called, Disjoint, MadeAtMostOnce
  <1> QED
    BY <1>1, <1>2, <1>3 DEF Next

LEMMA Invariance == Spec => []IInv
  BY InitOK, NextOK, PTL DEF Spec

(* Every variable has its type.                                            *)
THEOREM TypeCorrect == Spec => []TypeOK
  <1>1. IInv => TypeOK
    BY DEF IInv
  <1> QED
    BY <1>1, Invariance, PTL

(* However many runs overlap and die, and whatever is cancelled or given   *)
(* up meanwhile, a scheduled change is made at most once.                  *)
THEOREM NoOperationRunsTwice == Spec => []MadeAtMostOnce
  <1>1. IInv => MadeAtMostOnce
    BY DEF IInv
  <1> QED
    BY <1>1, Invariance, PTL

--------------------------------------------------------------------------------
(***************************************************************************)
(* ReleaseTransactions.                                                    *)
(***************************************************************************)

HIDE OperationsAssumption
HIDE BatchAssumption

Ops == DOMAIN Program

Steps == {"findCanary", "endCanary", "scanActive", "deactivate", "insertActive", "needActive",
          "insertCanary", "findTarget", "makeActive", "findEarlier", "makeCanary",
          "targetCanary", "runningCanary", "needCanary", "toggle",
          "auditOverride", "audit", "snapshot", "commit"}

Writes == UNION {[D -> Row] : D \in SUBSET RowIds}

Txs == [op : Ops \cup {"none"}, override : BOOLEAN, todo : Seq(Steps),
        target : 0..MaxVersions, canary : 0..MaxVersions, actives : SUBSET Ids,
        writes : Writes, seqs : Seq(Nat), built : SUBSET (RowIds \X Statuses), alone : BOOLEAN]

Typed ==
    /\ rows \in [RowIds -> Row]
    /\ created \in 0..MaxVersions
    /\ frozen \in BOOLEAN
    /\ tx \in [Workers -> Txs]
    /\ auditLock \in Workers \cup {NoWorker}
    /\ chain \in Seq(Nat)
    /\ snapshot \subseteq RowIds \X Statuses

Running(w) == tx[w].op # "none"
Left(w) == Len(tx[w].todo)

Script(op) == Program[op] \o Recorded

(* What is left of a transaction is the end of its operation's script, with *)
(* the audit of an override before it.                                      *)
ScriptOK(w) ==
    LET script == Script(tx[w].op)
    IN /\ ~Running(w) => tx[w] = NoTx
       /\ Running(w) =>
             /\ Left(w) \in 1..Len(script) + 1
             /\ \A i \in 1..Left(w) :
                   tx[w].todo[i] = IF i + Len(script) = Left(w) THEN "auditOverride"
                                   ELSE script[i + Len(script) - Left(w)]

(* Who wrote an event holds the lock, and numbered it after the last one.   *)
NumbersOK(w) ==
    /\ \A i \in 1..Len(tx[w].seqs) : tx[w].seqs[i] = Len(chain) + i
    /\ tx[w].seqs # <<>> => auditLock = w
    /\ Running(w) /\ Left(w) <= 2 => tx[w].seqs # <<>>

(* The manifest was built under the lock: nothing has changed since.        *)
BuiltOK(w) == Running(w) /\ Left(w) = 1 => tx[w].built = Manifest(View(w))

(* Rows beyond the last one created were never written.                     *)
FreshOK ==
    /\ \A v \in Ids : v > created =>
          rows[v] = NewRow("none") /\ \A w \in Workers : v \notin DOMAIN tx[w].writes
    /\ \A w \in Workers : /\ tx[w].target <= created /\ tx[w].canary <= created
                          /\ \A v \in tx[w].actives : v <= created

TxnIInv ==
    /\ Typed
    /\ \A w \in Workers : ScriptOK(w) /\ NumbersOK(w) /\ BuiltOK(w)
    /\ FreshOK
    /\ SnapshotIsExact
    /\ ChainIsLinear

--------------------------------------------------------------------------------
USE BoundAssumption

(* What is written over what: rows over rows are rows.                      *)
LEMMA WritesFacts ==
    ASSUME NEW f \in Writes
    PROVE  /\ DOMAIN f \subseteq RowIds
           /\ \A v \in DOMAIN f : f[v] \in Row
           /\ f \in [DOMAIN f -> Row]
  BY DEF Writes

LEMMA OverFacts ==
    ASSUME NEW f \in Writes, NEW g \in Writes
    PROVE  /\ Over(f, g) \in Writes
           /\ DOMAIN Over(f, g) = DOMAIN f \cup DOMAIN g
           /\ \A v \in DOMAIN f : Over(f, g)[v] = f[v]
           /\ \A v \in DOMAIN g \ DOMAIN f : Over(f, g)[v] = g[v]
  <1>1. DOMAIN f \subseteq RowIds /\ DOMAIN g \subseteq RowIds
    BY WritesFacts
  <1>2. \A v \in DOMAIN f \cup DOMAIN g : (IF v \in DOMAIN f THEN f[v] ELSE g[v]) \in Row
    BY WritesFacts
  <1>3. Over(f, g) \in [DOMAIN f \cup DOMAIN g -> Row]
    BY <1>2 DEF Over
  <1>4. Over(f, g) \in Writes
    BY <1>1, <1>3 DEF Writes
  <1> QED BY <1>4 DEF Over

LEMMA WriteFacts ==
    ASSUME NEW f \in Writes, NEW v \in RowIds, NEW row \in Row
    PROVE  /\ Over([u \in {v} |-> row], f) \in Writes
           /\ DOMAIN Over([u \in {v} |-> row], f) = DOMAIN f \cup {v}
           /\ Over([u \in {v} |-> row], f)[v] = row
           /\ \A u \in DOMAIN f \ {v} : Over([x \in {v} |-> row], f)[u] = f[u]
  <1>1. [u \in {v} |-> row] \in [{v} -> Row] /\ {v} \subseteq RowIds
    OBVIOUS
  <1>2. [u \in {v} |-> row] \in Writes
    BY <1>1 DEF Writes
  <1> QED BY <1>2, OverFacts

(* What a transaction reads: its own writes, and else what is committed.    *)
LEMMA ViewFacts ==
    ASSUME Typed, NEW w \in Workers
    PROVE  /\ View(w) \in [RowIds -> Row]
           /\ \A v \in DOMAIN tx[w].writes : View(w)[v] = tx[w].writes[v]
           /\ \A v \in RowIds : v \notin DOMAIN tx[w].writes => View(w)[v] = rows[v]
  <1>1. tx[w].writes \in Writes /\ rows \in [RowIds -> Row]
    BY DEF Typed, Txs
  <1>2. rows \in Writes
    BY <1>1 DEF Writes
  <1>3. /\ View(w) \in Writes
        /\ DOMAIN View(w) = RowIds
        /\ \A v \in DOMAIN tx[w].writes : View(w)[v] = tx[w].writes[v]
        /\ \A v \in RowIds : v \notin DOMAIN tx[w].writes => View(w)[v] = rows[v]
    <2>1. PICK new, old : new = tx[w].writes /\ old = rows
      OBVIOUS
    <2>2. new \in Writes /\ old \in Writes /\ DOMAIN old = RowIds /\ DOMAIN new \subseteq RowIds
      BY <1>1, <1>2, <2>1, WritesFacts
    <2>3. PICK view : view = Over(new, old)
      OBVIOUS
    <2>4. /\ view \in Writes /\ DOMAIN view = RowIds
          /\ \A v \in DOMAIN new : view[v] = new[v]
          /\ \A v \in RowIds : v \notin DOMAIN new => view[v] = old[v]
      BY <2>2, <2>3, OverFacts
    <2>5. View(w) = view
      BY <2>1, <2>3 DEF View
    <2> QED BY <2>1, <2>4, <2>5
  <1> QED BY <1>3, WritesFacts

LEMMA ManifestType ==
    ASSUME NEW f \in [RowIds -> Row]
    PROVE  Manifest(f) \subseteq RowIds \X Statuses
  BY DEF Manifest, Row

(* Every script ends with the same three statements.                        *)
LEMMA ScriptFacts ==
    ASSUME NEW op \in Ops
    PROVE  /\ Program[op] \in Seq(Steps)
           /\ Len(Program[op]) >= 1
           /\ Script(op) \in Seq(Steps)
           /\ Len(Script(op)) = Len(Program[op]) + 3
           /\ \A i \in 1..Len(Program[op]) : Script(op)[i] = Program[op][i]
           /\ Script(op)[Len(Script(op)) - 2] = "audit"
           /\ Script(op)[Len(Script(op)) - 1] = "snapshot"
           /\ Script(op)[Len(Script(op))] = "commit"
  <1>1. Program[op] \in Seq(Steps) /\ Len(Program[op]) >= 1
    <2>1. Ops = {"deploy", "deployCanary", "rollback", "promote", "startCanary",
                 "promoteCanary", "abortCanary", "jobAbort", "killSwitch"}
      BY DEF Ops, Program
    <2>2. CASE op = "deploy"
      BY <2>2 DEF Program, Steps
    <2>3. CASE op = "deployCanary"
      BY <2>3 DEF Program, Steps
    <2>4. CASE op = "rollback"
      BY <2>4 DEF Program, Steps
    <2>5. CASE op = "promote"
      BY <2>5 DEF Program, Steps
    <2>6. CASE op = "startCanary"
      BY <2>6 DEF Program, Steps
    <2>7. CASE op = "promoteCanary"
      BY <2>7 DEF Program, Steps
    <2>8. CASE op = "abortCanary"
      BY <2>8 DEF Program, Steps
    <2>9. CASE op = "jobAbort"
      BY <2>9 DEF Program, Steps
    <2>10. CASE op = "killSwitch"
      BY <2>10 DEF Program, Steps
    <2> QED BY <2>1, <2>2, <2>3, <2>4, <2>5, <2>6, <2>7, <2>8, <2>9, <2>10
  <1>2. Recorded \in Seq(Steps) /\ Len(Recorded) = 3
        /\ Recorded[1] = "audit" /\ Recorded[2] = "snapshot" /\ Recorded[3] = "commit"
    <2>1. Recorded \in Seq(Steps)
      BY DEF Recorded, Steps
    <2>2. Len(Recorded) = 3
      BY DEF Recorded
    <2>3. Recorded[1] = "audit" /\ Recorded[2] = "snapshot" /\ Recorded[3] = "commit"
      BY DEF Recorded
    <2> QED BY <2>1, <2>2, <2>3
  <1> DEFINE p == Program[op]
  <1> HIDE DEF p
  <1>3. /\ p \o Recorded \in Seq(Steps)
        /\ Len(p \o Recorded) = Len(p) + 3
        /\ \A i \in 1..Len(p) + 3 :
              (p \o Recorded)[i] = IF i <= Len(p) THEN p[i] ELSE Recorded[i - Len(p)]
    <2>1. p \in Seq(Steps)
      BY <1>1 DEF p
    <2>2. Recorded \in Seq(Steps) /\ Len(Recorded) = 3
      BY <1>2
    <2>3. /\ p \o Recorded \in Seq(Steps)
          /\ Len(p \o Recorded) = Len(p) + Len(Recorded)
          /\ \A i \in 1..Len(p) + Len(Recorded) :
                (p \o Recorded)[i] = IF i <= Len(p) THEN p[i] ELSE Recorded[i - Len(p)]
      BY <2>1, <2>2, ConcatProperties, Zenon
    <2> QED BY <2>2, <2>3, Zenon
  <1>4. Len(p) \in Nat
    BY <1>1 DEF p
  <1>5. /\ (p \o Recorded)[Len(p) + 1] = "audit"
        /\ (p \o Recorded)[Len(p) + 2] = "snapshot"
        /\ (p \o Recorded)[Len(p) + 3] = "commit"
        /\ \A i \in 1..Len(p) : (p \o Recorded)[i] = p[i]
    BY <1>2, <1>3, <1>4
  <1> QED BY <1>1, <1>3, <1>4, <1>5 DEF Script, p

(* A statement takes its transaction one step along its script; the others  *)
(* stay where they are.                                                     *)
LEMMA RunFacts ==
    ASSUME Typed, NEW w \in Workers, NEW s, NEW t \in Txs, Run(w, s, t)
    PROVE  /\ tx' \in [Workers -> Txs]
           /\ \A u \in Workers \ {w} : tx'[u] = tx[u]
           /\ tx'[w] = [t EXCEPT !.todo = Tail(tx[w].todo)]
           /\ Left(w) \in Nat /\ Left(w) >= 1 /\ Left(w)' = Left(w) - 1
           /\ tx[w].todo[1] = s
           /\ \A i \in 1..Left(w) - 1 : tx'[w].todo[i] = tx[w].todo[i + 1]
  <1>1. tx[w] \in Txs /\ tx[w].todo \in Seq(Steps) /\ tx[w].todo # <<>>
    BY DEF Typed, Txs, Run
  <1> DEFINE todo == tx[w].todo
  <1>2. /\ Len(todo) \in Nat /\ Len(todo) >= 1
        /\ Tail(todo) \in Seq(Steps) /\ Len(Tail(todo)) = Len(todo) - 1
        /\ Head(todo) = todo[1]
        /\ \A i \in 1..Len(todo) - 1 : Tail(todo)[i] = todo[i + 1]
    <2>1. Len(todo) \in Nat /\ Len(todo) >= 1
      BY <1>1, EmptySeq
    <2>2. Head(todo) = todo[1]
      BY <1>1
    <2> QED BY <1>1, <2>1, <2>2, HeadTailProperties
  <1>3. tx' = [tx EXCEPT ![w] = [t EXCEPT !.todo = Tail(tx[w].todo)]] /\ Head(todo) = s
    BY DEF Run
  <1>4. [t EXCEPT !.todo = Tail(tx[w].todo)] \in Txs
    BY <1>2 DEF Txs
  <1>5. tx \in [Workers -> Txs]
    BY DEF Typed
  <1>6. /\ tx' \in [Workers -> Txs]
        /\ \A u \in Workers \ {w} : tx'[u] = tx[u]
        /\ tx'[w] = [t EXCEPT !.todo = Tail(tx[w].todo)]
    BY <1>3, <1>4, <1>5
  <1>7. tx'[w].todo = Tail(tx[w].todo)
    BY <1>6 DEF Txs
  <1> QED BY <1>2, <1>3, <1>6, <1>7 DEF Left

LEMMA ScriptStep ==
    ASSUME TxnIInv, NEW w \in Workers, NEW s, s # "commit", NEW t \in Txs, Run(w, s, t),
           t.op = tx[w].op
    PROVE  /\ Running(w) /\ Left(w) >= 2
           /\ Running(w)' /\ tx'[w].op = tx[w].op
           /\ \A u \in Workers : ScriptOK(u)'
           /\ Left(w) = 2 => s = "snapshot"
           /\ Left(w) = 3 => s = "audit"
  <1>1. Typed /\ ScriptOK(w)
    BY DEF TxnIInv
  <1>2. /\ tx' \in [Workers -> Txs]
        /\ \A u \in Workers \ {w} : tx'[u] = tx[u]
        /\ tx'[w] = [t EXCEPT !.todo = Tail(tx[w].todo)]
        /\ Left(w) \in Nat /\ Left(w) >= 1 /\ Left(w)' = Left(w) - 1
        /\ tx[w].todo[1] = s
        /\ \A i \in 1..Left(w) - 1 : tx'[w].todo[i] = tx[w].todo[i + 1]
    BY <1>1, RunFacts
  <1>3. Running(w)
    BY <1>1, <1>2 DEF ScriptOK, NoTx, Left
  <1>4. tx[w].op \in Ops
    BY <1>1, <1>3 DEF Typed, Txs, Running
  <1>5. PICK op \in Ops : op = tx[w].op
    BY <1>4
  <1>6. PICK script \in Seq(Steps) : script = Script(op)
    BY ScriptFacts
  <1>7. /\ Len(script) \in Nat /\ Len(script) >= 4
        /\ script[Len(script)] = "commit"
        /\ script[Len(script) - 1] = "snapshot"
        /\ script[Len(script) - 2] = "audit"
    BY <1>6, ScriptFacts
  <1>8. /\ Left(w) \in 1..Len(script) + 1
        /\ \A i \in 1..Left(w) :
              tx[w].todo[i] = IF i + Len(script) = Left(w) THEN "auditOverride"
                              ELSE script[i + Len(script) - Left(w)]
    BY <1>1, <1>3, <1>5, <1>6 DEF ScriptOK
  <1>9. s = IF 1 + Len(script) = Left(w) THEN "auditOverride"
            ELSE script[1 + Len(script) - Left(w)]
    BY <1>2, <1>8
  <1>10. /\ Left(w) >= 2
         /\ Left(w) = 2 => s = "snapshot"
         /\ Left(w) = 3 => s = "audit"
    BY <1>2, <1>7, <1>9
  <1>11. tx'[w].op = op /\ Running(w)'
    BY <1>2, <1>3, <1>5 DEF Txs, Running
  <1>12. ScriptOK(w)'
    <2>1. Left(w)' \in 1..Len(script) + 1
      BY <1>2, <1>8, <1>10
    <2>2. \A i \in 1..Left(w)' :
              tx'[w].todo[i] = IF i + Len(script) = Left(w)' THEN "auditOverride"
                               ELSE script[i + Len(script) - Left(w)']
      <3> SUFFICES ASSUME NEW i \in 1..Left(w)'
                   PROVE  tx'[w].todo[i] = IF i + Len(script) = Left(w)' THEN "auditOverride"
                                           ELSE script[i + Len(script) - Left(w)']
        OBVIOUS
      <3>1. i \in 1..Left(w) - 1 /\ i + 1 \in 1..Left(w)
        BY <1>2
      <3>2. tx'[w].todo[i] = tx[w].todo[i + 1]
        BY <1>2, <3>1
      <3>3. tx[w].todo[i + 1] = IF (i + 1) + Len(script) = Left(w) THEN "auditOverride"
                                ELSE script[(i + 1) + Len(script) - Left(w)]
        BY <1>8, <3>1
      <3>4. /\ (i + 1) + Len(script) = Left(w) <=> i + Len(script) = Left(w)'
            /\ (i + 1) + Len(script) - Left(w) = i + Len(script) - Left(w)'
        <4>1. Left(w)' = Left(w) - 1 /\ Left(w) \in Nat /\ i \in Int /\ Len(script) \in Nat
          BY <1>2, <1>7, <3>1
        <4> HIDE DEF Left
        <4> QED BY <4>1
      <3> QED BY <3>2, <3>3, <3>4, Zenon
    <2> QED BY <2>1, <2>2, <1>6, <1>11 DEF ScriptOK
  <1>13. ASSUME NEW u \in Workers \ {w} PROVE ScriptOK(u)'
    <2>1. tx'[u] = tx[u] /\ ScriptOK(u)
      BY <1>2 DEF TxnIInv
    <2> QED BY <2>1, Zenon DEF ScriptOK, Running, Left
  <1> QED BY <1>3, <1>5, <1>10, <1>11, <1>12, <1>13

--------------------------------------------------------------------------------
(* The next number follows the last one that is committed or the            *)
(* transaction's own.                                                       *)
LEMMA NumberFacts ==
    ASSUME TxnIInv, NEW w \in Workers
    PROVE  NextNumber(w) = Len(chain) + Len(tx[w].seqs) + 1
  <1>1. /\ chain \in Seq(Nat) /\ Len(chain) \in Nat
        /\ tx[w].seqs \in Seq(Nat) /\ Len(tx[w].seqs) \in Nat
    BY EmptySeq DEF TxnIInv, Typed, Txs
  <1>2. /\ \A i \in 1..Len(chain) : chain[i] = i
        /\ \A i \in 1..Len(tx[w].seqs) : tx[w].seqs[i] = Len(chain) + i
    BY DEF TxnIInv, ChainIsLinear, NumbersOK
  <1>3. PICK n \in Nat, m \in Nat : n = Len(chain) /\ m = Len(tx[w].seqs)
    BY <1>1
  <1>4. ASSUME NEW k \in NumbersSeen(w) PROVE k \in Nat /\ k <= n + m
    BY <1>2, <1>3 DEF NumbersSeen
  <1>5. n + m \in NumbersSeen(w)
    <2>1. CASE m > 0
      <3>1. m \in 1..Len(tx[w].seqs)
        BY <1>3, <2>1
      <3>2. tx[w].seqs[m] = n + m
        BY <1>2, <1>3, <3>1
      <3> QED BY <3>1, <3>2 DEF NumbersSeen
    <2>2. CASE m = 0 /\ n > 0
      <3>1. n \in 1..Len(chain)
        BY <1>3, <2>2
      <3>2. chain[n] = n + m
        BY <1>2, <3>1, <2>2
      <3> QED BY <3>1, <3>2 DEF NumbersSeen
    <2>3. CASE m = 0 /\ n = 0
      BY <2>3 DEF NumbersSeen
    <2> QED BY <2>1, <2>2, <2>3
  <1>6. n + m = CHOOSE k \in NumbersSeen(w) : \A l \in NumbersSeen(w) : l <= k
    <2>1. \A k \in NumbersSeen(w) : (\A l \in NumbersSeen(w) : l <= k) => k = n + m
      BY <1>4, <1>5
    <2>2. \A l \in NumbersSeen(w) : l <= n + m
      BY <1>4
    <2>3. \E k \in NumbersSeen(w) : \A l \in NumbersSeen(w) : l <= k
      BY <1>5, <2>2
    <2>4. PICK c : c = CHOOSE k \in NumbersSeen(w) : \A l \in NumbersSeen(w) : l <= k
      OBVIOUS
    <2>5. c \in NumbersSeen(w) /\ \A l \in NumbersSeen(w) : l <= c
      BY <2>3, <2>4
    <2> QED BY <2>1, <2>4, <2>5
  <1>7. NextNumber(w) = 1 + (n + m)
    BY <1>6, Zenon DEF NextNumber
  <1> QED BY <1>3, <1>7

(* A statement that records nothing keeps the invariant, whatever it reads  *)
(* and writes among the rows created so far.                                *)
LEMMA StatementStep ==
    ASSUME TxnIInv, NEW w \in Workers, NEW s, s \notin {"audit", "snapshot", "commit"},
           NEW t \in Txs, Run(w, s, t), t.op = tx[w].op, t.seqs = tx[w].seqs,
           UNCHANGED <<rows, frozen, auditLock, chain, snapshot>>,
           created' \in created..MaxVersions,
           t.target <= created', t.canary <= created',
           \A v \in t.actives : v <= created',
           \A v \in DOMAIN t.writes : v = KillSwitch \/ v <= created'
    PROVE  TxnIInv'
  <1>1. /\ Running(w) /\ Left(w) >= 2
        /\ Running(w)' /\ tx'[w].op = tx[w].op
        /\ \A u \in Workers : ScriptOK(u)'
        /\ Left(w) # 2 /\ Left(w) # 3
    BY ScriptStep
  <1>2. /\ tx' \in [Workers -> Txs]
        /\ \A u \in Workers \ {w} : tx'[u] = tx[u]
        /\ tx'[w] = [t EXCEPT !.todo = Tail(tx[w].todo)]
        /\ Left(w) \in Nat /\ Left(w)' = Left(w) - 1
    <2>1. Typed
      BY DEF TxnIInv
    <2>2. /\ tx' \in [Workers -> Txs]
          /\ \A u \in Workers \ {w} : tx'[u] = tx[u]
          /\ tx'[w] = [t EXCEPT !.todo = Tail(tx[w].todo)]
          /\ Left(w) \in Nat /\ Left(w) >= 1 /\ Left(w)' = Left(w) - 1
          /\ tx[w].todo[1] = s
          /\ \A i \in 1..Left(w) - 1 : tx'[w].todo[i] = tx[w].todo[i + 1]
      BY <2>1, RunFacts
    <2> QED BY <2>2
  <1>3. created \in 0..MaxVersions /\ created' \in 0..MaxVersions
    BY DEF TxnIInv, Typed
  <1>4. Typed'
    BY <1>2, <1>3 DEF TxnIInv, Typed
  <1>5. tx'[w].seqs = tx[w].seqs
    BY <1>2 DEF Txs
  <1>6. NumbersOK(w)' /\ BuiltOK(w)'
    <2>1. Left(w)' > 2
      BY <1>1, <1>2
    <2>2. NumbersOK(w)
      BY DEF TxnIInv
    <2>3. NumbersOK(w)'
      <3>1. chain' = chain /\ auditLock' = auditLock /\ ~(Left(w)' <= 2)
        BY <2>1, <1>2
      <3> QED BY <2>2, <3>1, <1>5, Zenon DEF NumbersOK
    <2> QED BY <2>1, <2>3 DEF BuiltOK
  <1>7. ASSUME NEW u \in Workers \ {w} PROVE NumbersOK(u)' /\ BuiltOK(u)'
    <2>1. tx'[u] = tx[u] /\ NumbersOK(u) /\ BuiltOK(u)
      BY <1>2 DEF TxnIInv
    <2>2. NumbersOK(u)'
      BY <2>1, Zenon DEF NumbersOK, Running, Left
    <2>3. BuiltOK(u)'
      BY <2>1, Zenon DEF BuiltOK, Running, Left, View
    <2> QED BY <2>2, <2>3
  <1>8. FreshOK'
    <2>1. /\ tx'[w].target <= created' /\ tx'[w].canary <= created'
          /\ \A v \in tx'[w].actives : v <= created'
          /\ \A v \in DOMAIN tx'[w].writes : v = KillSwitch \/ v <= created'
      BY <1>2 DEF Txs
    <2>2. ASSUME NEW u \in Workers
          PROVE  /\ tx'[u].target <= created' /\ tx'[u].canary <= created'
                 /\ \A v \in tx'[u].actives : v <= created'
      <3>1. CASE u = w
        BY <2>1, <3>1
      <3>2. CASE u # w
        <4>1. tx'[u] = tx[u] /\ tx[u] \in Txs
          BY <1>2, <3>2 DEF TxnIInv, Typed
        <4>2. tx[u].target \in Nat /\ tx[u].canary \in Nat /\ tx[u].actives \subseteq Nat
          BY <4>1 DEF Txs, Ids
        <4> QED BY <4>1, <4>2, <1>3 DEF TxnIInv, FreshOK
      <3> QED BY <3>1, <3>2
    <2>3. ASSUME NEW v \in Ids, v > created', NEW u \in Workers
          PROVE  rows'[v] = NewRow("none") /\ v \notin DOMAIN tx'[u].writes
      <3>1. v > created /\ v \in Nat /\ v # KillSwitch
        BY <1>3, <2>3 DEF Ids, KillSwitch
      <3>2. CASE u = w
        BY <2>1, <2>3, <3>1, <3>2, <1>3 DEF TxnIInv, FreshOK
      <3>3. CASE u # w
        BY <3>1, <3>3, <1>2 DEF TxnIInv, FreshOK
      <3> QED BY <3>2, <3>3
    <2>4. ASSUME NEW v \in Ids, v > created' PROVE rows'[v] = NewRow("none")
      <3>1. v > created
        BY <1>3, <2>4 DEF Ids
      <3> QED BY <3>1 DEF TxnIInv, FreshOK
    <2> QED BY <2>2, <2>3, <2>4 DEF FreshOK
  <1>9. SnapshotIsExact' /\ ChainIsLinear'
    BY DEF TxnIInv, SnapshotIsExact, ChainIsLinear
  <1> QED BY <1>1, <1>4, <1>6, <1>7, <1>8, <1>9 DEF TxnIInv

(* The audit event is numbered under the lock, which nobody else holds.     *)
LEMMA AuditStep ==
    ASSUME TxnIInv, NEW w \in Workers, NEW s, s \notin {"snapshot", "commit"}, InsertAudit(w, s)
    PROVE  TxnIInv'
  <1> DEFINE t == [tx[w] EXCEPT !.seqs = Append(@, NextNumber(w))]
  <1>1. Typed /\ tx[w] \in Txs /\ tx[w].seqs \in Seq(Nat) /\ Len(tx[w].seqs) \in Nat
        /\ chain \in Seq(Nat) /\ Len(chain) \in Nat
    BY EmptySeq DEF TxnIInv, Typed, Txs
  <1>2. NextNumber(w) = Len(chain) + Len(tx[w].seqs) + 1
    BY NumberFacts
  <1>3. /\ Append(tx[w].seqs, NextNumber(w)) \in Seq(Nat)
        /\ Append(tx[w].seqs, NextNumber(w)) # <<>>
        /\ Len(Append(tx[w].seqs, NextNumber(w))) = Len(tx[w].seqs) + 1
        /\ \A i \in 1..Len(tx[w].seqs) : Append(tx[w].seqs, NextNumber(w))[i] = tx[w].seqs[i]
        /\ Append(tx[w].seqs, NextNumber(w))[Len(tx[w].seqs) + 1] = NextNumber(w)
    <2>1. NextNumber(w) \in Nat
      BY <1>1, <1>2
    <2>2. PICK q \in Seq(Nat), k \in Nat : q = tx[w].seqs /\ k = NextNumber(w)
      BY <1>1, <2>1
    <2>3. /\ Append(q, k) \in Seq(Nat)
          /\ Append(q, k) # <<>>
          /\ Len(Append(q, k)) = Len(q) + 1
          /\ \A i \in 1..Len(q) : Append(q, k)[i] = q[i]
          /\ Append(q, k)[Len(q) + 1] = k
      BY AppendProperties
    <2> QED BY <2>2, <2>3, Zenon
  <1>4. t \in Txs
    BY <1>1, <1>3 DEF Txs
  <1>5. Run(w, s, t) /\ auditLock \in {NoWorker, w} /\ auditLock' = w
        /\ UNCHANGED <<rows, created, frozen, chain, snapshot>>
    BY DEF InsertAudit
  <1>6. t.op = tx[w].op /\ t.target = tx[w].target /\ t.canary = tx[w].canary
        /\ t.actives = tx[w].actives /\ t.writes = tx[w].writes
        /\ t.seqs = Append(tx[w].seqs, NextNumber(w))
    BY <1>1 DEF Txs
  <1> HIDE DEF t
  <1>7. /\ Running(w) /\ Left(w) >= 2
        /\ Running(w)' /\ tx'[w].op = tx[w].op
        /\ \A u \in Workers : ScriptOK(u)'
        /\ Left(w) # 2
    BY <1>4, <1>5, <1>6, ScriptStep
  <1>8. /\ tx' \in [Workers -> Txs]
        /\ \A u \in Workers \ {w} : tx'[u] = tx[u]
        /\ tx'[w] = [t EXCEPT !.todo = Tail(tx[w].todo)]
        /\ Left(w) \in Nat /\ Left(w) >= 1 /\ Left(w)' = Left(w) - 1
        /\ tx[w].todo[1] = s
        /\ \A i \in 1..Left(w) - 1 : tx'[w].todo[i] = tx[w].todo[i + 1]
    BY <1>1, <1>4, <1>5, RunFacts
  <1>9. Typed'
    BY <1>1, <1>5, <1>8 DEF Typed
  <1>10. /\ tx'[w].seqs = Append(tx[w].seqs, NextNumber(w))
         /\ tx'[w].target = tx[w].target /\ tx'[w].canary = tx[w].canary
         /\ tx'[w].actives = tx[w].actives /\ tx'[w].writes = tx[w].writes
    BY <1>4, <1>6, <1>8 DEF Txs
  <1>11. NumbersOK(w)'
    <2>1. PICK n \in Nat, q \in Seq(Nat) :
             n = Len(tx[w].seqs) /\ q = Append(tx[w].seqs, NextNumber(w))
      BY <1>1, <1>3
    <2>2. \A i \in 1..n : q[i] = Len(chain) + i
      BY <1>3, <2>1 DEF TxnIInv, NumbersOK
    <2>3. Len(q) = n + 1 /\ q[n + 1] = Len(chain) + (n + 1) /\ q # <<>>
      BY <1>1, <1>2, <1>3, <2>1
    <2>4. \A i \in 1..Len(q) : q[i] = Len(chain) + i
      <3>1. ASSUME NEW i \in 1..Len(q) PROVE i \in 1..n \/ i = n + 1
        BY <2>1, <2>3
      <3> QED BY <3>1, <2>2, <2>3
    <2>5. chain' = chain /\ tx'[w].seqs = q /\ auditLock' = w
      BY <1>5, <1>10, <2>1
    <2> QED BY <2>3, <2>4, <2>5 DEF NumbersOK
  <1>12. BuiltOK(w)'
    BY <1>7, <1>8 DEF BuiltOK
  <1>13. ASSUME NEW u \in Workers \ {w} PROVE NumbersOK(u)' /\ BuiltOK(u)'
    <2>1. tx'[u] = tx[u] /\ NumbersOK(u) /\ BuiltOK(u) /\ u # w
      BY <1>8 DEF TxnIInv
    <2>2. tx[u].seqs = <<>>
      BY <1>5, <2>1, BoundAssumption DEF NumbersOK
    <2>3. chain' = chain /\ rows' = rows
      BY <1>5
    <2>4. NumbersOK(u)'
      BY <2>1, <2>2, <2>3 DEF NumbersOK, Running, Left
    <2>5. BuiltOK(u)'
      BY <2>1, <2>3, Zenon DEF BuiltOK, Running, Left, View
    <2> QED BY <2>4, <2>5
  <1>14. FreshOK'
    <2>1. ASSUME NEW u \in Workers
          PROVE  /\ tx'[u].target = tx[u].target /\ tx'[u].canary = tx[u].canary
                 /\ tx'[u].actives = tx[u].actives /\ tx'[u].writes = tx[u].writes
      BY <1>8, <1>10
    <2>2. created' = created /\ rows' = rows /\ FreshOK
      BY <1>5 DEF TxnIInv
    <2> QED BY <2>1, <2>2 DEF FreshOK
  <1>15. SnapshotIsExact' /\ ChainIsLinear'
    BY <1>5 DEF TxnIInv, SnapshotIsExact, ChainIsLinear
  <1> QED BY <1>7, <1>9, <1>11, <1>12, <1>13, <1>14, <1>15 DEF TxnIInv

(* The manifest is built from what the transaction sees.                    *)
LEMMA SnapshotStep ==
    ASSUME TxnIInv, NEW w \in Workers, Snapshot(w)
    PROVE  TxnIInv'
  <1> DEFINE t == [tx[w] EXCEPT !.built = Manifest(View(w))]
  <1>1. Typed /\ tx[w] \in Txs /\ tx \in [Workers -> Txs]
    BY DEF TxnIInv, Typed
  <1>2. Manifest(View(w)) \subseteq RowIds \X Statuses
    BY <1>1, ViewFacts, ManifestType
  <1>3. t \in Txs
    BY <1>1, <1>2 DEF Txs
  <1>4. Run(w, "snapshot", t) /\ UNCHANGED <<rows, created, frozen, auditLock, chain, snapshot>>
    BY DEF Snapshot, Find
  <1>5. t.op = tx[w].op /\ t.target = tx[w].target /\ t.canary = tx[w].canary
        /\ t.actives = tx[w].actives /\ t.writes = tx[w].writes
        /\ t.seqs = tx[w].seqs /\ t.built = Manifest(View(w))
    BY <1>1 DEF Txs
  <1> HIDE DEF t
  <1>6. /\ Running(w) /\ Left(w) >= 2
        /\ Running(w)' /\ tx'[w].op = tx[w].op
        /\ \A u \in Workers : ScriptOK(u)'
        /\ Left(w) # 3
    <2>1. t.op = tx[w].op /\ Run(w, "snapshot", t)
      BY <1>4, <1>5
    <2>2. /\ Running(w) /\ Left(w) >= 2
          /\ Running(w)' /\ tx'[w].op = tx[w].op
          /\ \A u \in Workers : ScriptOK(u)'
          /\ Left(w) = 3 => "snapshot" = "audit"
      BY <1>3, <2>1, ScriptStep
    <2> QED BY <2>2
  <1>7. /\ tx' \in [Workers -> Txs]
        /\ \A u \in Workers \ {w} : tx'[u] = tx[u]
        /\ tx'[w] = [t EXCEPT !.todo = Tail(tx[w].todo)]
        /\ Left(w) \in Nat /\ Left(w) >= 1 /\ Left(w)' = Left(w) - 1
        /\ tx[w].todo[1] = "snapshot"
        /\ \A i \in 1..Left(w) - 1 : tx'[w].todo[i] = tx[w].todo[i + 1]
    BY <1>1, <1>3, <1>4, RunFacts
  <1>8. Typed'
    BY <1>1, <1>4, <1>7 DEF Typed
  <1>9. /\ tx'[w].seqs = tx[w].seqs /\ tx'[w].built = Manifest(View(w))
        /\ tx'[w].target = tx[w].target /\ tx'[w].canary = tx[w].canary
        /\ tx'[w].actives = tx[w].actives /\ tx'[w].writes = tx[w].writes
    BY <1>3, <1>5, <1>7 DEF Txs
  <1>10. chain' = chain /\ rows' = rows /\ auditLock' = auditLock
    BY <1>4
  <1>11. NumbersOK(w)'
    <2>1. NumbersOK(w)
      BY DEF TxnIInv
    <2>2. Left(w)' <= 2 => Left(w) <= 2
      BY <1>6, <1>7
    <2> QED BY <2>1, <2>2, <1>6, <1>9, <1>10, Zenon DEF NumbersOK
  <1>12. View(w)' = View(w)
    BY <1>9, <1>10, Zenon DEF View
  <1>13. BuiltOK(w)'
    BY <1>9, <1>12, Zenon DEF BuiltOK
  <1>14. ASSUME NEW u \in Workers \ {w} PROVE NumbersOK(u)' /\ BuiltOK(u)'
    <2>1. tx'[u] = tx[u] /\ NumbersOK(u) /\ BuiltOK(u)
      BY <1>7 DEF TxnIInv
    <2>2. NumbersOK(u)'
      BY <2>1, <1>10, Zenon DEF NumbersOK, Running, Left
    <2>3. BuiltOK(u)'
      BY <2>1, <1>10, Zenon DEF BuiltOK, Running, Left, View
    <2> QED BY <2>2, <2>3
  <1>15. FreshOK'
    <2>1. ASSUME NEW u \in Workers
          PROVE  /\ tx'[u].target = tx[u].target /\ tx'[u].canary = tx[u].canary
                 /\ tx'[u].actives = tx[u].actives /\ tx'[u].writes = tx[u].writes
      BY <1>7, <1>9
    <2>2. created' = created /\ rows' = rows /\ FreshOK
      BY <1>4 DEF TxnIInv
    <2> QED BY <2>1, <2>2 DEF FreshOK
  <1>16. SnapshotIsExact' /\ ChainIsLinear'
    BY <1>4 DEF TxnIInv, SnapshotIsExact, ChainIsLinear
  <1> QED BY <1>6, <1>8, <1>11, <1>13, <1>14, <1>15, <1>16 DEF TxnIInv

LEMMA TxFacts ==
    ASSUME TxnIInv, NEW w \in Workers
    PROVE  /\ Typed /\ created \in 0..MaxVersions
           /\ tx[w] \in Txs /\ tx[w].writes \in Writes
           /\ tx[w].target \in RowIds /\ tx[w].target <= created
           /\ tx[w].canary \in RowIds /\ tx[w].canary <= created
           /\ tx[w].actives \subseteq Ids /\ \A v \in tx[w].actives : v <= created
           /\ DOMAIN tx[w].writes \subseteq RowIds
           /\ \A v \in DOMAIN tx[w].writes : v = KillSwitch \/ v <= created
  <1>1. Typed /\ created \in 0..MaxVersions /\ tx[w] \in Txs /\ tx[w].writes \in Writes
    BY DEF TxnIInv, Typed, Txs
  <1>2. tx[w].target \in RowIds /\ tx[w].canary \in RowIds /\ tx[w].actives \subseteq Ids
    BY <1>1 DEF Txs, RowIds, Ids, KillSwitch
  <1>3. tx[w].target <= created /\ tx[w].canary <= created
        /\ \A v \in tx[w].actives : v <= created
    BY DEF TxnIInv, FreshOK
  <1>4. DOMAIN tx[w].writes \subseteq RowIds
    BY <1>1, WritesFacts
  <1>5. ASSUME NEW v \in DOMAIN tx[w].writes, v # KillSwitch PROVE v <= created
    <2>1. v \in Ids
      BY <1>4, <1>5 DEF RowIds
    <2>2. ~(v > created)
      BY <2>1 DEF TxnIInv, FreshOK
    <2> QED BY <1>1, <2>1, <2>2 DEF Ids
  <1> QED BY <1>1, <1>2, <1>3, <1>4, <1>5

(* No transaction sees a version that was not created yet.                  *)
LEMMA SeenFacts ==
    ASSUME TxnIInv, NEW w \in Workers, NEW v \in Ids, View(w)[v].status # "none"
    PROVE  v <= created
  <1>1. Typed /\ created \in Nat
    BY TxFacts
  <1>2. SUFFICES ASSUME v > created PROVE FALSE
    BY <1>1 DEF Ids
  <1>3. rows[v] = NewRow("none") /\ v \notin DOMAIN tx[w].writes
    BY <1>2 DEF TxnIInv, FreshOK
  <1>4. View(w)[v] = rows[v]
    BY <1>1, <1>3, ViewFacts DEF RowIds
  <1> QED BY <1>3, <1>4 DEF NewRow

LEMMA FindStep ==
    ASSUME TxnIInv, NEW w \in Workers, NEW s, s \notin {"audit", "snapshot", "commit"},
           NEW t \in Txs, Find(w, s, t), t.op = tx[w].op, t.seqs = tx[w].seqs,
           t.writes = tx[w].writes, t.target <= created, t.canary <= created,
           \A v \in t.actives : v <= created
    PROVE  TxnIInv'
  <1>1. Run(w, s, t) /\ created' = created
        /\ UNCHANGED <<rows, frozen, auditLock, chain, snapshot>>
    BY DEF Find
  <1>2. created' \in created..MaxVersions
    BY <1>1, TxFacts
  <1>3. \A v \in DOMAIN t.writes : v = KillSwitch \/ v <= created'
    BY <1>1, TxFacts
  <1> QED BY <1>1, <1>2, <1>3, StatementStep

LEMMA WriteStep ==
    ASSUME TxnIInv, NEW w \in Workers, NEW s, s \notin {"audit", "snapshot", "commit"},
           NEW f \in Writes, Find(w, s, [tx[w] EXCEPT !.writes = f]),
           \A v \in DOMAIN f : v = KillSwitch \/ v <= created
    PROVE  TxnIInv'
  <1>1. tx[w] \in Txs
    BY TxFacts
  <1>2. PICK t \in Txs : t = [tx[w] EXCEPT !.writes = f]
    BY <1>1 DEF Txs
  <1>3. /\ t.op = tx[w].op /\ t.seqs = tx[w].seqs /\ t.writes = f
        /\ t.target = tx[w].target /\ t.canary = tx[w].canary /\ t.actives = tx[w].actives
    BY <1>1, <1>2 DEF Txs
  <1>4. Run(w, s, t) /\ created' = created
        /\ UNCHANGED <<rows, frozen, auditLock, chain, snapshot>>
    BY <1>2 DEF Find
  <1>5. created' \in created..MaxVersions
    BY <1>4, TxFacts
  <1>6. t.target <= created' /\ t.canary <= created' /\ \A v \in t.actives : v <= created'
    BY <1>3, <1>4, TxFacts
  <1>7. \A v \in DOMAIN t.writes : v = KillSwitch \/ v <= created'
    BY <1>3, <1>4
  <1> QED BY <1>3, <1>4, <1>5, <1>6, <1>7, StatementStep

LEMMA UpdateStep ==
    ASSUME TxnIInv, NEW w \in Workers, NEW s, s \notin {"audit", "snapshot", "commit"},
           NEW v \in RowIds, v = KillSwitch \/ v <= created, NEW row \in Row,
           Update(w, s, v, row)
    PROVE  TxnIInv'
  <1> DEFINE f == Over([u \in {v} |-> row], tx[w].writes)
  <1>1. tx[w].writes \in Writes /\ \A x \in DOMAIN tx[w].writes : x = KillSwitch \/ x <= created
    BY TxFacts
  <1>2. f \in Writes /\ DOMAIN f = DOMAIN tx[w].writes \cup {v}
    <2>1. PICK g \in Writes : g = tx[w].writes
      BY <1>1
    <2>2. /\ Over([u \in {v} |-> row], g) \in Writes
          /\ DOMAIN Over([u \in {v} |-> row], g) = DOMAIN g \cup {v}
      BY WriteFacts
    <2> QED BY <2>1, <2>2, Zenon
  <1>3. Find(w, s, [tx[w] EXCEPT !.writes = f])
    BY DEF Update
  <1>4. \A x \in DOMAIN f : x = KillSwitch \/ x <= created
    BY <1>1, <1>2
  <1> HIDE DEF f
  <1> QED BY <1>2, <1>3, <1>4, WriteStep

LEMMA InsertStep ==
    ASSUME TxnIInv, NEW w \in Workers, NEW s, s \notin {"audit", "snapshot", "commit"},
           NEW given \in Statuses, Insert(w, s, given)
    PROVE  TxnIInv'
  <1> DEFINE f == Over([u \in {created'} |-> NewRow(given)], tx[w].writes)
             t == [tx[w] EXCEPT !.writes = f]
  <1>1. /\ tx[w] \in Txs /\ tx[w].writes \in Writes /\ created \in 0..MaxVersions
        /\ \A x \in DOMAIN tx[w].writes : x = KillSwitch \/ x <= created
        /\ DOMAIN tx[w].writes \subseteq RowIds
    BY TxFacts
  <1>2. /\ created' = created + 1 /\ created' \in created..MaxVersions
        /\ created' \in RowIds
    BY <1>1 DEF Insert, RowIds, Ids
  <1>3. NewRow(given) \in Row
    BY DEF NewRow, Row
  <1>4. f \in Writes /\ DOMAIN f = DOMAIN tx[w].writes \cup {created'}
    <2>1. PICK g \in Writes, n \in RowIds, row \in Row :
             g = tx[w].writes /\ n = created' /\ row = NewRow(given)
      BY <1>1, <1>2, <1>3
    <2>2. /\ Over([u \in {n} |-> row], g) \in Writes
          /\ DOMAIN Over([u \in {n} |-> row], g) = DOMAIN g \cup {n}
      BY WriteFacts
    <2> QED BY <2>1, <2>2, Zenon
  <1>5. \A x \in DOMAIN f : x = KillSwitch \/ x <= created'
    BY <1>1, <1>2, <1>4 DEF RowIds, Ids
  <1>6. Run(w, s, t) /\ UNCHANGED <<rows, frozen, auditLock, chain, snapshot>>
    BY DEF Insert
  <1> HIDE DEF f
  <1>7. /\ t \in Txs /\ t.op = tx[w].op /\ t.seqs = tx[w].seqs /\ t.writes = f
        /\ t.target = tx[w].target /\ t.canary = tx[w].canary /\ t.actives = tx[w].actives
    BY <1>1, <1>4 DEF Txs
  <1> HIDE DEF t
  <1>8. t.target <= created' /\ t.canary <= created' /\ \A x \in t.actives : x <= created'
    <2>1. /\ tx[w].target \in RowIds /\ tx[w].target <= created
          /\ tx[w].canary \in RowIds /\ tx[w].canary <= created
          /\ tx[w].actives \subseteq Ids /\ \A v \in tx[w].actives : v <= created
      BY TxFacts
    <2> QED BY <1>1, <1>2, <1>7, <2>1 DEF RowIds, Ids, KillSwitch
  <1> QED BY <1>2, <1>5, <1>6, <1>7, <1>8, StatementStep

--------------------------------------------------------------------------------
LEMMA SeenIds ==
    ASSUME TxnIInv, NEW w \in Workers, NEW s, s # "none", NEW v \in Seen(w, s)
    PROVE  v \in Ids /\ v <= created
  <1>1. v \in Ids /\ View(w)[v].status = s
    BY DEF Seen
  <1> QED BY <1>1, SeenFacts

LEMMA ReadsOK ==
    ASSUME TxnIInv, NEW w \in Workers,
           NeedActive(w) \/ NeedCanary(w) \/ FindCanary(w) \/ RunningCanary(w)
             \/ FindTarget(w) \/ FindEarlier(w) \/ TargetCanary(w) \/ ScanActive(w)
    PROVE  TxnIInv'
  <1>1. /\ tx[w] \in Txs /\ created \in 0..MaxVersions
        /\ tx[w].target <= created /\ tx[w].canary <= created
        /\ \A v \in tx[w].actives : v <= created
    BY TxFacts
  <1>2. ASSUME NEW s, s \notin {"audit", "snapshot", "commit"}, Find(w, s, tx[w])
        PROVE  TxnIInv'
    BY <1>1, <1>2, FindStep
  <1>3. ASSUME NEW s, s \notin {"audit", "snapshot", "commit"}, NEW v \in 0..MaxVersions,
               v <= created, Find(w, s, [tx[w] EXCEPT !.canary = v])
        PROVE  TxnIInv'
    <2>1. PICK t : t = [tx[w] EXCEPT !.canary = v]
      OBVIOUS
    <2>2. /\ t \in Txs /\ t.op = tx[w].op /\ t.seqs = tx[w].seqs /\ t.writes = tx[w].writes
          /\ t.target = tx[w].target /\ t.canary = v /\ t.actives = tx[w].actives
      BY <1>1, <2>1 DEF Txs
    <2>3. Find(w, s, t) /\ t.target <= created /\ t.canary <= created
          /\ \A x \in t.actives : x <= created
      BY <1>1, <1>3, <2>1, <2>2
    <2> QED BY <1>3, <2>2, <2>3, FindStep
  <1>4. ASSUME NEW s, s \notin {"audit", "snapshot", "commit"}, NEW v \in 0..MaxVersions,
               v <= created, Find(w, s, [tx[w] EXCEPT !.target = v])
        PROVE  TxnIInv'
    <2>1. PICK t : t = [tx[w] EXCEPT !.target = v]
      OBVIOUS
    <2>2. /\ t \in Txs /\ t.op = tx[w].op /\ t.seqs = tx[w].seqs /\ t.writes = tx[w].writes
          /\ t.target = v /\ t.canary = tx[w].canary /\ t.actives = tx[w].actives
      BY <1>1, <2>1 DEF Txs
    <2>3. Find(w, s, t) /\ t.target <= created /\ t.canary <= created
          /\ \A x \in t.actives : x <= created
      BY <1>1, <1>4, <2>1, <2>2
    <2> QED BY <1>4, <2>2, <2>3, FindStep
  <1>5. ASSUME NEW s, s # "none", NEW v \in First(Seen(w, s))
        PROVE  v \in 0..MaxVersions /\ v <= created
    <2>1. CASE Seen(w, s) = {}
      BY <1>1, <2>1, <1>5 DEF First
    <2>2. CASE Seen(w, s) # {}
      BY <1>1, <2>2, <1>5, SeenIds DEF First, Ids
    <2> QED BY <2>1, <2>2
  <1>6. ASSUME NEW s, s # "none", NEW v \in Seen(w, s)
        PROVE  v \in 0..MaxVersions /\ v <= created
    BY <1>6, SeenIds DEF Ids
  <1>7. CASE NeedActive(w)
    BY <1>2, <1>7 DEF NeedActive
  <1>8. CASE NeedCanary(w)
    BY <1>2, <1>8 DEF NeedCanary
  <1>9. CASE FindCanary(w)
    <2>1. PICK v \in First(Seen(w, "canary")) : Find(w, "findCanary", [tx[w] EXCEPT !.canary = v])
      BY <1>9 DEF FindCanary
    <2> QED BY <2>1, <1>3, <1>5
  <1>10. CASE RunningCanary(w)
    <2>1. PICK v \in Seen(w, "canary") : Find(w, "runningCanary", [tx[w] EXCEPT !.canary = v])
      BY <1>10 DEF RunningCanary
    <2> QED BY <2>1, <1>3, <1>6
  <1>11. CASE FindTarget(w)
    <2>1. PICK v \in Seen(w, "inactive") : Find(w, "findTarget", [tx[w] EXCEPT !.target = v])
      BY <1>11 DEF FindTarget
    <2> QED BY <2>1, <1>4, <1>6
  <1>12. CASE FindEarlier(w)
    <2>1. PICK v \in Seen(w, "inactive") \cup Seen(w, "canary") :
             Find(w, "findEarlier", [tx[w] EXCEPT !.target = v])
      BY <1>12 DEF FindEarlier
    <2>2. v \in 0..MaxVersions /\ v <= created
      BY <1>6
    <2> QED BY <2>1, <2>2, <1>4
  <1>13. CASE TargetCanary(w)
    <2>1. PICK v \in Seen(w, "canary") : Find(w, "targetCanary", [tx[w] EXCEPT !.target = v])
      BY <1>13 DEF TargetCanary
    <2> QED BY <2>1, <1>4, <1>6
  <1>14. CASE ScanActive(w)
    <2>1. PICK S : S = {v \in Ids : View(w)[v].status = "active"}
      OBVIOUS
    <2>2. PICK t : t = [tx[w] EXCEPT !.actives = S]
      OBVIOUS
    <2>3. S \subseteq Ids /\ \A v \in S : v <= created
      BY <2>1, SeenFacts
    <2>4. /\ t \in Txs /\ t.op = tx[w].op /\ t.seqs = tx[w].seqs /\ t.writes = tx[w].writes
          /\ t.target = tx[w].target /\ t.canary = tx[w].canary /\ t.actives = S
      BY <1>1, <2>2, <2>3 DEF Txs
    <2>5. Find(w, "scanActive", t)
      BY <1>14, <2>1, <2>2, Zenon DEF ScanActive
    <2>6. t.target <= created /\ t.canary <= created /\ \A v \in t.actives : v <= created
      BY <1>1, <2>3, <2>4
    <2> QED BY <2>4, <2>5, <2>6, FindStep
  <1> QED BY <1>7, <1>8, <1>9, <1>10, <1>11, <1>12, <1>13, <1>14

LEMMA RowChanges ==
    ASSUME NEW row \in Row, NEW s \in Statuses
    PROVE  /\ [row EXCEPT !.status = s] \in Row
           /\ [row EXCEPT !.status = s, !.activated = TRUE] \in Row
           /\ [row EXCEPT !.deleted = TRUE] \in Row
  BY DEF Row

LEMMA WritesOK ==
    ASSUME TxnIInv, NEW w \in Workers,
           EndCanary(w) \/ Deactivate(w) \/ InsertActive(w) \/ InsertCanary(w)
             \/ MakeActive(w) \/ MakeCanary(w) \/ Toggle(w)
    PROVE  TxnIInv'
  <1>1. /\ Typed /\ tx[w] \in Txs /\ tx[w].writes \in Writes
        /\ tx[w].target \in RowIds /\ tx[w].target <= created
        /\ tx[w].canary \in RowIds /\ tx[w].canary <= created
        /\ tx[w].actives \subseteq Ids /\ \A v \in tx[w].actives : v <= created
        /\ \A v \in DOMAIN tx[w].writes : v = KillSwitch \/ v <= created
    BY TxFacts
  <1>2. \A v \in RowIds : View(w)[v] \in Row
    BY <1>1, ViewFacts
  <1>3. CASE EndCanary(w)
    <2>1. CASE tx[w].canary = 0
      <3>1. Find(w, "endCanary", tx[w])
        BY <1>3, <2>1 DEF EndCanary
      <3> QED BY <1>1, <3>1, FindStep
    <2>2. CASE tx[w].canary # 0
      <3>1. PICK v \in RowIds : v = tx[w].canary
        BY <1>1
      <3>2. Update(w, "endCanary", v, [View(w)[v] EXCEPT !.status = "inactive"])
        BY <1>3, <2>2, <3>1 DEF EndCanary
      <3>3. PICK row \in Row : row = [View(w)[v] EXCEPT !.status = "inactive"]
        BY <1>2, RowChanges DEF Statuses
      <3> QED BY <1>1, <3>1, <3>2, <3>3, UpdateStep
    <2> QED BY <2>1, <2>2
  <1>4. CASE Deactivate(w)
    <2>1. PICK still : still = {v \in tx[w].actives : View(w)[v].status = "active"}
      OBVIOUS
    <2>2. PICK g : g = [v \in still |-> [View(w)[v] EXCEPT !.status = "inactive"]]
      OBVIOUS
    <2>3. g \in [still -> Row]
      <3>1. \A v \in still : [View(w)[v] EXCEPT !.status = "inactive"] \in Row
        <4>1. \A v \in still : v \in RowIds
          BY <1>1, <2>1 DEF RowIds
        <4> QED BY <4>1, <1>2, RowChanges DEF Statuses
      <3> QED BY <2>2, <3>1
    <2>4. still \subseteq RowIds /\ \A v \in still : v <= created
      BY <1>1, <2>1 DEF RowIds
    <2>5. g \in Writes /\ DOMAIN g = still
      BY <2>3, <2>4 DEF Writes
    <2>6. PICK f : f = Over(g, tx[w].writes)
      OBVIOUS
    <2>7. f \in Writes /\ DOMAIN f = still \cup DOMAIN tx[w].writes
      BY <1>1, <2>5, <2>6, OverFacts
    <2>8. Find(w, "deactivate", [tx[w] EXCEPT !.writes = f])
      BY <1>4, <2>1, <2>2, <2>6, Zenon DEF Deactivate
    <2>9. \A v \in DOMAIN f : v = KillSwitch \/ v <= created
      BY <1>1, <2>4, <2>7
    <2> QED BY <2>7, <2>8, <2>9, WriteStep
  <1>5. CASE InsertActive(w)
    BY <1>5, InsertStep DEF InsertActive, Statuses
  <1>6. CASE InsertCanary(w)
    BY <1>6, InsertStep DEF InsertCanary, Statuses
  <1>7. CASE MakeActive(w)
    <2>1. PICK v \in RowIds : v = tx[w].target
      BY <1>1
    <2>2. Update(w, "makeActive", v, [View(w)[v] EXCEPT !.status = "active", !.activated = TRUE])
      BY <1>7, <2>1 DEF MakeActive
    <2>3. PICK row \in Row : row = [View(w)[v] EXCEPT !.status = "active", !.activated = TRUE]
      BY <1>2, RowChanges DEF Statuses
    <2> QED BY <1>1, <2>1, <2>2, <2>3, UpdateStep
  <1>8. CASE MakeCanary(w)
    <2>1. PICK v \in RowIds : v = tx[w].target
      BY <1>1
    <2>2. Update(w, "makeCanary", v, [View(w)[v] EXCEPT !.status = "canary"])
      BY <1>8, <2>1 DEF MakeCanary
    <2>3. PICK row \in Row : row = [View(w)[v] EXCEPT !.status = "canary"]
      BY <1>2, RowChanges DEF Statuses
    <2> QED BY <1>1, <2>1, <2>2, <2>3, UpdateStep
  <1>9. CASE Toggle(w)
    <2>1. PICK s \in {"on", "off"} :
             Update(w, "toggle", KillSwitch, [View(w)[KillSwitch] EXCEPT !.status = s])
      BY <1>9 DEF Toggle
    <2>2. KillSwitch \in RowIds
      BY DEF RowIds
    <2>3. PICK row \in Row : row = [View(w)[KillSwitch] EXCEPT !.status = s]
      BY <1>2, <2>2, RowChanges DEF Statuses
    <2> QED BY <2>1, <2>2, <2>3, UpdateStep
  <1> QED BY <1>3, <1>4, <1>5, <1>6, <1>7, <1>8, <1>9

--------------------------------------------------------------------------------
LEMMA TxnInitOK == TxnInit => TxnIInv
  <1> SUFFICES ASSUME TxnInit PROVE TxnIInv
    OBVIOUS
  <1>1. NewRow("none") \in Row /\ NewRow("on") \in Row
    BY DEF NewRow, Row, Statuses
  <1>2. rows \in [RowIds -> Row]
    BY <1>1 DEF TxnInit
  <1>3. NoTx \in Txs
    <2>1. <<>> \in Seq(Steps) /\ <<>> \in Seq(Nat)
      OBVIOUS
    <2>2. <<>> \in Writes
      <3>1. <<>> \in [{} -> Row] /\ {} \subseteq RowIds
        OBVIOUS
      <3> QED BY <3>1 DEF Writes
    <2> QED BY <2>1, <2>2 DEF NoTx, Txs
  <1>4. tx \in [Workers -> Txs] /\ \A w \in Workers : tx[w] = NoTx
    BY <1>3 DEF TxnInit
  <1>5. Manifest(rows) = {}
    BY DEF TxnInit, Manifest, NewRow
  <1>6. Typed
    <2>1. created \in 0..MaxVersions /\ frozen \in BOOLEAN
          /\ auditLock \in Workers \cup {NoWorker}
      <3>1. created = 0 /\ frozen = FALSE /\ auditLock = NoWorker
        BY DEF TxnInit
      <3>2. 0 \in 0..MaxVersions
        OBVIOUS
      <3>3. FALSE \in BOOLEAN
        OBVIOUS
      <3> QED BY <3>1, <3>2, <3>3, Zenon
    <2>2. chain \in Seq(Nat) /\ snapshot \subseteq RowIds \X Statuses
      BY DEF TxnInit
    <2> QED BY <1>2, <1>4, <2>1, <2>2 DEF Typed
  <1>7. \A w \in Workers : ScriptOK(w) /\ NumbersOK(w) /\ BuiltOK(w)
    BY <1>4 DEF ScriptOK, NumbersOK, BuiltOK, Running, NoTx
  <1>8. FreshOK
    <2>1. \A v \in Ids : rows[v] = NewRow("none")
      BY DEF TxnInit, RowIds, Ids, KillSwitch
    <2>2. \A w \in Workers : /\ tx[w].target = 0 /\ tx[w].canary = 0
                             /\ tx[w].actives = {} /\ DOMAIN tx[w].writes = {}
      BY <1>4 DEF NoTx
    <2>3. created = 0
      BY DEF TxnInit
    <2> QED BY <2>1, <2>2, <2>3 DEF FreshOK
  <1>9. SnapshotIsExact /\ ChainIsLinear
    BY <1>5 DEF TxnInit, SnapshotIsExact, ChainIsLinear
  <1> QED BY <1>6, <1>7, <1>8, <1>9 DEF TxnIInv

(* An operation starts with its whole script.                               *)
LEMMA PrefixFacts ==
    ASSUME NEW op \in Ops, NEW first \in {<<>>, <<"auditOverride">>},
           NEW q, q = first \o Program[op] \o Recorded
    PROVE  /\ q \in Seq(Steps)
           /\ Len(q) \in 1..Len(Script(op)) + 1 /\ Len(q) > 3
           /\ Len(q) = Len(first) + Len(Script(op))
           /\ \A i \in 1..Len(q) :
                 q[i] = IF i + Len(Script(op)) = Len(q) THEN "auditOverride"
                        ELSE Script(op)[i + Len(Script(op)) - Len(q)]
  <1>1. /\ Program[op] \in Seq(Steps) /\ Script(op) \in Seq(Steps)
        /\ Len(Program[op]) \in Nat
        /\ Len(Script(op)) \in Nat /\ Len(Script(op)) >= 4
    BY ScriptFacts
  <1>2. first \in Seq(Steps)
    <2>1. <<>> \in Seq(Steps)
      OBVIOUS
    <2>2. <<"auditOverride">> \in Seq(Steps)
      BY DEF Steps
    <2> QED BY <2>1, <2>2
  <1>3. Recorded \in Seq(Steps)
    BY DEF Recorded, Steps
  <1>4. PICK p, r, script : p = Program[op] /\ r = Recorded /\ script = Script(op)
    OBVIOUS
  <1>5. p \in Seq(Steps) /\ r \in Seq(Steps) /\ script \in Seq(Steps)
        /\ script = p \o r /\ q = (first \o p) \o r
    BY <1>1, <1>3, <1>4 DEF Script
  <1>6. q = first \o script
    <2>1. p \in Seq(Steps) /\ r \in Seq(Steps)
      BY <1>5
    <2>2. (first \o p) \o r = first \o (p \o r)
      BY <1>2, <2>1, ConcatAssociative
    <2> QED BY <1>5, <2>2, Zenon
  <1>7. /\ q \in Seq(Steps)
        /\ Len(q) = Len(first) + Len(script)
        /\ \A i \in 1..Len(first) + Len(script) :
              q[i] = IF i <= Len(first) THEN first[i] ELSE script[i - Len(first)]
    <2>1. script \in Seq(Steps)
      BY <1>5
    <2>2. /\ first \o script \in Seq(Steps)
          /\ Len(first \o script) = Len(first) + Len(script)
          /\ \A i \in 1..Len(first) + Len(script) :
              (first \o script)[i] = IF i <= Len(first) THEN first[i] ELSE script[i - Len(first)]
      BY <1>2, <2>1, ConcatProperties, Zenon
    <2> QED BY <1>6, <2>2
  <1>8. Len(script) \in Nat /\ Len(script) >= 4
    BY <1>1, <1>4
  <1>9. CASE first = <<>>
    <2>1. Len(first) = 0
      BY <1>9
    <2>2. Len(q) = Len(script)
      BY <1>7, <1>8, <2>1
    <2>3. ASSUME NEW i \in 1..Len(q)
          PROVE  q[i] = script[i + Len(script) - Len(q)] /\ i + Len(script) # Len(q)
      <3>1. i \in Int /\ ~(i <= 0) /\ i - 0 = i /\ i \in 1..0 + Len(script)
            /\ i + Len(script) - Len(q) = i /\ i + Len(script) # Len(q)
        BY <1>8, <2>2
      <3>2. i \in 1..Len(first) + Len(script) /\ ~(i <= Len(first)) /\ i - Len(first) = i
        BY <2>1, <3>1
      <3>3. q[i] = script[i]
        BY <1>7, <3>2, Zenon
      <3> QED BY <3>1, <3>3, Zenon
    <2>4. Len(q) \in 1..Len(script) + 1 /\ Len(q) > 3
      BY <1>8, <2>2
    <2>5. Len(q) = Len(first) + Len(script)
      BY <1>7
    <2> QED BY <1>4, <1>7, <2>3, <2>4, <2>5, Zenon
  <1>10. CASE first = <<"auditOverride">>
    <2>1. Len(first) = 1 /\ first[1] = "auditOverride"
      BY <1>10
    <2>2. Len(q) = Len(script) + 1
      BY <1>7, <1>8, <2>1
    <2>3. ASSUME NEW i \in 1..Len(q)
          PROVE  q[i] = IF i + Len(script) = Len(q) THEN "auditOverride"
                        ELSE script[i + Len(script) - Len(q)]
      <3>1. i \in 1..1 + Len(script) /\ i \in Int
            /\ (i <= 1 <=> i + Len(script) = Len(q)) /\ (i <= 1 => i = 1)
            /\ i + Len(script) - Len(q) = i - 1
        BY <1>8, <2>2
      <3>2. q[i] = IF i <= 1 THEN first[i] ELSE script[i - 1]
        BY <1>7, <2>1, <3>1, Zenon
      <3> QED BY <2>1, <3>1, <3>2, Zenon
    <2>4. Len(q) \in 1..Len(script) + 1 /\ Len(q) > 3
      BY <1>8, <2>2
    <2>5. Len(q) = Len(first) + Len(script)
      BY <1>7
    <2> QED BY <1>4, <1>7, <2>3, <2>4, <2>5, Zenon
  <1> QED BY <1>9, <1>10

--------------------------------------------------------------------------------
(* A transaction that others run beside: only whether it is alone changes.  *)
Same(u) ==
    /\ tx'[u].op = tx[u].op /\ tx'[u].todo = tx[u].todo
    /\ tx'[u].target = tx[u].target /\ tx'[u].canary = tx[u].canary
    /\ tx'[u].actives = tx[u].actives /\ tx'[u].writes = tx[u].writes
    /\ tx'[u].seqs = tx[u].seqs /\ tx'[u].built = tx[u].built
    /\ tx[u].op = "none" => tx'[u] = tx[u]

LEMMA OverlappedFacts ==
    ASSUME Typed
    PROVE  /\ Overlapped(tx) \in [Workers -> Txs]
           /\ \A u \in Workers :
                 /\ tx[u].op = "none" => Overlapped(tx)[u] = tx[u]
                 /\ tx[u].op # "none" => Overlapped(tx)[u] = [tx[u] EXCEPT !.alone = FALSE]
  <1>1. tx \in [Workers -> Txs]
    BY DEF Typed
  <1>2. \A u \in Workers : [tx[u] EXCEPT !.alone = FALSE] \in Txs
    BY <1>1 DEF Txs
  <1> QED BY <1>1, <1>2 DEF Overlapped

LEMMA SameOverlapped ==
    ASSUME Typed, NEW u \in Workers, tx'[u] = Overlapped(tx)[u]
    PROVE  Same(u)
  <1>1. tx[u] \in Txs
    BY DEF Typed
  <1>2. CASE tx[u].op = "none"
    BY <1>2, OverlappedFacts DEF Same
  <1>3. CASE tx[u].op # "none"
    <2>1. tx'[u] = [tx[u] EXCEPT !.alone = FALSE]
      BY <1>3, OverlappedFacts
    <2> QED BY <1>1, <1>3, <2>1 DEF Same, Txs
  <1> QED BY <1>2, <1>3

LEMMA CarriedOver ==
    ASSUME TxnIInv, NEW u \in Workers, Same(u),
           tx[u].seqs = <<>> \/ (chain' = chain /\ auditLock' = u),
           tx[u].seqs = <<>> \/ Manifest(View(u))' = Manifest(View(u))
    PROVE  ScriptOK(u)' /\ NumbersOK(u)' /\ BuiltOK(u)'
  <1>1. ScriptOK(u) /\ NumbersOK(u) /\ BuiltOK(u)
    BY DEF TxnIInv
  <1>2. ScriptOK(u)'
    BY <1>1, Zenon DEF ScriptOK, Running, Left, Same
  <1>3. NumbersOK(u)'
    <2>1. CASE tx[u].seqs = <<>>
      <3>1. tx'[u].seqs = <<>> /\ tx'[u].op = tx[u].op /\ tx'[u].todo = tx[u].todo
        BY <2>1 DEF Same
      <3>2. ~(Running(u) /\ Left(u) <= 2)
        BY <1>1, <2>1 DEF NumbersOK
      <3>3. ~(Running(u)' /\ Left(u)' <= 2)
        BY <3>1, <3>2, Zenon DEF Running, Left
      <3>4. \A i \in 1..Len(tx'[u].seqs) : FALSE
        BY <3>1
      <3> QED BY <3>1, <3>3, <3>4 DEF NumbersOK
    <2>2. CASE chain' = chain /\ auditLock' = u
      BY <1>1, <2>2, Zenon DEF NumbersOK, Running, Left, Same
    <2> QED BY <2>1, <2>2
  <1>4. BuiltOK(u)'
    <2>1. CASE tx[u].seqs = <<>>
      <3>1. ~(Running(u) /\ Left(u) <= 2)
        BY <1>1, <2>1 DEF NumbersOK
      <3>2. ~(Running(u) /\ Left(u) = 1)
        BY <3>1
      <3> QED BY <3>2, Zenon DEF BuiltOK, Running, Left, Same
    <2>2. CASE Manifest(View(u))' = Manifest(View(u))
      BY <1>1, <2>2, Zenon DEF BuiltOK, Running, Left, Same
    <2> QED BY <2>1, <2>2
  <1> QED BY <1>2, <1>3, <1>4

LEMMA BeginOK ==
    ASSUME TxnIInv, NEW w \in Workers, NEW op \in Ops, NEW override, Begin(w, op, override)
    PROVE  TxnIInv'
  <1>1. Typed /\ tx \in [Workers -> Txs]
    BY DEF TxnIInv, Typed
  <1>2. PICK overridden \in BOOLEAN : overridden = (frozen /\ op # "killSwitch")
    BY <1>1 DEF Typed
  <1>3. PICK alone \in BOOLEAN : alone = \A u \in Workers : tx[u] = NoTx
    OBVIOUS
  <1>4. PICK first \in {<<>>, <<"auditOverride">>} :
           first = IF overridden THEN <<"auditOverride">> ELSE <<>>
    OBVIOUS
  <1>5. PICK q : q = first \o Program[op] \o Recorded
    OBVIOUS
  <1>6. PICK t : t = [NoTx EXCEPT !.op = op, !.alone = alone, !.override = overridden, !.todo = q]
    OBVIOUS
  <1>7. tx' = [Overlapped(tx) EXCEPT ![w] = t]
    BY <1>2, <1>3, <1>4, <1>5, <1>6, Zenon DEF Begin
  <1>8. q \in Seq(Steps)
        /\ Len(q) \in 1..Len(Script(op)) + 1
        /\ \A i \in 1..Len(q) :
              q[i] = IF i + Len(Script(op)) = Len(q) THEN "auditOverride"
                     ELSE Script(op)[i + Len(Script(op)) - Len(q)]
    BY <1>5, PrefixFacts
  <1>9. /\ t.op = op /\ t.todo = q /\ t.target = 0 /\ t.canary = 0 /\ t.actives = {}
        /\ t.writes = <<>> /\ t.seqs = <<>> /\ t.built = {}
    BY <1>6 DEF NoTx
  <1>10. t \in Txs
    <2>1. <<>> \in Seq(Nat)
      OBVIOUS
    <2>2. <<>> \in Writes
      <3>1. <<>> \in [{} -> Row] /\ {} \subseteq RowIds
        OBVIOUS
      <3> QED BY <3>1 DEF Writes
    <2>3. NoTx \in Txs
      <3>1. <<>> \in Seq(Steps) /\ 0 \in 0..MaxVersions /\ {} \subseteq Ids
        OBVIOUS
      <3> QED BY <2>1, <2>2, <3>1 DEF NoTx, Txs
    <2>4. PICK n \in Txs : n = NoTx
      BY <2>3
    <2>5. t = [n EXCEPT !.op = op, !.alone = alone, !.override = overridden, !.todo = q]
      BY <1>6, <2>4, Zenon
    <2> QED BY <1>8, <2>5 DEF Txs
  <1>11. /\ tx' \in [Workers -> Txs] /\ tx'[w] = t
         /\ \A u \in Workers \ {w} : Same(u)
    <2>1. tx' \in [Workers -> Txs] /\ tx'[w] = t
          /\ \A u \in Workers \ {w} : tx'[u] = Overlapped(tx)[u]
      BY <1>1, <1>7, <1>10, OverlappedFacts
    <2> QED BY <1>1, <2>1, SameOverlapped
  <1>12. UNCHANGED <<rows, created, frozen, auditLock, chain, snapshot>>
    BY DEF Begin
  <1>13. Typed'
    BY <1>1, <1>11, <1>12 DEF Typed
  <1>14. ScriptOK(w)'
    <2>1. Running(w)'
      <3>1. op # "none"
        BY DEF Ops, Program
      <3> QED BY <1>9, <1>11, <3>1 DEF Running
    <2> QED BY <1>8, <1>9, <1>11, <2>1, Zenon DEF ScriptOK, Left
  <1>15. NumbersOK(w)' /\ BuiltOK(w)'
    <2>1. Len(q) > 3
      BY <1>5, PrefixFacts
    <2>2. Left(w)' > 2 /\ tx'[w].seqs = <<>>
      BY <1>9, <1>11, <2>1 DEF Left
    <2>3. ~(Left(w)' <= 2) /\ ~(Left(w)' = 1)
      BY <1>8, <1>9, <1>11, <2>1 DEF Left
    <2> QED BY <2>2, <2>3 DEF NumbersOK, BuiltOK
  <1>16. ASSUME NEW u \in Workers \ {w} PROVE ScriptOK(u)' /\ NumbersOK(u)' /\ BuiltOK(u)'
    <2>1. Same(u) /\ NumbersOK(u) /\ auditLock' = auditLock /\ chain' = chain /\ rows' = rows
      BY <1>11, <1>12 DEF TxnIInv
    <2>2. Manifest(View(u))' = Manifest(View(u))
      BY <2>1, Zenon DEF Same, View
    <2>3. tx[u].seqs = <<>> \/ (chain' = chain /\ auditLock' = u)
      BY <2>1 DEF NumbersOK
    <2> QED BY <2>1, <2>2, <2>3, CarriedOver
  <1>17. FreshOK'
    <2>1. created \in 0..MaxVersions
      BY <1>1 DEF Typed
    <2>2. ASSUME NEW u \in Workers
          PROVE  /\ tx'[u].target <= created /\ tx'[u].canary <= created
                 /\ \A v \in tx'[u].actives : v <= created
                 /\ \A v \in Ids : v > created => v \notin DOMAIN tx'[u].writes
      <3>1. CASE u = w
        BY <3>1, <1>9, <1>11, <2>1
      <3>2. CASE u # w
        BY <3>2, <1>11 DEF TxnIInv, FreshOK, Same
      <3> QED BY <3>1, <3>2
    <2> QED BY <1>12, <2>2 DEF TxnIInv, FreshOK
  <1>18. SnapshotIsExact' /\ ChainIsLinear'
    BY <1>12 DEF TxnIInv, SnapshotIsExact, ChainIsLinear
  <1> QED BY <1>13, <1>14, <1>15, <1>16, <1>17, <1>18 DEF TxnIInv

LEMMA NoTxIsTx == NoTx \in Txs
  <1>1. <<>> \in Seq(Nat) /\ <<>> \in Seq(Steps) /\ 0 \in 0..MaxVersions /\ {} \subseteq Ids
    OBVIOUS
  <1>2. <<>> \in Writes
    <2>1. <<>> \in [{} -> Row] /\ {} \subseteq RowIds
      OBVIOUS
    <2> QED BY <2>1 DEF Writes
  <1> QED BY <1>1, <1>2 DEF NoTx, Txs

(* A transaction that has ended has left nothing of its own behind.         *)
LEMMA EndedOK ==
    ASSUME NEW w \in Workers, tx'[w] = NoTx
    PROVE  ScriptOK(w)' /\ NumbersOK(w)' /\ BuiltOK(w)'
  <1>1. ~Running(w)' /\ tx'[w].seqs = <<>>
    BY DEF Running, NoTx
  <1> QED BY <1>1 DEF ScriptOK, NumbersOK, BuiltOK

(* When a transaction is about to commit, its events are numbered, its      *)
(* manifest is built, and it alone holds the lock.                          *)
LEMMA CommitFacts ==
    ASSUME TxnIInv, NEW w \in Workers, Commit(w)
    PROVE  /\ Running(w) /\ Left(w) = 1 /\ Len(tx[w].seqs) \in Nat \ {0}
           /\ tx[w].built = Manifest(View(w)) /\ auditLock = w
           /\ \A i \in 1..Len(tx[w].seqs) : tx[w].seqs[i] = Len(chain) + i
           /\ \A u \in Workers \ {w} : tx[u].seqs = <<>>
  <1>1. ScriptOK(w) /\ NumbersOK(w) /\ BuiltOK(w) /\ tx[w] \in Txs
    BY DEF TxnIInv, Typed
  <1>2. tx[w].todo = <<"commit">>
    BY DEF Commit
  <1>3. tx[w] # NoTx
    <2>1. <<"commit">> # <<>>
      OBVIOUS
    <2> QED BY <1>2, <2>1 DEF NoTx
  <1>4. Running(w) /\ Left(w) = 1
    BY <1>1, <1>2, <1>3 DEF ScriptOK, Left
  <1>5. tx[w].seqs # <<>> /\ auditLock = w
    BY <1>1, <1>4 DEF NumbersOK
  <1>6. Len(tx[w].seqs) \in Nat \ {0}
    BY <1>1, <1>5, EmptySeq DEF Txs
  <1>7. \A u \in Workers \ {w} : tx[u].seqs = <<>>
    BY <1>5 DEF TxnIInv, NumbersOK
  <1> QED BY <1>1, <1>4, <1>5, <1>6, <1>7 DEF NumbersOK, BuiltOK

LEMMA CommitOK ==
    ASSUME TxnIInv, NEW w \in Workers, Commit(w)
    PROVE  TxnIInv'
  <1>1. Typed /\ tx \in [Workers -> Txs] /\ tx[w] \in Txs /\ chain \in Seq(Nat)
        /\ tx[w].seqs \in Seq(Nat) /\ tx[w].built \subseteq RowIds \X Statuses
    BY DEF TxnIInv, Typed, Txs
  <1>2. /\ rows' = View(w) /\ chain' = chain \o tx[w].seqs /\ snapshot' = tx[w].built
        /\ tx' = [tx EXCEPT ![w] = NoTx] /\ created' = created /\ frozen' = frozen
    BY DEF Commit
  <1>3. auditLock' = NoWorker
    BY CommitFacts DEF Commit, Release
  <1>4. /\ tx' \in [Workers -> Txs] /\ tx'[w] = NoTx
        /\ \A u \in Workers \ {w} : tx'[u] = tx[u]
    BY <1>1, <1>2, NoTxIsTx
  <1>5. /\ View(w) \in [RowIds -> Row]
        /\ \A v \in RowIds : v \notin DOMAIN tx[w].writes => View(w)[v] = rows[v]
    BY <1>1, ViewFacts
  <1>6. PICK c \in Seq(Nat), q \in Seq(Nat) : c = chain /\ q = tx[w].seqs
    BY <1>1
  <1>7. /\ c \o q \in Seq(Nat)
        /\ Len(c \o q) = Len(c) + Len(q)
        /\ \A i \in 1..Len(c) + Len(q) :
              (c \o q)[i] = IF i <= Len(c) THEN c[i] ELSE q[i - Len(c)]
    BY ConcatProperties, Zenon
  <1>8. Typed'
    <2>1. chain' \in Seq(Nat)
      BY <1>2, <1>6, <1>7
    <2> QED BY <1>1, <1>2, <1>3, <1>4, <1>5, <2>1 DEF Typed
  <1>9. ScriptOK(w)' /\ NumbersOK(w)' /\ BuiltOK(w)'
    BY <1>4, EndedOK
  <1>10. ASSUME NEW u \in Workers \ {w} PROVE ScriptOK(u)' /\ NumbersOK(u)' /\ BuiltOK(u)'
    <2>1. Same(u) /\ tx[u].seqs = <<>>
      BY <1>4, CommitFacts DEF Same
    <2> QED BY <2>1, CarriedOver
  <1>11. FreshOK'
    <2>1. created \in Nat
      BY <1>1 DEF Typed
    <2>2. ASSUME NEW u \in Workers
          PROVE  /\ tx'[u].target <= created /\ tx'[u].canary <= created
                 /\ \A v \in tx'[u].actives : v <= created
                 /\ \A v \in Ids : v > created => v \notin DOMAIN tx'[u].writes
      <3>1. CASE u = w
        BY <3>1, <1>4, <2>1 DEF NoTx
      <3>2. CASE u # w
        BY <3>2, <1>4 DEF TxnIInv, FreshOK
      <3> QED BY <3>1, <3>2
    <2>3. ASSUME NEW v \in Ids, v > created PROVE rows'[v] = NewRow("none")
      <3>1. v \notin DOMAIN tx[w].writes /\ rows[v] = NewRow("none")
        BY <2>3 DEF TxnIInv, FreshOK
      <3> QED BY <3>1, <1>2, <1>5 DEF RowIds
    <2> QED BY <1>2, <2>2, <2>3 DEF FreshOK
  <1>12. SnapshotIsExact'
    BY <1>2, CommitFacts DEF SnapshotIsExact
  <1>13. ChainIsLinear'
    <2>1. /\ Len(c) \in Nat /\ Len(q) \in Nat
          /\ \A i \in 1..Len(c) : c[i] = i
          /\ \A i \in 1..Len(q) : q[i] = Len(c) + i
      BY <1>6, CommitFacts, EmptySeq DEF TxnIInv, ChainIsLinear
    <2>2. ASSUME NEW i \in 1..Len(c) + Len(q) PROVE (c \o q)[i] = i
      <3>1. CASE i <= Len(c)
        <4>1. i \in 1..Len(c) /\ (c \o q)[i] = c[i]
          BY <1>7, <2>1, <3>1
        <4> QED BY <2>1, <4>1
      <3>2. CASE ~(i <= Len(c))
        <4>1. i - Len(c) \in 1..Len(q) /\ Len(c) + (i - Len(c)) = i
          BY <2>1, <3>2
        <4>2. (c \o q)[i] = q[i - Len(c)]
          BY <1>7, <3>2, Zenon
        <4> QED BY <2>1, <4>1, <4>2, Zenon
      <3> QED BY <3>1, <3>2
    <2>3. chain' = c \o q
      BY <1>2, <1>6
    <2> QED BY <1>7, <2>2, <2>3, Zenon DEF ChainIsLinear
  <1> QED BY <1>8, <1>9, <1>10, <1>11, <1>12, <1>13 DEF TxnIInv

LEMMA AbortOK ==
    ASSUME TxnIInv, NEW w \in Workers, Abort(w)
    PROVE  TxnIInv'
  <1>1. Typed /\ tx \in [Workers -> Txs]
    BY DEF TxnIInv, Typed
  <1>2. /\ UNCHANGED <<rows, created, frozen, chain, snapshot>>
        /\ tx' = [tx EXCEPT ![w] = NoTx]
        /\ auditLock' = IF auditLock = w THEN NoWorker ELSE auditLock
    BY DEF Abort, Release
  <1>3. /\ tx' \in [Workers -> Txs] /\ tx'[w] = NoTx
        /\ \A u \in Workers \ {w} : tx'[u] = tx[u]
    BY <1>1, <1>2, NoTxIsTx
  <1>4. Typed'
    BY <1>1, <1>2, <1>3 DEF Typed
  <1>5. ScriptOK(w)' /\ NumbersOK(w)' /\ BuiltOK(w)'
    BY <1>3, EndedOK
  <1>6. ASSUME NEW u \in Workers \ {w} PROVE ScriptOK(u)' /\ NumbersOK(u)' /\ BuiltOK(u)'
    <2>1. Same(u) /\ tx'[u] = tx[u] /\ rows' = rows /\ u # w
      BY <1>2, <1>3 DEF Same
    <2>2. tx[u].seqs = <<>> \/ (chain' = chain /\ auditLock' = u)
      BY <1>2, <2>1 DEF TxnIInv, NumbersOK
    <2>3. Manifest(View(u))' = Manifest(View(u))
      BY <2>1, Zenon DEF View
    <2> QED BY <2>1, <2>2, <2>3, CarriedOver
  <1>7. FreshOK'
    <2>1. created \in Nat
      BY <1>1 DEF Typed
    <2>2. ASSUME NEW u \in Workers
          PROVE  /\ tx'[u].target <= created /\ tx'[u].canary <= created
                 /\ \A v \in tx'[u].actives : v <= created
                 /\ \A v \in Ids : v > created => v \notin DOMAIN tx'[u].writes
      <3>1. CASE u = w
        BY <3>1, <1>3, <2>1 DEF NoTx
      <3>2. CASE u # w
        BY <3>2, <1>3 DEF TxnIInv, FreshOK
      <3> QED BY <3>1, <3>2
    <2> QED BY <1>2, <2>2 DEF TxnIInv, FreshOK
  <1>8. SnapshotIsExact' /\ ChainIsLinear'
    BY <1>2 DEF TxnIInv, SnapshotIsExact, ChainIsLinear
  <1> QED BY <1>4, <1>5, <1>6, <1>7, <1>8 DEF TxnIInv

LEMMA SetFreezeOK ==
    ASSUME TxnIInv, NEW on \in BOOLEAN, SetFreeze(on)
    PROVE  TxnIInv'
  <1>1. /\ UNCHANGED <<rows, created, tx, auditLock, snapshot>>
        /\ auditLock = NoWorker /\ frozen' = on /\ chain' = Append(chain, Len(chain) + 1)
    BY DEF SetFreeze
  <1>2. PICK c \in Seq(Nat), n \in Nat : c = chain /\ n = Len(chain)
    BY EmptySeq DEF TxnIInv, Typed
  <1>3. /\ Append(c, n + 1) \in Seq(Nat)
        /\ Len(Append(c, n + 1)) = n + 1
        /\ \A i \in 1..n : Append(c, n + 1)[i] = c[i]
        /\ Append(c, n + 1)[n + 1] = n + 1
    BY <1>2, AppendProperties
  <1>4. Typed'
    BY <1>1, <1>2, <1>3 DEF TxnIInv, Typed
  <1>5. ASSUME NEW u \in Workers PROVE ScriptOK(u)' /\ NumbersOK(u)' /\ BuiltOK(u)'
    <2>1. Same(u)
      BY <1>1 DEF Same
    <2>2. tx[u].seqs = <<>>
      BY <1>1, BoundAssumption DEF TxnIInv, NumbersOK
    <2> QED BY <2>1, <2>2, CarriedOver
  <1>6. FreshOK' /\ SnapshotIsExact'
    BY <1>1 DEF TxnIInv, FreshOK, SnapshotIsExact
  <1>7. ChainIsLinear'
    <2>1. \A i \in 1..n : c[i] = i
      BY <1>2 DEF TxnIInv, ChainIsLinear
    <2>2. \A i \in 1..n + 1 : i \in 1..n \/ i = n + 1
      BY <1>2
    <2>3. \A i \in 1..n + 1 : Append(c, n + 1)[i] = i
      BY <1>3, <2>1, <2>2, Zenon
    <2>4. chain' = Append(c, n + 1)
      BY <1>1, <1>2
    <2> QED BY <1>3, <2>3, <2>4, Zenon DEF ChainIsLinear
  <1> QED BY <1>4, <1>5, <1>6, <1>7 DEF TxnIInv

(* Only inactive rows are collected, and the manifest holds none.           *)
LEMMA CollectedManifest ==
    ASSUME NEW f \in [RowIds -> Row], NEW g \in [RowIds -> Row], NEW v \in RowIds,
           \A u \in RowIds \ {v} : g[u] = f[u],
           f[v].status = "inactive", g[v].status = "inactive"
    PROVE  Manifest(f) = Manifest(g)
  <1>1. \A u \in RowIds :
           (f[u].status \in {"active", "canary", "off"} /\ ~f[u].deleted)
             <=> (g[u].status \in {"active", "canary", "off"} /\ ~g[u].deleted)
    OBVIOUS
  <1>2. {u \in RowIds : f[u].status \in {"active", "canary", "off"} /\ ~f[u].deleted}
          = {u \in RowIds : g[u].status \in {"active", "canary", "off"} /\ ~g[u].deleted}
    BY <1>1
  <1>3. PICK S \in SUBSET RowIds :
           S = {u \in RowIds : f[u].status \in {"active", "canary", "off"} /\ ~f[u].deleted}
    OBVIOUS
  <1>4. \A u \in S : f[u].status = g[u].status
    BY <1>3
  <1>5. Manifest(f) = {<<u, f[u].status>> : u \in S}
    BY <1>3 DEF Manifest
  <1>6. Manifest(g) = {<<u, g[u].status>> : u \in S}
    BY <1>2, <1>3 DEF Manifest
  <1> QED BY <1>4, <1>5, <1>6

LEMMA SoftDeleteFacts ==
    ASSUME TxnIInv, NEW v \in Ids, SoftDelete(v)
    PROVE  /\ rows' \in [RowIds -> Row]
           /\ \A u \in RowIds \ {v} : rows'[u] = rows[u]
           /\ rows[v].status = "inactive" /\ rows'[v].status = "inactive"
           /\ \A w \in Workers : v \notin DOMAIN tx[w].writes
           /\ v \in RowIds /\ v <= created
           /\ Manifest(rows') = Manifest(rows)
           /\ tx' = Overlapped(tx)
           /\ UNCHANGED <<created, frozen, auditLock, chain, snapshot>>
  <1>1. rows \in [RowIds -> Row] /\ v \in RowIds /\ created \in Nat
    BY DEF TxnIInv, Typed, RowIds
  <1>2. /\ rows[v].status = "inactive" /\ \A w \in Workers : v \notin DOMAIN tx[w].writes
        /\ rows' = [rows EXCEPT ![v].deleted = TRUE] /\ tx' = Overlapped(tx)
        /\ UNCHANGED <<created, frozen, auditLock, chain, snapshot>>
    BY DEF SoftDelete
  <1>3. /\ rows' \in [RowIds -> Row]
        /\ \A u \in RowIds \ {v} : rows'[u] = rows[u]
        /\ rows'[v].status = "inactive"
    BY <1>1, <1>2 DEF Row
  <1>4. Manifest(rows') = Manifest(rows)
    BY <1>1, <1>2, <1>3, CollectedManifest
  <1>5. v <= created
    <2>1. rows[v] # NewRow("none")
      BY <1>2 DEF NewRow
    <2>2. ~(v > created)
      BY <2>1 DEF TxnIInv, FreshOK
    <2> QED BY <1>1, <2>2 DEF Ids
  <1> QED BY <1>1, <1>2, <1>3, <1>4, <1>5

LEMMA SoftDeleteOK ==
    ASSUME TxnIInv, NEW v \in Ids, SoftDelete(v)
    PROVE  TxnIInv'
  <1>1. Typed /\ created \in Nat
    BY DEF TxnIInv, Typed
  <1>2. /\ rows' \in [RowIds -> Row]
        /\ \A u \in RowIds \ {v} : rows'[u] = rows[u]
        /\ rows[v].status = "inactive" /\ rows'[v].status = "inactive"
        /\ \A w \in Workers : v \notin DOMAIN tx[w].writes
        /\ v \in RowIds /\ v <= created
        /\ Manifest(rows') = Manifest(rows)
        /\ tx' = Overlapped(tx)
        /\ UNCHANGED <<created, frozen, auditLock, chain, snapshot>>
    BY SoftDeleteFacts
  <1>3. tx' \in [Workers -> Txs] /\ \A u \in Workers : Same(u)
    BY <1>1, <1>2, OverlappedFacts, SameOverlapped
  <1>4. Typed'
    BY <1>1, <1>2, <1>3 DEF Typed
  <1>5. ASSUME NEW u \in Workers PROVE ScriptOK(u)' /\ NumbersOK(u)' /\ BuiltOK(u)'
    <2>1. Same(u)
      BY <1>3
    <2>2. tx[u].seqs = <<>> \/ (chain' = chain /\ auditLock' = u)
      BY <1>2 DEF TxnIInv, NumbersOK
    <2>3. Manifest(View(u))' = Manifest(View(u))
      <3>1. /\ View(u) \in [RowIds -> Row]
            /\ \A x \in DOMAIN tx[u].writes : View(u)[x] = tx[u].writes[x]
            /\ \A x \in RowIds : x \notin DOMAIN tx[u].writes => View(u)[x] = rows[x]
        BY <1>1, ViewFacts
      <3>2. /\ View(u)' \in [RowIds -> Row]
            /\ \A x \in DOMAIN tx'[u].writes : View(u)'[x] = tx'[u].writes[x]
            /\ \A x \in RowIds : x \notin DOMAIN tx'[u].writes => View(u)'[x] = rows'[x]
        <4>1. PICK f, g : f = tx'[u].writes /\ g = rows'
          OBVIOUS
        <4>2. f \in Writes /\ g \in [RowIds -> Row]
          BY <1>2, <1>3, <4>1 DEF Txs
        <4>3. g \in Writes
          BY <4>2 DEF Writes
        <4>4. /\ Over(f, g) \in Writes
              /\ DOMAIN Over(f, g) = RowIds
              /\ \A x \in DOMAIN f : Over(f, g)[x] = f[x]
              /\ \A x \in RowIds \ DOMAIN f : Over(f, g)[x] = g[x]
          BY <4>2, <4>3, OverFacts, WritesFacts
        <4>5. Over(f, g) \in [RowIds -> Row]
          BY <4>4, WritesFacts
        <4>6. View(u)' = Over(f, g)
          BY <4>1 DEF View
        <4> QED BY <4>1, <4>4, <4>5, <4>6, Zenon
      <3>3. PICK f, g : f = View(u) /\ g = View(u)'
        OBVIOUS
      <3>4. tx'[u].writes = tx[u].writes
        BY <2>1 DEF Same
      <3>5. f[v].status = "inactive" /\ g[v].status = "inactive"
        BY <1>2, <3>1, <3>2, <3>3, <3>4
      <3>6. \A x \in RowIds \ {v} : g[x] = f[x]
        BY <1>2, <3>1, <3>2, <3>3, <3>4
      <3>7. Manifest(f) = Manifest(g)
        BY <1>2, <3>1, <3>2, <3>3, <3>5, <3>6, CollectedManifest
      <3> QED BY <3>3, <3>7
    <2> QED BY <2>1, <2>2, <2>3, CarriedOver
  <1>6. FreshOK'
    <2>1. ASSUME NEW u \in Workers
          PROVE  /\ tx'[u].target = tx[u].target /\ tx'[u].canary = tx[u].canary
                 /\ tx'[u].actives = tx[u].actives /\ tx'[u].writes = tx[u].writes
      BY <1>3 DEF Same
    <2>2. ASSUME NEW x \in Ids, x > created PROVE rows'[x] = rows[x]
      <3>1. x # v /\ x \in RowIds
        BY <1>1, <1>2, <2>2 DEF Ids, RowIds
      <3> QED BY <1>2, <3>1
    <2> QED BY <1>2, <2>1, <2>2 DEF TxnIInv, FreshOK
  <1>7. SnapshotIsExact' /\ ChainIsLinear'
    BY <1>2 DEF TxnIInv, SnapshotIsExact, ChainIsLinear
  <1> QED BY <1>4, <1>5, <1>6, <1>7 DEF TxnIInv

--------------------------------------------------------------------------------
LEMMA TxnNextOK == TxnIInv /\ [TxnNext]_txnVars => TxnIInv'
  <1> SUFFICES ASSUME TxnIInv, [TxnNext]_txnVars PROVE TxnIInv'
    OBVIOUS
  <1>1. ASSUME NEW w \in Workers, Statement(w) PROVE TxnIInv'
    <2>1. CASE NeedActive(w) \/ NeedCanary(w) \/ FindCanary(w) \/ RunningCanary(w)
                 \/ FindTarget(w) \/ FindEarlier(w) \/ TargetCanary(w) \/ ScanActive(w)
      BY <2>1, ReadsOK
    <2>2. CASE EndCanary(w) \/ Deactivate(w) \/ InsertActive(w) \/ InsertCanary(w)
                 \/ MakeActive(w) \/ MakeCanary(w) \/ Toggle(w)
      BY <2>2, WritesOK
    <2>3. CASE AuditOverride(w)
      BY <2>3, AuditStep DEF AuditOverride
    <2>4. CASE Audit(w)
      BY <2>4, AuditStep DEF Audit
    <2>5. CASE Snapshot(w)
      BY <2>5, SnapshotStep
    <2> QED BY <1>1, <2>1, <2>2, <2>3, <2>4, <2>5 DEF Statement
  <1>2. ASSUME NEW w \in Workers, NEW op \in DOMAIN Program, NEW override \in Overrides,
               Begin(w, op, override)
        PROVE  TxnIInv'
    BY <1>2, BeginOK DEF Ops
  <1>3. CASE UNCHANGED txnVars
    <2>1. UNCHANGED <<rows, created, frozen, tx, auditLock, chain, snapshot>>
      BY <1>3 DEF txnVars
    <2>2. ASSUME NEW u \in Workers PROVE ScriptOK(u)' /\ NumbersOK(u)' /\ BuiltOK(u)'
      BY <2>1, Zenon DEF TxnIInv, ScriptOK, NumbersOK, BuiltOK, Running, Left, View
    <2> QED BY <2>1, <2>2 DEF TxnIInv, Typed, FreshOK, SnapshotIsExact, ChainIsLinear
  <1> QED BY <1>1, <1>2, <1>3, CommitOK, AbortOK, SetFreezeOK, SoftDeleteOK DEF TxnNext

LEMMA TxnInvariant == TxnSpec => []TxnIInv
  BY TxnInitOK, TxnNextOK, PTL DEF TxnSpec

(* Rows, transactions, locks and numbers stay of their types, and an event  *)
(* that is not committed yet is always numbered under the advisory lock.    *)
THEOREM TransactionsTypeCorrect == TxnSpec => []TxnTypeOK
  <1>1. TxnIInv => TxnTypeOK
    <2> SUFFICES ASSUME TxnIInv PROVE TxnTypeOK
      OBVIOUS
    <2>1. Typed
      BY DEF TxnIInv
    <2>2. ASSUME NEW w \in Workers
          PROVE  /\ tx[w].op \in DOMAIN Program \cup {"none"}
                 /\ tx[w].target \in 0..MaxVersions /\ tx[w].canary \in 0..MaxVersions
                 /\ tx[w].actives \subseteq Ids
                 /\ DOMAIN tx[w].writes \subseteq RowIds
                 /\ \A v \in DOMAIN tx[w].writes : tx[w].writes[v] \in Row
                 /\ tx[w].seqs # <<>> => auditLock = w
      <3>1. tx[w] \in Txs /\ tx[w].writes \in Writes
        BY <2>1 DEF Typed, Txs
      <3>2. tx[w].seqs # <<>> => auditLock = w
        BY DEF TxnIInv, NumbersOK
      <3> QED BY <3>1, <3>2, WritesFacts DEF Txs, Ops
    <2> QED BY <2>1, <2>2 DEF Typed, TxnTypeOK
  <1> QED BY <1>1, TxnInvariant, PTL

(* However the statements of overlapping requests interleave, and whichever *)
(* of them fail, the newest snapshot is the manifest that is served.        *)
THEOREM SnapshotsAreExact == TxnSpec => []SnapshotIsExact
  <1>1. TxnIInv => SnapshotIsExact
    BY DEF TxnIInv
  <1> QED BY <1>1, TxnInvariant, PTL

(* Concurrent writers never fork the audit chain, and an aborted one leaves *)
(* no hole in it.                                                           *)
THEOREM ChainNeverForks == TxnSpec => []ChainIsLinear
  <1>1. TxnIInv => ChainIsLinear
    BY DEF TxnIInv
  <1> QED BY <1>1, TxnInvariant, PTL

LEMMA StepIsRecorded ==
    ASSUME TxnIInv, TxnNext, Manifest(rows') # Manifest(rows)
    PROVE  Len(chain') > Len(chain) /\ snapshot' = Manifest(rows')
  <1>1. rows' # rows
    OBVIOUS
  <1>2. ASSUME NEW w \in Workers, Commit(w)
        PROVE  Len(chain') > Len(chain) /\ snapshot' = Manifest(rows')
    <2>1. rows' = View(w) /\ chain' = chain \o tx[w].seqs /\ snapshot' = tx[w].built
      BY <1>2 DEF Commit
    <2>2. tx[w].built = Manifest(View(w)) /\ Len(tx[w].seqs) \in Nat \ {0}
      BY <1>2, CommitFacts
    <2>3. PICK c \in Seq(Nat), q \in Seq(Nat) : c = chain /\ q = tx[w].seqs
      BY DEF TxnIInv, Typed, Txs
    <2>4. Len(c \o q) = Len(c) + Len(q) /\ Len(c) \in Nat
      BY ConcatProperties, EmptySeq
    <2> QED BY <2>1, <2>2, <2>3, <2>4
  <1>3. ASSUME NEW w \in Workers, Statement(w) PROVE rows' = rows
    BY <1>3 DEF Statement, NeedActive, NeedCanary, FindCanary, RunningCanary, EndCanary,
         FindTarget, FindEarlier, TargetCanary, ScanActive, Deactivate, InsertActive,
         InsertCanary, Insert, MakeActive, MakeCanary, Toggle, AuditOverride, Audit, Snapshot,
         InsertAudit, Update, Find
  <1>4. ASSUME NEW w \in Workers, NEW op, NEW override, Begin(w, op, override) PROVE rows' = rows
    BY <1>4 DEF Begin
  <1>5. ASSUME NEW w \in Workers, Abort(w) PROVE rows' = rows
    BY <1>5 DEF Abort
  <1>6. ASSUME NEW on \in BOOLEAN, SetFreeze(on) PROVE rows' = rows
    BY <1>6 DEF SetFreeze
  <1>7. ASSUME NEW v \in Ids, SoftDelete(v) PROVE FALSE
    BY <1>7, SoftDeleteFacts
  <1> QED BY <1>1, <1>2, <1>3, <1>4, <1>5, <1>6, <1>7 DEF TxnNext

(* Nothing changes what hosts are served without an audit event and an      *)
(* exact snapshot in the same commit.                                       *)
THEOREM ChangesAreRecorded == TxnSpec => EveryChangeIsRecorded
  <1>1. TxnIInv /\ [TxnNext]_txnVars
          => [Manifest(rows') # Manifest(rows) =>
                 Len(chain') > Len(chain) /\ snapshot' = Manifest(rows')]_txnVars
    BY StepIsRecorded
  <1> QED BY <1>1, TxnInvariant, PTL DEF TxnSpec, EveryChangeIsRecorded

--------------------------------------------------------------------------------
(* The isolated requests.                                                   *)
OneEach ==
    /\ \A x, y \in Committed("active") : x = y
    /\ \A x, y \in Committed("canary") : x = y
    /\ Committed("canary") # {} => Committed("active") # {}

Clean(w) == Seen(w, "active") = Committed("active") /\ Seen(w, "canary") = Committed("canary")

(* The canary is over, and the active versions are as they were; or the     *)
(* other way around; or both are over.                                      *)
NoCanary(w) == Seen(w, "active") = Committed("active") /\ Seen(w, "canary") = {}
NoActive(w) == Seen(w, "active") = {} /\ Seen(w, "canary") = Committed("canary")
Neither(w) == Seen(w, "active") = {} /\ Seen(w, "canary") = {}

Scanned(w) == tx[w].actives = {v \in Ids : View(w)[v].status = "active"}
Found(w) == tx[w].canary \in First(Committed("canary"))

(* The version a rollback or a new canary works on.                         *)
Unserved(w) ==
    /\ tx[w].target \in Ids /\ ~View(w)[tx[w].target].deleted
    /\ View(w)[tx[w].target].status = "inactive"
    /\ tx[w].target \notin Committed("active") \cup Committed("canary")

(* What an isolated transaction has done so far, by how much is left.       *)
DeployCourse(w) ==
    /\ Left(w) \in {7, 8, 9} => Clean(w)
    /\ Left(w) = 7 => Found(w)
    /\ Left(w) \in {5, 6} => NoCanary(w)
    /\ Left(w) = 5 => Scanned(w)
    /\ Left(w) = 4 => Neither(w)

DeployCanaryCourse(w) ==
    /\ Left(w) \in {5, 6, 7, 8} => Clean(w)
    /\ Left(w) \in {4, 5, 6} => Committed("active") # {}
    /\ Left(w) = 5 => Found(w)
    /\ Left(w) = 4 => NoCanary(w)

RollbackCourse(w) ==
    /\ Left(w) \in {5, 6, 7, 8} => Clean(w)
    /\ Left(w) \in {4, 5, 6} => Unserved(w)
    /\ Left(w) = 5 => Scanned(w)
    /\ Left(w) = 4 => NoActive(w)

PromoteCourse(w) ==
    /\ Left(w) \in {5, 6, 7} => Clean(w)
    /\ Left(w) = 5 => Scanned(w)
    /\ Left(w) = 4 => NoActive(w)

StartCanaryCourse(w) ==
    /\ Left(w) \in {5, 6, 7, 8, 9} => Clean(w)
    /\ Left(w) \in {4, 5, 6, 7} => Unserved(w)
    /\ Left(w) \in {4, 5, 6} => Committed("active") # {}
    /\ Left(w) = 5 => Found(w)
    /\ Left(w) = 4 => NoCanary(w)

PromoteCanaryCourse(w) ==
    /\ Left(w) \in {5, 6, 7, 8} => Clean(w)
    /\ Left(w) \in {4, 5, 6} => tx[w].target \in Committed("canary")
    /\ Left(w) = 5 => Scanned(w)
    /\ Left(w) = 4 => NoActive(w)

AbortCanaryCourse(w) ==
    /\ Left(w) \in {4, 5, 6} => Clean(w)
    /\ Left(w) = 4 => tx[w].canary \in Committed("canary")

JobAbortCourse(w) ==
    /\ Left(w) \in {4, 5, 6, 7} => Clean(w)
    /\ Left(w) \in {4, 5} => Committed("canary") # {}
    /\ Left(w) = 4 => Found(w)

Course(w) ==
    /\ tx[w].op = "deploy" => DeployCourse(w)
    /\ tx[w].op = "deployCanary" => DeployCanaryCourse(w)
    /\ tx[w].op = "rollback" => RollbackCourse(w)
    /\ tx[w].op = "promote" => PromoteCourse(w)
    /\ tx[w].op = "startCanary" => StartCanaryCourse(w)
    /\ tx[w].op = "promoteCanary" => PromoteCanaryCourse(w)
    /\ tx[w].op = "abortCanary" => AbortCanaryCourse(w)
    /\ tx[w].op = "jobAbort" => JobAbortCourse(w)
    /\ tx[w].op = "killSwitch" => Clean(w)

(* ... and when all that is left is to record it: another version is        *)
(* active, another is the canary, the canary is active, or it is over.      *)
Activated(w) ==
    /\ \E v \in Ids \ Committed("canary") : Seen(w, "active") = {v}
    /\ Seen(w, "canary") \in {{}, Committed("canary")}

Started(w) ==
    /\ Seen(w, "active") = Committed("active") /\ Committed("active") # {}
    /\ \E v \in Ids \ Committed("active") : Seen(w, "canary") = {v}

Promoted(w) ==
    /\ Committed("canary") # {}
    /\ Seen(w, "active") = Committed("canary") /\ Seen(w, "canary") = {}

Ended(w) == Committed("canary") # {} /\ NoCanary(w)

Outcome(w) ==
    /\ tx[w].op \in {"deploy", "rollback", "promote"} => Activated(w)
    /\ tx[w].op \in {"deployCanary", "startCanary"} => Started(w)
    /\ tx[w].op = "promoteCanary" => Promoted(w)
    /\ tx[w].op \in {"abortCanary", "jobAbort"} => Ended(w)
    /\ tx[w].op = "killSwitch" => Clean(w)

IsolatedOK(w) ==
    Running(w) /\ tx[w].alone =>
       /\ \A u \in Workers : Running(u) => u = w
       /\ OneEach => /\ Left(w) >= 4 => Course(w)
                     /\ Left(w) <= 3 => Outcome(w)

IsolatedIInv == \A w \in Workers : IsolatedOK(w)

LEMMA ScriptAt ==
    ASSUME TxnIInv, NEW w \in Workers, Running(w), NEW s, s = tx[w].todo[1], NEW n, n = Left(w)
    PROVE  /\ n \in Nat
           /\ tx[w].op = "deploy" =>
                \/ (n = 1 /\ s = "commit") \/ (n = 2 /\ s = "snapshot")
                \/ (n = 3 /\ s = "audit") \/ (n = 4 /\ s = "insertActive")
                \/ (n = 5 /\ s = "deactivate") \/ (n = 6 /\ s = "scanActive")
                \/ (n = 7 /\ s = "endCanary") \/ (n = 8 /\ s = "findCanary")
                \/ (n = 9 /\ s = "auditOverride")
           /\ tx[w].op = "deployCanary" =>
                \/ (n = 1 /\ s = "commit") \/ (n = 2 /\ s = "snapshot")
                \/ (n = 3 /\ s = "audit") \/ (n = 4 /\ s = "insertCanary")
                \/ (n = 5 /\ s = "endCanary") \/ (n = 6 /\ s = "findCanary")
                \/ (n = 7 /\ s = "needActive") \/ (n = 8 /\ s = "auditOverride")
           /\ tx[w].op = "rollback" =>
                \/ (n = 1 /\ s = "commit") \/ (n = 2 /\ s = "snapshot")
                \/ (n = 3 /\ s = "audit") \/ (n = 4 /\ s = "makeActive")
                \/ (n = 5 /\ s = "deactivate") \/ (n = 6 /\ s = "scanActive")
                \/ (n = 7 /\ s = "findTarget") \/ (n = 8 /\ s = "auditOverride")
           /\ tx[w].op = "promote" =>
                \/ (n = 1 /\ s = "commit") \/ (n = 2 /\ s = "snapshot")
                \/ (n = 3 /\ s = "audit") \/ (n = 4 /\ s = "insertActive")
                \/ (n = 5 /\ s = "deactivate") \/ (n = 6 /\ s = "scanActive")
                \/ (n = 7 /\ s = "auditOverride")
           /\ tx[w].op = "startCanary" =>
                \/ (n = 1 /\ s = "commit") \/ (n = 2 /\ s = "snapshot")
                \/ (n = 3 /\ s = "audit") \/ (n = 4 /\ s = "makeCanary")
                \/ (n = 5 /\ s = "endCanary") \/ (n = 6 /\ s = "findCanary")
                \/ (n = 7 /\ s = "needActive") \/ (n = 8 /\ s = "findEarlier")
                \/ (n = 9 /\ s = "auditOverride")
           /\ tx[w].op = "promoteCanary" =>
                \/ (n = 1 /\ s = "commit") \/ (n = 2 /\ s = "snapshot")
                \/ (n = 3 /\ s = "audit") \/ (n = 4 /\ s = "makeActive")
                \/ (n = 5 /\ s = "deactivate") \/ (n = 6 /\ s = "scanActive")
                \/ (n = 7 /\ s = "targetCanary") \/ (n = 8 /\ s = "auditOverride")
           /\ tx[w].op = "abortCanary" =>
                \/ (n = 1 /\ s = "commit") \/ (n = 2 /\ s = "snapshot")
                \/ (n = 3 /\ s = "audit") \/ (n = 4 /\ s = "endCanary")
                \/ (n = 5 /\ s = "runningCanary") \/ (n = 6 /\ s = "auditOverride")
           /\ tx[w].op = "jobAbort" =>
                \/ (n = 1 /\ s = "commit") \/ (n = 2 /\ s = "snapshot")
                \/ (n = 3 /\ s = "audit") \/ (n = 4 /\ s = "endCanary")
                \/ (n = 5 /\ s = "findCanary") \/ (n = 6 /\ s = "needCanary")
                \/ (n = 7 /\ s = "auditOverride")
           /\ tx[w].op = "killSwitch" =>
                \/ (n = 1 /\ s = "commit") \/ (n = 2 /\ s = "snapshot")
                \/ (n = 3 /\ s = "audit") \/ (n = 4 /\ s = "toggle")
                \/ (n = 5 /\ s = "auditOverride")
  <1>1. ScriptOK(w) /\ tx[w] \in Txs
    BY DEF TxnIInv, Typed
  <1>2. tx[w].op \in Ops
    BY <1>1 DEF Txs, Running
  <1>3. PICK script, l : script = Script(tx[w].op) /\ l = Len(script)
    OBVIOUS
  <1>4. /\ Program[tx[w].op] \in Seq(Steps)
        /\ script \in Seq(Steps) /\ l = Len(Program[tx[w].op]) + 3
        /\ \A i \in 1..Len(Program[tx[w].op]) : script[i] = Program[tx[w].op][i]
        /\ script[l - 2] = "audit" /\ script[l - 1] = "snapshot" /\ script[l] = "commit"
    BY <1>2, <1>3, ScriptFacts
  <1>5. n \in 1..l + 1 /\ tx[w].todo[1] = IF 1 + l = n THEN "auditOverride" ELSE script[1 + l - n]
    <2>1. /\ n \in 1..l + 1
          /\ \A i \in 1..n :
                tx[w].todo[i] = IF i + l = n THEN "auditOverride" ELSE script[i + l - n]
      BY <1>1, <1>3 DEF ScriptOK
    <2>2. 1 \in 1..n
      BY <1>4, <2>1
    <2> QED BY <2>1, <2>2
  <1>6. n \in Nat
    BY <1>4, <1>5
  <1>7. CASE tx[w].op = "deploy"
    <2>1. PICK p : p = Program["deploy"]
      OBVIOUS
    <2>2. Len(p) = 5 /\ p[1] = "findCanary" /\ p[2] = "endCanary"
          /\ p[3] = "scanActive" /\ p[4] = "deactivate" /\ p[5] = "insertActive"
      BY <2>1 DEF Program
    <2>3. l = 8 /\ \A i \in 1..5 : script[i] = p[i]
      BY <1>4, <1>7, <2>1, <2>2
    <2>4. /\ n \in 1..9
          /\ s = IF 1 + 8 = n THEN "auditOverride" ELSE script[1 + 8 - n]
      BY <1>5, <2>3
    <2>5. /\ script[6] = "audit" /\ script[7] = "snapshot" /\ script[8] = "commit"
          /\ script[1] = "findCanary" /\ script[2] = "endCanary"
          /\ script[3] = "scanActive" /\ script[4] = "deactivate" /\ script[5] = "insertActive"
      BY <1>4, <2>2, <2>3
    <2>6.
          \/ (n = 1 /\ s = "commit") \/ (n = 2 /\ s = "snapshot")
          \/ (n = 3 /\ s = "audit") \/ (n = 4 /\ s = "insertActive")
          \/ (n = 5 /\ s = "deactivate") \/ (n = 6 /\ s = "scanActive")
          \/ (n = 7 /\ s = "endCanary") \/ (n = 8 /\ s = "findCanary")
          \/ (n = 9 /\ s = "auditOverride")
      BY <2>4, <2>5
    <2> QED BY <2>6, <1>6, <1>7
  <1>8. CASE tx[w].op = "deployCanary"
    <2>1. PICK p : p = Program["deployCanary"]
      OBVIOUS
    <2>2. Len(p) = 4 /\ p[1] = "needActive" /\ p[2] = "findCanary"
          /\ p[3] = "endCanary" /\ p[4] = "insertCanary"
      BY <2>1 DEF Program
    <2>3. l = 7 /\ \A i \in 1..4 : script[i] = p[i]
      BY <1>4, <1>8, <2>1, <2>2
    <2>4. /\ n \in 1..8
          /\ s = IF 1 + 7 = n THEN "auditOverride" ELSE script[1 + 7 - n]
      BY <1>5, <2>3
    <2>5. /\ script[5] = "audit" /\ script[6] = "snapshot" /\ script[7] = "commit"
          /\ script[1] = "needActive" /\ script[2] = "findCanary"
          /\ script[3] = "endCanary" /\ script[4] = "insertCanary"
      BY <1>4, <2>2, <2>3
    <2>6.
          \/ (n = 1 /\ s = "commit") \/ (n = 2 /\ s = "snapshot")
          \/ (n = 3 /\ s = "audit") \/ (n = 4 /\ s = "insertCanary")
          \/ (n = 5 /\ s = "endCanary") \/ (n = 6 /\ s = "findCanary")
          \/ (n = 7 /\ s = "needActive") \/ (n = 8 /\ s = "auditOverride")
      BY <2>4, <2>5
    <2> QED BY <2>6, <1>6, <1>8
  <1>9. CASE tx[w].op = "rollback"
    <2>1. PICK p : p = Program["rollback"]
      OBVIOUS
    <2>2. Len(p) = 4 /\ p[1] = "findTarget" /\ p[2] = "scanActive"
          /\ p[3] = "deactivate" /\ p[4] = "makeActive"
      BY <2>1 DEF Program
    <2>3. l = 7 /\ \A i \in 1..4 : script[i] = p[i]
      BY <1>4, <1>9, <2>1, <2>2
    <2>4. /\ n \in 1..8
          /\ s = IF 1 + 7 = n THEN "auditOverride" ELSE script[1 + 7 - n]
      BY <1>5, <2>3
    <2>5. /\ script[5] = "audit" /\ script[6] = "snapshot" /\ script[7] = "commit"
          /\ script[1] = "findTarget" /\ script[2] = "scanActive"
          /\ script[3] = "deactivate" /\ script[4] = "makeActive"
      BY <1>4, <2>2, <2>3
    <2>6.
          \/ (n = 1 /\ s = "commit") \/ (n = 2 /\ s = "snapshot")
          \/ (n = 3 /\ s = "audit") \/ (n = 4 /\ s = "makeActive")
          \/ (n = 5 /\ s = "deactivate") \/ (n = 6 /\ s = "scanActive")
          \/ (n = 7 /\ s = "findTarget") \/ (n = 8 /\ s = "auditOverride")
      BY <2>4, <2>5
    <2> QED BY <2>6, <1>6, <1>9
  <1>10. CASE tx[w].op = "promote"
    <2>1. PICK p : p = Program["promote"]
      OBVIOUS
    <2>2. Len(p) = 3 /\ p[1] = "scanActive" /\ p[2] = "deactivate" /\ p[3] = "insertActive"
      BY <2>1 DEF Program
    <2>3. l = 6 /\ \A i \in 1..3 : script[i] = p[i]
      BY <1>4, <1>10, <2>1, <2>2
    <2>4. /\ n \in 1..7
          /\ s = IF 1 + 6 = n THEN "auditOverride" ELSE script[1 + 6 - n]
      BY <1>5, <2>3
    <2>5. /\ script[4] = "audit" /\ script[5] = "snapshot" /\ script[6] = "commit"
          /\ script[1] = "scanActive" /\ script[2] = "deactivate"
          /\ script[3] = "insertActive"
      BY <1>4, <2>2, <2>3
    <2>6.
          \/ (n = 1 /\ s = "commit") \/ (n = 2 /\ s = "snapshot")
          \/ (n = 3 /\ s = "audit") \/ (n = 4 /\ s = "insertActive")
          \/ (n = 5 /\ s = "deactivate") \/ (n = 6 /\ s = "scanActive")
          \/ (n = 7 /\ s = "auditOverride")
      BY <2>4, <2>5
    <2> QED BY <2>6, <1>6, <1>10
  <1>11. CASE tx[w].op = "startCanary"
    <2>1. PICK p : p = Program["startCanary"]
      OBVIOUS
    <2>2. Len(p) = 5 /\ p[1] = "findEarlier" /\ p[2] = "needActive"
          /\ p[3] = "findCanary" /\ p[4] = "endCanary" /\ p[5] = "makeCanary"
      BY <2>1 DEF Program
    <2>3. l = 8 /\ \A i \in 1..5 : script[i] = p[i]
      BY <1>4, <1>11, <2>1, <2>2
    <2>4. /\ n \in 1..9
          /\ s = IF 1 + 8 = n THEN "auditOverride" ELSE script[1 + 8 - n]
      BY <1>5, <2>3
    <2>5. /\ script[6] = "audit" /\ script[7] = "snapshot" /\ script[8] = "commit"
          /\ script[1] = "findEarlier" /\ script[2] = "needActive"
          /\ script[3] = "findCanary" /\ script[4] = "endCanary" /\ script[5] = "makeCanary"
      BY <1>4, <2>2, <2>3
    <2>6.
          \/ (n = 1 /\ s = "commit") \/ (n = 2 /\ s = "snapshot")
          \/ (n = 3 /\ s = "audit") \/ (n = 4 /\ s = "makeCanary")
          \/ (n = 5 /\ s = "endCanary") \/ (n = 6 /\ s = "findCanary")
          \/ (n = 7 /\ s = "needActive") \/ (n = 8 /\ s = "findEarlier")
          \/ (n = 9 /\ s = "auditOverride")
      BY <2>4, <2>5
    <2> QED BY <2>6, <1>6, <1>11
  <1>12. CASE tx[w].op = "promoteCanary"
    <2>1. PICK p : p = Program["promoteCanary"]
      OBVIOUS
    <2>2. Len(p) = 4 /\ p[1] = "targetCanary" /\ p[2] = "scanActive"
          /\ p[3] = "deactivate" /\ p[4] = "makeActive"
      BY <2>1 DEF Program
    <2>3. l = 7 /\ \A i \in 1..4 : script[i] = p[i]
      BY <1>4, <1>12, <2>1, <2>2
    <2>4. /\ n \in 1..8
          /\ s = IF 1 + 7 = n THEN "auditOverride" ELSE script[1 + 7 - n]
      BY <1>5, <2>3
    <2>5. /\ script[5] = "audit" /\ script[6] = "snapshot" /\ script[7] = "commit"
          /\ script[1] = "targetCanary" /\ script[2] = "scanActive"
          /\ script[3] = "deactivate" /\ script[4] = "makeActive"
      BY <1>4, <2>2, <2>3
    <2>6.
          \/ (n = 1 /\ s = "commit") \/ (n = 2 /\ s = "snapshot")
          \/ (n = 3 /\ s = "audit") \/ (n = 4 /\ s = "makeActive")
          \/ (n = 5 /\ s = "deactivate") \/ (n = 6 /\ s = "scanActive")
          \/ (n = 7 /\ s = "targetCanary") \/ (n = 8 /\ s = "auditOverride")
      BY <2>4, <2>5
    <2> QED BY <2>6, <1>6, <1>12
  <1>13. CASE tx[w].op = "abortCanary"
    <2>1. PICK p : p = Program["abortCanary"]
      OBVIOUS
    <2>2. Len(p) = 2 /\ p[1] = "runningCanary" /\ p[2] = "endCanary"
      BY <2>1 DEF Program
    <2>3. l = 5 /\ \A i \in 1..2 : script[i] = p[i]
      BY <1>4, <1>13, <2>1, <2>2
    <2>4. /\ n \in 1..6
          /\ s = IF 1 + 5 = n THEN "auditOverride" ELSE script[1 + 5 - n]
      BY <1>5, <2>3
    <2>5. /\ script[3] = "audit" /\ script[4] = "snapshot" /\ script[5] = "commit"
          /\ script[1] = "runningCanary" /\ script[2] = "endCanary"
      BY <1>4, <2>2, <2>3
    <2>6.
          \/ (n = 1 /\ s = "commit") \/ (n = 2 /\ s = "snapshot")
          \/ (n = 3 /\ s = "audit") \/ (n = 4 /\ s = "endCanary")
          \/ (n = 5 /\ s = "runningCanary") \/ (n = 6 /\ s = "auditOverride")
      BY <2>4, <2>5
    <2> QED BY <2>6, <1>6, <1>13
  <1>14. CASE tx[w].op = "jobAbort"
    <2>1. PICK p : p = Program["jobAbort"]
      OBVIOUS
    <2>2. Len(p) = 3 /\ p[1] = "needCanary" /\ p[2] = "findCanary" /\ p[3] = "endCanary"
      BY <2>1 DEF Program
    <2>3. l = 6 /\ \A i \in 1..3 : script[i] = p[i]
      BY <1>4, <1>14, <2>1, <2>2
    <2>4. /\ n \in 1..7
          /\ s = IF 1 + 6 = n THEN "auditOverride" ELSE script[1 + 6 - n]
      BY <1>5, <2>3
    <2>5. /\ script[4] = "audit" /\ script[5] = "snapshot" /\ script[6] = "commit"
          /\ script[1] = "needCanary" /\ script[2] = "findCanary"
          /\ script[3] = "endCanary"
      BY <1>4, <2>2, <2>3
    <2>6.
          \/ (n = 1 /\ s = "commit") \/ (n = 2 /\ s = "snapshot")
          \/ (n = 3 /\ s = "audit") \/ (n = 4 /\ s = "endCanary")
          \/ (n = 5 /\ s = "findCanary") \/ (n = 6 /\ s = "needCanary")
          \/ (n = 7 /\ s = "auditOverride")
      BY <2>4, <2>5
    <2> QED BY <2>6, <1>6, <1>14
  <1>15. CASE tx[w].op = "killSwitch"
    <2>1. PICK p : p = Program["killSwitch"]
      OBVIOUS
    <2>2. Len(p) = 1 /\ p[1] = "toggle"
      BY <2>1 DEF Program
    <2>3. l = 4 /\ \A i \in 1..1 : script[i] = p[i]
      BY <1>4, <1>15, <2>1, <2>2
    <2>4. /\ n \in 1..5
          /\ s = IF 1 + 4 = n THEN "auditOverride" ELSE script[1 + 4 - n]
      BY <1>5, <2>3
    <2>5. /\ script[2] = "audit" /\ script[3] = "snapshot" /\ script[4] = "commit"
          /\ script[1] = "toggle"
      BY <1>4, <2>2, <2>3
    <2>6.
          \/ (n = 1 /\ s = "commit") \/ (n = 2 /\ s = "snapshot")
          \/ (n = 3 /\ s = "audit") \/ (n = 4 /\ s = "toggle")
          \/ (n = 5 /\ s = "auditOverride")
      BY <2>4, <2>5
    <2> QED BY <2>6, <1>6, <1>15
  <1> QED BY <1>2, <1>7, <1>8, <1>9, <1>10, <1>11, <1>12, <1>13, <1>14, <1>15, <1>6 DEF Ops, Program

(* Which operation a statement belongs to, and how much is left then.       *)
LEMMA WhereNext ==
    ASSUME TxnIInv, NEW w \in Workers, Running(w)
    PROVE  /\ tx[w].todo[1] = "findCanary" =>
                \/ (tx[w].op = "deploy" /\ Left(w) = 8)
                \/ (tx[w].op = "deployCanary" /\ Left(w) = 6)
                \/ (tx[w].op = "startCanary" /\ Left(w) = 6)
                \/ (tx[w].op = "jobAbort" /\ Left(w) = 5)
           /\ tx[w].todo[1] = "endCanary" =>
                \/ (tx[w].op = "deploy" /\ Left(w) = 7)
                \/ (tx[w].op = "deployCanary" /\ Left(w) = 5)
                \/ (tx[w].op = "startCanary" /\ Left(w) = 5)
                \/ (tx[w].op = "abortCanary" /\ Left(w) = 4)
                \/ (tx[w].op = "jobAbort" /\ Left(w) = 4)
           /\ tx[w].todo[1] = "scanActive" =>
                \/ (tx[w].op = "deploy" /\ Left(w) = 6)
                \/ (tx[w].op = "rollback" /\ Left(w) = 6)
                \/ (tx[w].op = "promote" /\ Left(w) = 6)
                \/ (tx[w].op = "promoteCanary" /\ Left(w) = 6)
           /\ tx[w].todo[1] = "deactivate" =>
                \/ (tx[w].op = "deploy" /\ Left(w) = 5)
                \/ (tx[w].op = "rollback" /\ Left(w) = 5)
                \/ (tx[w].op = "promote" /\ Left(w) = 5)
                \/ (tx[w].op = "promoteCanary" /\ Left(w) = 5)
           /\ tx[w].todo[1] = "insertActive"
             => (tx[w].op = "deploy" /\ Left(w) = 4) \/ (tx[w].op = "promote" /\ Left(w) = 4)
           /\ tx[w].todo[1] = "needActive"
             => (tx[w].op = "deployCanary" /\ Left(w) = 7) \/ (tx[w].op = "startCanary" /\ Left(w) = 7)
           /\ tx[w].todo[1] = "insertCanary" => (tx[w].op = "deployCanary" /\ Left(w) = 4)
           /\ tx[w].todo[1] = "findTarget" => (tx[w].op = "rollback" /\ Left(w) = 7)
           /\ tx[w].todo[1] = "makeActive"
             => (tx[w].op = "rollback" /\ Left(w) = 4) \/ (tx[w].op = "promoteCanary" /\ Left(w) = 4)
           /\ tx[w].todo[1] = "findEarlier" => (tx[w].op = "startCanary" /\ Left(w) = 8)
           /\ tx[w].todo[1] = "makeCanary" => (tx[w].op = "startCanary" /\ Left(w) = 4)
           /\ tx[w].todo[1] = "targetCanary" => (tx[w].op = "promoteCanary" /\ Left(w) = 7)
           /\ tx[w].todo[1] = "runningCanary" => (tx[w].op = "abortCanary" /\ Left(w) = 5)
           /\ tx[w].todo[1] = "needCanary" => (tx[w].op = "jobAbort" /\ Left(w) = 6)
           /\ tx[w].todo[1] = "toggle" => (tx[w].op = "killSwitch" /\ Left(w) = 4)
           /\ tx[w].todo[1] = "auditOverride" =>
                \/ tx[w].op \in {"deploy", "startCanary"} /\ Left(w) = 9
                \/ tx[w].op \in {"deployCanary", "rollback", "promoteCanary"} /\ Left(w) = 8
                \/ tx[w].op \in {"promote", "jobAbort"} /\ Left(w) = 7
                \/ tx[w].op = "abortCanary" /\ Left(w) = 6
                \/ tx[w].op = "killSwitch" /\ Left(w) = 5
           /\ tx[w].todo[1] = "audit" <=> Left(w) = 3
           /\ tx[w].todo[1] = "snapshot" <=> Left(w) = 2
           /\ tx[w].todo[1] = "commit" <=> Left(w) = 1
  <1>1. PICK s, n : s = tx[w].todo[1] /\ n = Left(w)
    OBVIOUS
  <1>2. tx[w].op \in {"deploy", "deployCanary", "rollback", "promote", "startCanary",
                      "promoteCanary", "abortCanary", "jobAbort", "killSwitch"}
    BY DEF TxnIInv, Typed, Txs, Running, Ops, Program
  <1>3. CASE tx[w].op = "deploy"
    <2>1.
          \/ (n = 1 /\ s = "commit") \/ (n = 2 /\ s = "snapshot")
          \/ (n = 3 /\ s = "audit") \/ (n = 4 /\ s = "insertActive")
          \/ (n = 5 /\ s = "deactivate") \/ (n = 6 /\ s = "scanActive")
          \/ (n = 7 /\ s = "endCanary") \/ (n = 8 /\ s = "findCanary")
          \/ (n = 9 /\ s = "auditOverride")
      BY <1>1, <1>3, ScriptAt
    <2> QED BY <1>1, <1>3, <2>1
  <1>4. CASE tx[w].op = "deployCanary"
    <2>1.
          \/ (n = 1 /\ s = "commit") \/ (n = 2 /\ s = "snapshot")
          \/ (n = 3 /\ s = "audit") \/ (n = 4 /\ s = "insertCanary")
          \/ (n = 5 /\ s = "endCanary") \/ (n = 6 /\ s = "findCanary")
          \/ (n = 7 /\ s = "needActive") \/ (n = 8 /\ s = "auditOverride")
      BY <1>1, <1>4, ScriptAt
    <2> QED BY <1>1, <1>4, <2>1
  <1>5. CASE tx[w].op = "rollback"
    <2>1.
          \/ (n = 1 /\ s = "commit") \/ (n = 2 /\ s = "snapshot")
          \/ (n = 3 /\ s = "audit") \/ (n = 4 /\ s = "makeActive")
          \/ (n = 5 /\ s = "deactivate") \/ (n = 6 /\ s = "scanActive")
          \/ (n = 7 /\ s = "findTarget") \/ (n = 8 /\ s = "auditOverride")
      BY <1>1, <1>5, ScriptAt
    <2> QED BY <1>1, <1>5, <2>1
  <1>6. CASE tx[w].op = "promote"
    <2>1.
          \/ (n = 1 /\ s = "commit") \/ (n = 2 /\ s = "snapshot")
          \/ (n = 3 /\ s = "audit") \/ (n = 4 /\ s = "insertActive")
          \/ (n = 5 /\ s = "deactivate") \/ (n = 6 /\ s = "scanActive")
          \/ (n = 7 /\ s = "auditOverride")
      BY <1>1, <1>6, ScriptAt
    <2> QED BY <1>1, <1>6, <2>1
  <1>7. CASE tx[w].op = "startCanary"
    <2>1.
          \/ (n = 1 /\ s = "commit") \/ (n = 2 /\ s = "snapshot")
          \/ (n = 3 /\ s = "audit") \/ (n = 4 /\ s = "makeCanary")
          \/ (n = 5 /\ s = "endCanary") \/ (n = 6 /\ s = "findCanary")
          \/ (n = 7 /\ s = "needActive") \/ (n = 8 /\ s = "findEarlier")
          \/ (n = 9 /\ s = "auditOverride")
      BY <1>1, <1>7, ScriptAt
    <2> QED BY <1>1, <1>7, <2>1
  <1>8. CASE tx[w].op = "promoteCanary"
    <2>1.
          \/ (n = 1 /\ s = "commit") \/ (n = 2 /\ s = "snapshot")
          \/ (n = 3 /\ s = "audit") \/ (n = 4 /\ s = "makeActive")
          \/ (n = 5 /\ s = "deactivate") \/ (n = 6 /\ s = "scanActive")
          \/ (n = 7 /\ s = "targetCanary") \/ (n = 8 /\ s = "auditOverride")
      BY <1>1, <1>8, ScriptAt
    <2> QED BY <1>1, <1>8, <2>1
  <1>9. CASE tx[w].op = "abortCanary"
    <2>1.
          \/ (n = 1 /\ s = "commit") \/ (n = 2 /\ s = "snapshot")
          \/ (n = 3 /\ s = "audit") \/ (n = 4 /\ s = "endCanary")
          \/ (n = 5 /\ s = "runningCanary") \/ (n = 6 /\ s = "auditOverride")
      BY <1>1, <1>9, ScriptAt
    <2> QED BY <1>1, <1>9, <2>1
  <1>10. CASE tx[w].op = "jobAbort"
    <2>1.
          \/ (n = 1 /\ s = "commit") \/ (n = 2 /\ s = "snapshot")
          \/ (n = 3 /\ s = "audit") \/ (n = 4 /\ s = "endCanary")
          \/ (n = 5 /\ s = "findCanary") \/ (n = 6 /\ s = "needCanary")
          \/ (n = 7 /\ s = "auditOverride")
      BY <1>1, <1>10, ScriptAt
    <2> QED BY <1>1, <1>10, <2>1
  <1>11. CASE tx[w].op = "killSwitch"
    <2>1.
          \/ (n = 1 /\ s = "commit") \/ (n = 2 /\ s = "snapshot")
          \/ (n = 3 /\ s = "audit") \/ (n = 4 /\ s = "toggle")
          \/ (n = 5 /\ s = "auditOverride")
      BY <1>1, <1>11, ScriptAt
    <2> QED BY <1>1, <1>11, <2>1
  <1> QED BY <1>2, <1>3, <1>4, <1>5, <1>6, <1>7, <1>8, <1>9, <1>10, <1>11

(* What a transaction has still to do, or has done.                         *)
Ahead(w) == /\ Left(w) >= 4 => Course(w)
            /\ Left(w) <= 3 => Outcome(w)

(* A step of w's, beside which nothing moves.                               *)
Moves(w) ==
    /\ Running(w) /\ Left(w) \in Nat /\ Left(w)' = Left(w) - 1
    /\ rows' = rows /\ tx' \in [Workers -> Txs]
    /\ tx'[w].op = tx[w].op /\ tx'[w].alone = tx[w].alone
    /\ \A u \in Workers \ {w} : tx'[u] = tx[u]

LEMMA ReadEffect ==
    ASSUME TxnIInv, NEW w \in Workers, NEW s, s # "commit", NEW t \in Txs, Find(w, s, t),
           t.op = tx[w].op, t.alone = tx[w].alone, t.writes = tx[w].writes
    PROVE  /\ Moves(w) /\ tx[w].todo[1] = s
           /\ View(w)' = View(w)
           /\ \A x \in Statuses : Seen(w, x)' = Seen(w, x) /\ Committed(x)' = Committed(x)
           /\ tx'[w].target = t.target /\ tx'[w].canary = t.canary
           /\ tx'[w].actives = t.actives
  <1>1. Run(w, s, t) /\ rows' = rows /\ Typed
    BY DEF Find, TxnIInv
  <1>2. Running(w)
    BY <1>1, ScriptStep
  <1>3. /\ tx' \in [Workers -> Txs]
        /\ \A u \in Workers \ {w} : tx'[u] = tx[u]
        /\ tx'[w] = [t EXCEPT !.todo = Tail(tx[w].todo)]
        /\ Left(w) \in Nat /\ Left(w) >= 1 /\ Left(w)' = Left(w) - 1
        /\ tx[w].todo[1] = s
        /\ \A i \in 1..Left(w) - 1 : tx'[w].todo[i] = tx[w].todo[i + 1]
    BY <1>1, RunFacts
  <1>4. /\ tx'[w].op = t.op /\ tx'[w].alone = t.alone /\ tx'[w].target = t.target
        /\ tx'[w].canary = t.canary /\ tx'[w].actives = t.actives /\ tx'[w].writes = t.writes
    BY <1>3 DEF Txs
  <1>5. View(w)' = View(w)
    BY <1>1, <1>4, Zenon DEF View
  <1>6. \A x \in Statuses : Seen(w, x)' = Seen(w, x) /\ Committed(x)' = Committed(x)
    BY <1>1, <1>5, Zenon DEF Seen, Committed
  <1>7. Moves(w)
    BY <1>1, <1>2, <1>3, <1>4 DEF Moves
  <1> QED BY <1>3, <1>4, <1>5, <1>6, <1>7

LEMMA WriteEffect ==
    ASSUME TxnIInv, NEW w \in Workers, NEW s, s # "commit", NEW g \in Writes,
           Run(w, s, [tx[w] EXCEPT !.writes = Over(g, @)]), rows' = rows
    PROVE  /\ Moves(w) /\ tx[w].todo[1] = s
           /\ \A x \in Statuses : Committed(x)' = Committed(x)
           /\ \A v \in DOMAIN g : View(w)'[v] = g[v]
           /\ \A v \in RowIds \ DOMAIN g : View(w)'[v] = View(w)[v]
           /\ tx'[w].target = tx[w].target /\ tx'[w].canary = tx[w].canary
           /\ tx'[w].actives = tx[w].actives
  <1>1. /\ Typed /\ tx[w] \in Txs /\ tx[w].writes \in Writes
        /\ rows \in [RowIds -> Row] /\ rows \in Writes
    BY TxFacts DEF Typed, Writes
  <1>2. PICK f \in Writes : f = Over(g, tx[w].writes)
    BY <1>1, OverFacts
  <1>3. PICK t : t = [tx[w] EXCEPT !.writes = f]
    OBVIOUS
  <1>4. /\ t \in Txs /\ t.op = tx[w].op /\ t.alone = tx[w].alone /\ t.writes = f
        /\ t.target = tx[w].target /\ t.canary = tx[w].canary /\ t.actives = tx[w].actives
    BY <1>1, <1>3 DEF Txs
  <1>5. Run(w, s, t)
    BY <1>2, <1>3, Zenon
  <1>6. Running(w)
    BY <1>4, <1>5, ScriptStep
  <1>7. /\ tx' \in [Workers -> Txs]
        /\ \A u \in Workers \ {w} : tx'[u] = tx[u]
        /\ tx'[w] = [t EXCEPT !.todo = Tail(tx[w].todo)]
        /\ Left(w) \in Nat /\ Left(w) >= 1 /\ Left(w)' = Left(w) - 1
        /\ tx[w].todo[1] = s
        /\ \A i \in 1..Left(w) - 1 : tx'[w].todo[i] = tx[w].todo[i + 1]
    BY <1>1, <1>4, <1>5, RunFacts
  <1>8. /\ tx'[w].op = t.op /\ tx'[w].alone = t.alone /\ tx'[w].target = t.target
        /\ tx'[w].canary = t.canary /\ tx'[w].actives = t.actives /\ tx'[w].writes = f
    BY <1>4, <1>7 DEF Txs
  <1>9. View(w)' = Over(f, rows)
    BY <1>8, Zenon DEF View
  <1>10. /\ DOMAIN f = DOMAIN g \cup DOMAIN tx[w].writes
         /\ \A v \in DOMAIN g : f[v] = g[v]
         /\ \A v \in DOMAIN tx[w].writes \ DOMAIN g : f[v] = tx[w].writes[v]
    <2>1. PICK h \in Writes : h = tx[w].writes
      BY <1>1
    <2>2. /\ DOMAIN Over(g, h) = DOMAIN g \cup DOMAIN h
          /\ \A v \in DOMAIN g : Over(g, h)[v] = g[v]
          /\ \A v \in DOMAIN h \ DOMAIN g : Over(g, h)[v] = h[v]
      BY OverFacts
    <2> QED BY <1>2, <2>1, <2>2, Zenon
  <1>11. /\ \A v \in DOMAIN f : Over(f, rows)[v] = f[v]
         /\ \A v \in RowIds \ DOMAIN f : Over(f, rows)[v] = rows[v]
    <2>1. PICK h \in Writes : h = rows
      BY <1>1
    <2>2. DOMAIN h = RowIds
      BY <1>1, <2>1
    <2>3. /\ \A v \in DOMAIN f : Over(f, h)[v] = f[v]
          /\ \A v \in DOMAIN h \ DOMAIN f : Over(f, h)[v] = h[v]
      BY OverFacts
    <2> QED BY <2>1, <2>2, <2>3, Zenon
  <1>12. /\ \A v \in DOMAIN tx[w].writes : View(w)[v] = tx[w].writes[v]
         /\ \A v \in RowIds : v \notin DOMAIN tx[w].writes => View(w)[v] = rows[v]
    BY <1>1, ViewFacts
  <1>13. \A v \in DOMAIN g : View(w)'[v] = g[v]
    BY <1>9, <1>10, <1>11
  <1>14. ASSUME NEW v \in RowIds \ DOMAIN g PROVE View(w)'[v] = View(w)[v]
    BY <1>9, <1>10, <1>11, <1>12
  <1>15. \A x \in Statuses : Committed(x)' = Committed(x)
    BY Zenon DEF Committed
  <1>16. Moves(w)
    BY <1>4, <1>6, <1>7, <1>8 DEF Moves
  <1> QED BY <1>4, <1>7, <1>8, <1>13, <1>14, <1>15, <1>16

(* One row written: who is seen as what.                                    *)
LEMMA RowEffect ==
    ASSUME TxnIInv, NEW w \in Workers, NEW s, s # "commit", NEW v \in RowIds, NEW row \in Row,
           NEW g \in Writes, DOMAIN g = {v}, g[v] = row,
           Run(w, s, [tx[w] EXCEPT !.writes = Over(g, @)]), rows' = rows
    PROVE  /\ Moves(w) /\ tx[w].todo[1] = s
           /\ \A x \in Statuses : Committed(x)' = Committed(x)
           /\ View(w)'[v] = row
           /\ \A u \in RowIds \ {v} : View(w)'[u] = View(w)[u]
           /\ \A x \in Statuses :
                 Seen(w, x)' = IF v \in Ids /\ row.status = x /\ ~row.deleted
                               THEN Seen(w, x) \cup {v} ELSE Seen(w, x) \ {v}
           /\ tx'[w].target = tx[w].target /\ tx'[w].canary = tx[w].canary
           /\ tx'[w].actives = tx[w].actives
  <1>1. /\ Moves(w) /\ tx[w].todo[1] = s
        /\ \A x \in Statuses : Committed(x)' = Committed(x)
        /\ \A u \in DOMAIN g : View(w)'[u] = g[u]
        /\ \A u \in RowIds \ DOMAIN g : View(w)'[u] = View(w)[u]
        /\ tx'[w].target = tx[w].target /\ tx'[w].canary = tx[w].canary
        /\ tx'[w].actives = tx[w].actives
    BY WriteEffect
  <1>2. View(w)'[v] = row /\ \A u \in RowIds \ {v} : View(w)'[u] = View(w)[u]
    BY <1>1
  <1>3. ASSUME NEW x \in Statuses
        PROVE  Seen(w, x)' = IF v \in Ids /\ row.status = x /\ ~row.deleted
                             THEN Seen(w, x) \cup {v} ELSE Seen(w, x) \ {v}
    <2>1. \A u \in Ids : u # v =>
             (u \in Seen(w, x)' <=> u \in Seen(w, x))
      BY <1>2 DEF Seen, RowIds
    <2>2. v \in Seen(w, x)' <=> v \in Ids /\ row.status = x /\ ~row.deleted
      BY <1>2 DEF Seen
    <2>3. Seen(w, x) \subseteq Ids /\ Seen(w, x)' \subseteq Ids
      BY DEF Seen
    <2> QED BY <2>1, <2>2, <2>3
  <1> QED BY <1>1, <1>2, <1>3

LEMMA UpdateEffect ==
    ASSUME TxnIInv, NEW w \in Workers, NEW s, s # "commit", NEW v \in RowIds, NEW row \in Row,
           Update(w, s, v, row)
    PROVE  /\ Moves(w) /\ tx[w].todo[1] = s
           /\ \A x \in Statuses : Committed(x)' = Committed(x)
           /\ View(w)'[v] = row
           /\ \A u \in RowIds \ {v} : View(w)'[u] = View(w)[u]
           /\ \A x \in Statuses :
                 Seen(w, x)' = IF v \in Ids /\ row.status = x /\ ~row.deleted
                               THEN Seen(w, x) \cup {v} ELSE Seen(w, x) \ {v}
           /\ tx'[w].target = tx[w].target /\ tx'[w].canary = tx[w].canary
           /\ tx'[w].actives = tx[w].actives
  <1>1. PICK g : g = [u \in {v} |-> row]
    OBVIOUS
  <1>2. g \in Writes /\ DOMAIN g = {v} /\ g[v] = row
    <2>1. g \in [{v} -> Row] /\ {v} \subseteq RowIds
      BY <1>1
    <2> QED BY <1>1, <2>1 DEF Writes
  <1>3. Run(w, s, [tx[w] EXCEPT !.writes = Over(g, @)]) /\ rows' = rows
    BY <1>1, Zenon DEF Update, Find
  <1> QED BY <1>2, <1>3, RowEffect

(* What is seen decides all of it.                                          *)
LEMMA Unmoved ==
    ASSUME NEW w, rows' = rows, View(w)' = View(w)
    PROVE  /\ Clean(w)' <=> Clean(w)
           /\ NoCanary(w)' <=> NoCanary(w)
           /\ NoActive(w)' <=> NoActive(w)
           /\ Neither(w)' <=> Neither(w)
           /\ tx'[w].target = tx[w].target => (Unserved(w)' <=> Unserved(w))
           /\ tx'[w].canary = tx[w].canary => (Found(w)' <=> Found(w))
           /\ tx'[w].actives = tx[w].actives => (Scanned(w)' <=> Scanned(w))
  <1>1. \A s : Seen(w, s)' = Seen(w, s) /\ Committed(s)' = Committed(s)
    BY Zenon DEF Seen, Committed
  <1>2. Clean(w)' <=> Clean(w)
    BY <1>1 DEF Clean
  <1>3. (NoCanary(w)' <=> NoCanary(w)) /\ (NoActive(w)' <=> NoActive(w))
        /\ (Neither(w)' <=> Neither(w))
    BY <1>1 DEF NoCanary, NoActive, Neither
  <1>4. tx'[w].target = tx[w].target => (Unserved(w)' <=> Unserved(w))
    BY <1>1 DEF Unserved
  <1>5. tx'[w].canary = tx[w].canary => (Found(w)' <=> Found(w))
    BY <1>1 DEF Found
  <1>6. tx'[w].actives = tx[w].actives => (Scanned(w)' <=> Scanned(w))
    BY Zenon DEF Scanned
  <1> QED BY <1>2, <1>3, <1>4, <1>5, <1>6

LEMMA NeedActiveAhead ==
    ASSUME TxnIInv, NEW w \in Workers, Ahead(w), NeedActive(w)
    PROVE  Moves(w) /\ Ahead(w)'
  <1>1. Find(w, "needActive", tx[w]) /\ Seen(w, "active") # {} /\ tx[w] \in Txs
    BY TxFacts DEF NeedActive
  <1>2. /\ Moves(w) /\ tx[w].todo[1] = "needActive"
        /\ View(w)' = View(w)
        /\ \A x \in Statuses : Seen(w, x)' = Seen(w, x) /\ Committed(x)' = Committed(x)
        /\ tx'[w].target = tx[w].target /\ tx'[w].canary = tx[w].canary
        /\ tx'[w].actives = tx[w].actives
    BY <1>1, ReadEffect
  <1>3. /\ Running(w) /\ rows' = rows /\ tx'[w].op = tx[w].op
        /\ Left(w)' = Left(w) - 1 /\ Left(w) \in Nat
        /\ Committed("active")' = Committed("active")
    BY <1>2 DEF Moves, Statuses
  <1>4. \/ tx[w].op = "deployCanary" /\ Left(w) = 7
        \/ tx[w].op = "startCanary" /\ Left(w) = 7
    BY <1>2, <1>3, WhereNext
  <1>5. CASE tx[w].op = "deployCanary" /\ Left(w) = 7
    <2>1. Clean(w)
      BY <1>5 DEF Ahead, Course, DeployCanaryCourse
    <2>2. Clean(w)' /\ Committed("active")' # {}
      BY <1>1, <1>2, <1>3, <2>1, Unmoved DEF Clean
    <2>3. Left(w)' = 6 /\ tx'[w].op = "deployCanary"
      BY <1>3, <1>5
    <2> QED BY <1>2, <2>2, <2>3 DEF Ahead, Course, DeployCanaryCourse
  <1>6. CASE tx[w].op = "startCanary" /\ Left(w) = 7
    <2>1. Clean(w) /\ Unserved(w)
      BY <1>6 DEF Ahead, Course, StartCanaryCourse
    <2>2. Clean(w)' /\ Unserved(w)' /\ Committed("active")' # {}
      BY <1>1, <1>2, <1>3, <2>1, Unmoved DEF Clean
    <2>3. Left(w)' = 6 /\ tx'[w].op = "startCanary"
      BY <1>3, <1>6
    <2> QED BY <1>2, <2>2, <2>3 DEF Ahead, Course, StartCanaryCourse
  <1> QED BY <1>4, <1>5, <1>6

LEMMA NeedCanaryAhead ==
    ASSUME TxnIInv, NEW w \in Workers, Ahead(w), NeedCanary(w)
    PROVE  Moves(w) /\ Ahead(w)'
  <1>1. Find(w, "needCanary", tx[w]) /\ Seen(w, "canary") # {} /\ tx[w] \in Txs
    BY TxFacts DEF NeedCanary
  <1>2. /\ Moves(w) /\ tx[w].todo[1] = "needCanary"
        /\ View(w)' = View(w)
        /\ \A x \in Statuses : Seen(w, x)' = Seen(w, x) /\ Committed(x)' = Committed(x)
        /\ tx'[w].target = tx[w].target /\ tx'[w].canary = tx[w].canary
        /\ tx'[w].actives = tx[w].actives
    BY <1>1, ReadEffect
  <1>3. /\ Running(w) /\ rows' = rows /\ tx'[w].op = tx[w].op
        /\ Left(w)' = Left(w) - 1 /\ Left(w) \in Nat
        /\ Committed("active")' = Committed("active")
        /\ Committed("canary")' = Committed("canary")
    BY <1>2 DEF Moves, Statuses
  <1>4. tx[w].op = "jobAbort" /\ Left(w) = 6
    BY <1>2, <1>3, WhereNext
  <1>5. CASE tx[w].op = "jobAbort" /\ Left(w) = 6
    <2>1. Clean(w)
      BY <1>5 DEF Ahead, Course, JobAbortCourse
    <2>2. Clean(w)' /\ Committed("canary")' # {}
      BY <1>1, <1>2, <1>3, <2>1, Unmoved DEF Clean
    <2>3. Left(w)' = 5 /\ tx'[w].op = "jobAbort"
      BY <1>3, <1>5
    <2> QED BY <1>2, <2>2, <2>3 DEF Ahead, Course, JobAbortCourse
  <1> QED BY <1>2, <1>4, <1>5

LEMMA FindCanaryAhead ==
    ASSUME TxnIInv, NEW w \in Workers, Ahead(w), FindCanary(w)
    PROVE  Moves(w) /\ Ahead(w)'
  <1>1. PICK v \in First(Seen(w, "canary")) :
        Find(w, "findCanary", [tx[w] EXCEPT !.canary = v])
        /\ v \in 0..MaxVersions
    <2>1. PICK v \in First(Seen(w, "canary")) : Find(w, "findCanary", [tx[w] EXCEPT !.canary = v])
      BY DEF FindCanary
    <2>2. v \in 0..MaxVersions
      BY SeenIds DEF First, Ids
    <2> QED BY <2>1, <2>2
  <1>2. /\ Moves(w) /\ tx[w].todo[1] = "findCanary"
        /\ View(w)' = View(w)
        /\ \A x \in Statuses : Seen(w, x)' = Seen(w, x) /\ Committed(x)' = Committed(x)
        /\ tx'[w].target = tx[w].target /\ tx'[w].canary = v
        /\ tx'[w].actives = tx[w].actives
    <2>1. PICK t : t = [tx[w] EXCEPT !.canary = v]
      OBVIOUS
    <2>2. tx[w] \in Txs
      BY TxFacts
    <2>3. /\ t \in Txs /\ t.op = tx[w].op /\ t.alone = tx[w].alone
          /\ t.writes = tx[w].writes /\ t.target = tx[w].target /\ t.canary = v
          /\ t.actives = tx[w].actives
      BY <1>1, <2>1, <2>2 DEF Txs
    <2>4. Find(w, "findCanary", t)
      BY <1>1, <2>1, Zenon
    <2> QED BY <2>3, <2>4, ReadEffect
  <1>3. /\ Running(w) /\ rows' = rows /\ tx'[w].op = tx[w].op
        /\ Left(w)' = Left(w) - 1 /\ Left(w) \in Nat
        /\ Committed("active")' = Committed("active")
        /\ Committed("canary")' = Committed("canary")
    BY <1>2 DEF Moves, Statuses
  <1>4. \/ tx[w].op = "deploy" /\ Left(w) = 8
        \/ tx[w].op = "deployCanary" /\ Left(w) = 6
        \/ tx[w].op = "startCanary" /\ Left(w) = 6
        \/ tx[w].op = "jobAbort" /\ Left(w) = 5
    BY <1>2, <1>3, WhereNext
  <1>5. CASE tx[w].op = "deploy" /\ Left(w) = 8
    <2>1. Clean(w)
      BY <1>5 DEF Ahead, Course, DeployCourse
    <2>2. Clean(w)' /\ Found(w)'
      BY <1>1, <1>2, <1>3, <2>1, Unmoved DEF Clean, Found
    <2>3. Left(w)' = 7 /\ tx'[w].op = "deploy"
      BY <1>3, <1>5
    <2> QED BY <1>2, <2>2, <2>3 DEF Ahead, Course, DeployCourse
  <1>6. CASE tx[w].op = "deployCanary" /\ Left(w) = 6
    <2>1. Clean(w) /\ Committed("active") # {}
      BY <1>6 DEF Ahead, Course, DeployCanaryCourse
    <2>2. Clean(w)' /\ Found(w)' /\ Committed("active")' # {}
      BY <1>1, <1>2, <1>3, <2>1, Unmoved DEF Clean, Found
    <2>3. Left(w)' = 5 /\ tx'[w].op = "deployCanary"
      BY <1>3, <1>6
    <2> QED BY <1>2, <2>2, <2>3 DEF Ahead, Course, DeployCanaryCourse
  <1>7. CASE tx[w].op = "startCanary" /\ Left(w) = 6
    <2>1. Clean(w) /\ Committed("active") # {} /\ Unserved(w)
      BY <1>7 DEF Ahead, Course, StartCanaryCourse
    <2>2. Clean(w)' /\ Found(w)'
          /\ Committed("active")' # {} /\ Unserved(w)'
      BY <1>1, <1>2, <1>3, <2>1, Unmoved DEF Clean, Found
    <2>3. Left(w)' = 5 /\ tx'[w].op = "startCanary"
      BY <1>3, <1>7
    <2> QED BY <1>2, <2>2, <2>3 DEF Ahead, Course, StartCanaryCourse
  <1>8. CASE tx[w].op = "jobAbort" /\ Left(w) = 5
    <2>1. Clean(w) /\ Committed("canary") # {}
      BY <1>8 DEF Ahead, Course, JobAbortCourse
    <2>2. Clean(w)' /\ Found(w)' /\ Committed("canary")' # {}
      BY <1>1, <1>2, <1>3, <2>1, Unmoved DEF Clean, Found
    <2>3. Left(w)' = 4 /\ tx'[w].op = "jobAbort"
      BY <1>3, <1>8
    <2> QED BY <1>2, <2>2, <2>3 DEF Ahead, Course, JobAbortCourse
  <1> QED BY <1>2, <1>4, <1>5, <1>6, <1>7, <1>8

LEMMA RunningCanaryAhead ==
    ASSUME TxnIInv, NEW w \in Workers, Ahead(w), RunningCanary(w)
    PROVE  Moves(w) /\ Ahead(w)'
  <1>1. PICK v \in Seen(w, "canary") :
        Find(w, "runningCanary", [tx[w] EXCEPT !.canary = v])
        /\ v \in 0..MaxVersions
    <2>1. PICK v \in Seen(w, "canary") : Find(w, "runningCanary", [tx[w] EXCEPT !.canary = v])
      BY DEF RunningCanary
    <2>2. v \in 0..MaxVersions
      BY SeenIds DEF Ids
    <2> QED BY <2>1, <2>2
  <1>2. /\ Moves(w) /\ tx[w].todo[1] = "runningCanary"
        /\ View(w)' = View(w)
        /\ \A x \in Statuses : Seen(w, x)' = Seen(w, x) /\ Committed(x)' = Committed(x)
        /\ tx'[w].target = tx[w].target /\ tx'[w].canary = v
        /\ tx'[w].actives = tx[w].actives
    <2>1. PICK t : t = [tx[w] EXCEPT !.canary = v]
      OBVIOUS
    <2>2. tx[w] \in Txs
      BY TxFacts
    <2>3. /\ t \in Txs /\ t.op = tx[w].op /\ t.alone = tx[w].alone
          /\ t.writes = tx[w].writes /\ t.target = tx[w].target /\ t.canary = v
          /\ t.actives = tx[w].actives
      BY <1>1, <2>1, <2>2 DEF Txs
    <2>4. Find(w, "runningCanary", t)
      BY <1>1, <2>1, Zenon
    <2> QED BY <2>3, <2>4, ReadEffect
  <1>3. /\ Running(w) /\ rows' = rows /\ tx'[w].op = tx[w].op
        /\ Left(w)' = Left(w) - 1 /\ Left(w) \in Nat
        /\ Committed("active")' = Committed("active")
        /\ Committed("canary")' = Committed("canary")
    BY <1>2 DEF Moves, Statuses
  <1>4. tx[w].op = "abortCanary" /\ Left(w) = 5
    BY <1>2, <1>3, WhereNext
  <1>5. CASE tx[w].op = "abortCanary" /\ Left(w) = 5
    <2>1. Clean(w)
      BY <1>5 DEF Ahead, Course, AbortCanaryCourse
    <2>2. Clean(w)' /\ tx'[w].canary \in Committed("canary")'
      BY <1>1, <1>2, <1>3, <2>1, Unmoved DEF Clean
    <2>3. Left(w)' = 4 /\ tx'[w].op = "abortCanary"
      BY <1>3, <1>5
    <2> QED BY <1>2, <2>2, <2>3 DEF Ahead, Course, AbortCanaryCourse
  <1> QED BY <1>2, <1>4, <1>5

LEMMA TargetCanaryAhead ==
    ASSUME TxnIInv, NEW w \in Workers, Ahead(w), TargetCanary(w)
    PROVE  Moves(w) /\ Ahead(w)'
  <1>1. PICK v \in Seen(w, "canary") :
        Find(w, "targetCanary", [tx[w] EXCEPT !.target = v])
        /\ v \in 0..MaxVersions
    <2>1. PICK v \in Seen(w, "canary") : Find(w, "targetCanary", [tx[w] EXCEPT !.target = v])
      BY DEF TargetCanary
    <2>2. v \in 0..MaxVersions
      BY SeenIds DEF Ids
    <2> QED BY <2>1, <2>2
  <1>2. /\ Moves(w) /\ tx[w].todo[1] = "targetCanary"
        /\ View(w)' = View(w)
        /\ \A x \in Statuses : Seen(w, x)' = Seen(w, x) /\ Committed(x)' = Committed(x)
        /\ tx'[w].target = v /\ tx'[w].canary = tx[w].canary
        /\ tx'[w].actives = tx[w].actives
    <2>1. PICK t : t = [tx[w] EXCEPT !.target = v]
      OBVIOUS
    <2>2. tx[w] \in Txs
      BY TxFacts
    <2>3. /\ t \in Txs /\ t.op = tx[w].op /\ t.alone = tx[w].alone
          /\ t.writes = tx[w].writes /\ t.target = v /\ t.canary = tx[w].canary
          /\ t.actives = tx[w].actives
      BY <1>1, <2>1, <2>2 DEF Txs
    <2>4. Find(w, "targetCanary", t)
      BY <1>1, <2>1, Zenon
    <2> QED BY <2>3, <2>4, ReadEffect
  <1>3. /\ Running(w) /\ rows' = rows /\ tx'[w].op = tx[w].op
        /\ Left(w)' = Left(w) - 1 /\ Left(w) \in Nat
        /\ Committed("active")' = Committed("active")
        /\ Committed("canary")' = Committed("canary")
    BY <1>2 DEF Moves, Statuses
  <1>4. tx[w].op = "promoteCanary" /\ Left(w) = 7
    BY <1>2, <1>3, WhereNext
  <1>5. CASE tx[w].op = "promoteCanary" /\ Left(w) = 7
    <2>1. Clean(w)
      BY <1>5 DEF Ahead, Course, PromoteCanaryCourse
    <2>2. Clean(w)' /\ tx'[w].target \in Committed("canary")'
      BY <1>1, <1>2, <1>3, <2>1, Unmoved DEF Clean
    <2>3. Left(w)' = 6 /\ tx'[w].op = "promoteCanary"
      BY <1>3, <1>5
    <2> QED BY <1>2, <2>2, <2>3 DEF Ahead, Course, PromoteCanaryCourse
  <1> QED BY <1>2, <1>4, <1>5

LEMMA FindTargetAhead ==
    ASSUME TxnIInv, NEW w \in Workers, Ahead(w), FindTarget(w)
    PROVE  Moves(w) /\ Ahead(w)'
  <1>1. PICK v \in Seen(w, "inactive") :
        Find(w, "findTarget", [tx[w] EXCEPT !.target = v])
        /\ v \in 0..MaxVersions
    <2>1. PICK v \in Seen(w, "inactive") : Find(w, "findTarget", [tx[w] EXCEPT !.target = v])
      BY DEF FindTarget
    <2>2. v \in 0..MaxVersions
      BY SeenIds DEF Ids
    <2> QED BY <2>1, <2>2
  <1>2. /\ Moves(w) /\ tx[w].todo[1] = "findTarget"
        /\ View(w)' = View(w)
        /\ \A x \in Statuses : Seen(w, x)' = Seen(w, x) /\ Committed(x)' = Committed(x)
        /\ tx'[w].target = v /\ tx'[w].canary = tx[w].canary
        /\ tx'[w].actives = tx[w].actives
    <2>1. PICK t : t = [tx[w] EXCEPT !.target = v]
      OBVIOUS
    <2>2. tx[w] \in Txs
      BY TxFacts
    <2>3. /\ t \in Txs /\ t.op = tx[w].op /\ t.alone = tx[w].alone
          /\ t.writes = tx[w].writes /\ t.target = v /\ t.canary = tx[w].canary
          /\ t.actives = tx[w].actives
      BY <1>1, <2>1, <2>2 DEF Txs
    <2>4. Find(w, "findTarget", t)
      BY <1>1, <2>1, Zenon
    <2> QED BY <2>3, <2>4, ReadEffect
  <1>3. /\ Running(w) /\ rows' = rows /\ tx'[w].op = tx[w].op
        /\ Left(w)' = Left(w) - 1 /\ Left(w) \in Nat
        /\ Committed("active")' = Committed("active")
        /\ Committed("canary")' = Committed("canary")
    BY <1>2 DEF Moves, Statuses
  <1>4. tx[w].op = "rollback" /\ Left(w) = 7
    BY <1>2, <1>3, WhereNext
  <1>5. CASE tx[w].op = "rollback" /\ Left(w) = 7
    <2>1. Clean(w)
      BY <1>5 DEF Ahead, Course, RollbackCourse
    <2>2. Clean(w)' /\ Unserved(w)'
      BY <1>1, <1>2, <1>3, <2>1, Unmoved DEF Clean, Unserved, Seen
    <2>3. Left(w)' = 6 /\ tx'[w].op = "rollback"
      BY <1>3, <1>5
    <2> QED BY <1>2, <2>2, <2>3 DEF Ahead, Course, RollbackCourse
  <1> QED BY <1>2, <1>4, <1>5

LEMMA FindEarlierAhead ==
    ASSUME TxnIInv, NEW w \in Workers, OneEach, Ahead(w), FindEarlier(w)
    PROVE  Moves(w) /\ Ahead(w)'
  <1>1. PICK current \in First(Seen(w, "canary")),
             v \in Seen(w, "inactive") \cup Seen(w, "canary") :
        v # current /\ Find(w, "findEarlier", [tx[w] EXCEPT !.target = v])
        /\ v \in 0..MaxVersions
    <2>1. PICK current \in First(Seen(w, "canary")),
               v \in Seen(w, "inactive") \cup Seen(w, "canary") :
             v # current /\ Find(w, "findEarlier", [tx[w] EXCEPT !.target = v])
      BY DEF FindEarlier
    <2>2. v \in 0..MaxVersions
      BY SeenIds DEF Ids
    <2> QED BY <2>1, <2>2
  <1>2. /\ Moves(w) /\ tx[w].todo[1] = "findEarlier"
        /\ View(w)' = View(w)
        /\ \A x \in Statuses : Seen(w, x)' = Seen(w, x) /\ Committed(x)' = Committed(x)
        /\ tx'[w].target = v /\ tx'[w].canary = tx[w].canary
        /\ tx'[w].actives = tx[w].actives
    <2>1. PICK t : t = [tx[w] EXCEPT !.target = v]
      OBVIOUS
    <2>2. tx[w] \in Txs
      BY TxFacts
    <2>3. /\ t \in Txs /\ t.op = tx[w].op /\ t.alone = tx[w].alone
          /\ t.writes = tx[w].writes /\ t.target = v /\ t.canary = tx[w].canary
          /\ t.actives = tx[w].actives
      BY <1>1, <2>1, <2>2 DEF Txs
    <2>4. Find(w, "findEarlier", t)
      BY <1>1, <2>1, Zenon
    <2> QED BY <2>3, <2>4, ReadEffect
  <1>3. /\ Running(w) /\ rows' = rows /\ tx'[w].op = tx[w].op
        /\ Left(w)' = Left(w) - 1 /\ Left(w) \in Nat
        /\ Committed("active")' = Committed("active")
        /\ Committed("canary")' = Committed("canary")
    BY <1>2 DEF Moves, Statuses
  <1>4. tx[w].op = "startCanary" /\ Left(w) = 8
    BY <1>2, <1>3, WhereNext
  <1>5. CASE tx[w].op = "startCanary" /\ Left(w) = 8
    <2>1. Clean(w)
      BY <1>5 DEF Ahead, Course, StartCanaryCourse
    <2>2. v \in Seen(w, "inactive")
      BY <1>1, <2>1 DEF Clean, OneEach, First
    <2>3. Clean(w)' /\ Unserved(w)'
      BY <1>1, <1>2, <1>3, <2>1, Unmoved, <2>2 DEF Clean, Unserved, Seen
    <2>4. Left(w)' = 7 /\ tx'[w].op = "startCanary"
      BY <1>3, <1>5
    <2> QED BY <1>2, <2>3, <2>4 DEF Ahead, Course, StartCanaryCourse
  <1> QED BY <1>2, <1>4, <1>5

LEMMA ScanActiveAhead ==
    ASSUME TxnIInv, NEW w \in Workers, Ahead(w), ScanActive(w)
    PROVE  Moves(w) /\ Ahead(w)'
  <1>1. PICK S \in SUBSET Ids : S = {v \in Ids : View(w)[v].status = "active"}
    OBVIOUS
  <1>2. /\ Moves(w) /\ tx[w].todo[1] = "scanActive"
        /\ View(w)' = View(w)
        /\ \A x \in Statuses : Seen(w, x)' = Seen(w, x) /\ Committed(x)' = Committed(x)
        /\ tx'[w].target = tx[w].target /\ tx'[w].canary = tx[w].canary
        /\ tx'[w].actives = S
    <2>1. PICK t : t = [tx[w] EXCEPT !.actives = S]
      OBVIOUS
    <2>2. tx[w] \in Txs
      BY TxFacts
    <2>3. /\ t \in Txs /\ t.op = tx[w].op /\ t.alone = tx[w].alone
          /\ t.writes = tx[w].writes /\ t.target = tx[w].target /\ t.canary = tx[w].canary
          /\ t.actives = S
      BY <1>1, <2>1, <2>2 DEF Txs
    <2>4. Find(w, "scanActive", t)
      BY <1>1, <2>1, Zenon DEF ScanActive
    <2> QED BY <2>3, <2>4, ReadEffect
  <1>3. /\ Running(w) /\ rows' = rows /\ tx'[w].op = tx[w].op
        /\ Left(w)' = Left(w) - 1 /\ Left(w) \in Nat
        /\ Committed("active")' = Committed("active")
        /\ Committed("canary")' = Committed("canary")
    BY <1>2 DEF Moves, Statuses
  <1>4. \/ tx[w].op = "deploy" /\ Left(w) = 6
        \/ tx[w].op = "rollback" /\ Left(w) = 6
        \/ tx[w].op = "promote" /\ Left(w) = 6
        \/ tx[w].op = "promoteCanary" /\ Left(w) = 6
    BY <1>2, <1>3, WhereNext
  <1>5. Scanned(w)'
    BY <1>1, <1>2, Zenon DEF Scanned
  <1>6. CASE tx[w].op = "deploy" /\ Left(w) = 6
    <2>1. NoCanary(w)
      BY <1>6 DEF Ahead, Course, DeployCourse
    <2>2. NoCanary(w)' /\ Scanned(w)'
      BY <1>1, <1>2, <1>3, <2>1, Unmoved, <1>5
    <2>3. Left(w)' = 5 /\ tx'[w].op = "deploy"
      BY <1>3, <1>6
    <2> QED BY <1>2, <2>2, <2>3 DEF Ahead, Course, DeployCourse
  <1>7. CASE tx[w].op = "rollback" /\ Left(w) = 6
    <2>1. Clean(w) /\ Unserved(w)
      BY <1>7 DEF Ahead, Course, RollbackCourse
    <2>2. Clean(w)' /\ Unserved(w)' /\ Scanned(w)'
      BY <1>1, <1>2, <1>3, <2>1, Unmoved, <1>5
    <2>3. Left(w)' = 5 /\ tx'[w].op = "rollback"
      BY <1>3, <1>7
    <2> QED BY <1>2, <2>2, <2>3 DEF Ahead, Course, RollbackCourse
  <1>8. CASE tx[w].op = "promote" /\ Left(w) = 6
    <2>1. Clean(w)
      BY <1>8 DEF Ahead, Course, PromoteCourse
    <2>2. Clean(w)' /\ Scanned(w)'
      BY <1>1, <1>2, <1>3, <2>1, Unmoved, <1>5
    <2>3. Left(w)' = 5 /\ tx'[w].op = "promote"
      BY <1>3, <1>8
    <2> QED BY <1>2, <2>2, <2>3 DEF Ahead, Course, PromoteCourse
  <1>9. CASE tx[w].op = "promoteCanary" /\ Left(w) = 6
    <2>1. Clean(w) /\ tx[w].target \in Committed("canary")
      BY <1>9 DEF Ahead, Course, PromoteCanaryCourse
    <2>2. /\ Clean(w)' /\ Scanned(w)'
          /\ tx'[w].target \in Committed("canary")'
      BY <1>1, <1>2, <1>3, <2>1, Unmoved, <1>5
    <2>3. Left(w)' = 5 /\ tx'[w].op = "promoteCanary"
      BY <1>3, <1>9
    <2> QED BY <1>2, <2>2, <2>3 DEF Ahead, Course, PromoteCanaryCourse
  <1> QED BY <1>2, <1>4, <1>6, <1>7, <1>8, <1>9

LEMMA ServedFacts ==
    /\ 0 \notin Ids
    /\ \A s : Committed(s) \subseteq Ids
    /\ Committed("active") \cap Committed("canary") = {}
  BY DEF Committed, Ids

LEMMA EndCanaryAhead ==
    ASSUME TxnIInv, NEW w \in Workers, OneEach, Ahead(w), EndCanary(w)
    PROVE  Moves(w) /\ Ahead(w)'
  <1>1. /\ Typed /\ tx[w] \in Txs /\ tx[w].canary \in RowIds
    BY TxFacts
  <1>2. PICK c \in RowIds : c = tx[w].canary
    BY <1>1
  <1>3. /\ Moves(w) /\ tx[w].todo[1] = "endCanary"
        /\ Committed("active")' = Committed("active")
        /\ Committed("canary")' = Committed("canary")
        /\ Seen(w, "active")' = Seen(w, "active") \ {c}
        /\ Seen(w, "canary")' = Seen(w, "canary") \ {c}
        /\ \A u \in RowIds \ {c} : View(w)'[u] = View(w)[u]
        /\ tx'[w].target = tx[w].target
    <2>1. CASE c = 0
      <3>1. Find(w, "endCanary", tx[w])
        BY <1>2, <2>1 DEF EndCanary
      <3>2. c \notin Seen(w, "active") /\ c \notin Seen(w, "canary")
        BY <2>1, ServedFacts DEF Seen
      <3> QED BY <1>1, <3>1, <3>2, ReadEffect DEF Statuses
    <2>2. CASE c # 0
      <3>1. Update(w, "endCanary", c, [View(w)[c] EXCEPT !.status = "inactive"])
        BY <1>2, <2>2 DEF EndCanary
      <3>2. PICK row \in Row : row = [View(w)[c] EXCEPT !.status = "inactive"]
        BY <1>1, ViewFacts, RowChanges DEF Statuses
      <3>3. Update(w, "endCanary", c, row)
        BY <3>1, <3>2, Zenon
      <3>4. row.status = "inactive"
        BY <1>1, <3>2, ViewFacts DEF Row
      <3>5. /\ Moves(w) /\ tx[w].todo[1] = "endCanary"
            /\ \A x \in Statuses : Committed(x)' = Committed(x)
            /\ View(w)'[c] = row
            /\ \A u \in RowIds \ {c} : View(w)'[u] = View(w)[u]
            /\ \A x \in Statuses :
                  Seen(w, x)' = IF c \in Ids /\ row.status = x /\ ~row.deleted
                                THEN Seen(w, x) \cup {c} ELSE Seen(w, x) \ {c}
            /\ tx'[w].target = tx[w].target /\ tx'[w].canary = tx[w].canary
            /\ tx'[w].actives = tx[w].actives
        BY <3>3, UpdateEffect
      <3> QED BY <3>4, <3>5 DEF Statuses
    <2> QED BY <2>1, <2>2
  <1>4. /\ Running(w) /\ tx'[w].op = tx[w].op /\ Left(w)' = Left(w) - 1 /\ Left(w) \in Nat
    BY <1>3 DEF Moves
  <1>5. \/ tx[w].op = "deploy" /\ Left(w) = 7
        \/ tx[w].op = "deployCanary" /\ Left(w) = 5
        \/ tx[w].op = "startCanary" /\ Left(w) = 5
        \/ tx[w].op = "abortCanary" /\ Left(w) = 4
        \/ tx[w].op = "jobAbort" /\ Left(w) = 4
    BY <1>3, <1>4, WhereNext
  <1>6. Clean(w) /\ (Found(w) \/ c \in Committed("canary"))
    BY <1>2, <1>5 DEF Ahead, Course, DeployCourse, DeployCanaryCourse, StartCanaryCourse,
         AbortCanaryCourse, JobAbortCourse
  <1>7. NoCanary(w)' /\ (c = 0 \/ c \in Committed("canary"))
    <2>1. (c = 0 /\ Committed("canary") = {}) \/ c \in Committed("canary")
      BY <1>2, <1>6 DEF Found, First
    <2>2. Committed("active") \ {c} = Committed("active") /\ Committed("canary") \ {c} = {}
      BY <2>1, ServedFacts DEF OneEach
    <2> QED BY <1>3, <1>6, <2>1, <2>2 DEF Clean, NoCanary
  <1>8. CASE tx[w].op = "deploy" /\ Left(w) = 7
    <2>1. Left(w)' = 6 /\ tx'[w].op = "deploy"
      BY <1>4, <1>8
    <2> QED BY <1>3, <1>7, <2>1 DEF Ahead, Course, DeployCourse
  <1>9. CASE tx[w].op = "deployCanary" /\ Left(w) = 5
    <2>1. Committed("active") # {}
      BY <1>9 DEF Ahead, Course, DeployCanaryCourse
    <2>2. Left(w)' = 4 /\ tx'[w].op = "deployCanary"
      BY <1>4, <1>9
    <2> QED BY <1>3, <1>7, <2>1, <2>2 DEF Ahead, Course, DeployCanaryCourse
  <1>10. CASE tx[w].op = "startCanary" /\ Left(w) = 5
    <2>1. Committed("active") # {} /\ Unserved(w)
      BY <1>10 DEF Ahead, Course, StartCanaryCourse
    <2>2. Unserved(w)'
      <3>1. tx[w].target \in RowIds \ {c}
        BY <1>7, <2>1, ServedFacts DEF Unserved, RowIds
      <3> QED BY <1>3, <2>1, <3>1 DEF Unserved
    <2>3. Left(w)' = 4 /\ tx'[w].op = "startCanary"
      BY <1>4, <1>10
    <2> QED BY <1>3, <1>7, <2>1, <2>2, <2>3 DEF Ahead, Course, StartCanaryCourse
  <1>11. CASE tx[w].op \in {"abortCanary", "jobAbort"} /\ Left(w) = 4
    <2>1. Committed("canary") # {}
      BY <1>2, <1>11 DEF Ahead, Course, AbortCanaryCourse, JobAbortCourse
    <2>2. Left(w)' = 3 /\ tx'[w].op \in {"abortCanary", "jobAbort"}
      BY <1>4, <1>11
    <2> QED BY <1>3, <1>7, <2>1, <2>2 DEF Ahead, Outcome, Ended
  <1> QED BY <1>5, <1>8, <1>9, <1>10, <1>11

LEMMA DeactivateAhead ==
    ASSUME TxnIInv, NEW w \in Workers, OneEach, Ahead(w), Deactivate(w)
    PROVE  Moves(w) /\ Ahead(w)'
  <1>1. /\ Typed /\ tx[w] \in Txs /\ tx[w].actives \subseteq Ids
        /\ View(w) \in [RowIds -> Row]
    BY TxFacts, ViewFacts
  <1>2. PICK still : still = {v \in tx[w].actives : View(w)[v].status = "active"}
    OBVIOUS
  <1>3. PICK g : g = [v \in still |-> [View(w)[v] EXCEPT !.status = "inactive"]]
    OBVIOUS
  <1>4. still \subseteq RowIds
    BY <1>1, <1>2 DEF RowIds
  <1>5. g \in Writes /\ DOMAIN g = still
    <2>1. \A v \in still : [View(w)[v] EXCEPT !.status = "inactive"] \in Row
      BY <1>1, <1>4, RowChanges DEF Statuses
    <2>2. g \in [still -> Row]
      BY <1>3, <2>1
    <2> QED BY <1>4, <2>2 DEF Writes
  <1>6. Run(w, "deactivate", [tx[w] EXCEPT !.writes = Over(g, @)]) /\ rows' = rows
    BY <1>2, <1>3, Zenon DEF Deactivate, Find
  <1>7. /\ Moves(w) /\ tx[w].todo[1] = "deactivate"
        /\ Committed("active")' = Committed("active")
        /\ Committed("canary")' = Committed("canary")
        /\ \A v \in still : View(w)'[v] = g[v]
        /\ \A v \in RowIds \ still : View(w)'[v] = View(w)[v]
        /\ tx'[w].target = tx[w].target
    BY <1>5, <1>6, WriteEffect DEF Statuses
  <1>8. /\ Running(w) /\ tx'[w].op = tx[w].op /\ Left(w)' = Left(w) - 1 /\ Left(w) \in Nat
    BY <1>7 DEF Moves
  <1>9. \/ tx[w].op = "deploy" /\ Left(w) = 5
        \/ tx[w].op = "rollback" /\ Left(w) = 5
        \/ tx[w].op = "promote" /\ Left(w) = 5
        \/ tx[w].op = "promoteCanary" /\ Left(w) = 5
    BY <1>7, <1>8, WhereNext
  <1>10. Scanned(w)
    BY <1>9 DEF Ahead, Course, DeployCourse, RollbackCourse, PromoteCourse, PromoteCanaryCourse
  <1>11. /\ \A v \in Ids : View(w)[v].status = "active" <=> v \in still
         /\ \A v \in still : View(w)'[v].status = "inactive"
    <2>1. \A v \in Ids : View(w)[v].status = "active" <=> v \in still
      BY <1>2, <1>10 DEF Scanned
    <2>2. ASSUME NEW v \in still PROVE View(w)'[v].status = "inactive"
      BY <1>1, <1>3, <1>4, <1>7 DEF Row
    <2> QED BY <2>1, <2>2
  <1>12. Seen(w, "active")' = {}
    BY <1>7, <1>11 DEF Seen, RowIds
  <1>13. Seen(w, "canary")' = Seen(w, "canary")
    <2>1. \A v \in Ids : v \in Seen(w, "canary")' <=> v \in Seen(w, "canary")
      BY <1>7, <1>11 DEF Seen, RowIds
    <2>2. Seen(w, "canary") \subseteq Ids /\ Seen(w, "canary")' \subseteq Ids
      BY DEF Seen
    <2> QED BY <2>1, <2>2
  <1>14. CASE tx[w].op = "deploy" /\ Left(w) = 5
    <2>1. Neither(w)'
      BY <1>12, <1>13, <1>14 DEF Ahead, Course, DeployCourse, NoCanary, Neither
    <2>2. Left(w)' = 4 /\ tx'[w].op = "deploy"
      BY <1>8, <1>14
    <2> QED BY <1>7, <2>1, <2>2 DEF Ahead, Course, DeployCourse
  <1>15. CASE tx[w].op = "rollback" /\ Left(w) = 5
    <2>1. Clean(w) /\ Unserved(w)
      BY <1>15 DEF Ahead, Course, RollbackCourse
    <2>2. NoActive(w)'
      BY <1>7, <1>12, <1>13, <2>1 DEF Clean, NoActive
    <2>3. Unserved(w)'
      <3>1. tx[w].target \in RowIds \ still
        BY <2>1, <1>11 DEF Unserved, RowIds
      <3> QED BY <1>7, <2>1, <3>1 DEF Unserved
    <2>4. Left(w)' = 4 /\ tx'[w].op = "rollback"
      BY <1>8, <1>15
    <2> QED BY <1>7, <2>2, <2>3, <2>4 DEF Ahead, Course, RollbackCourse
  <1>16. CASE tx[w].op = "promote" /\ Left(w) = 5
    <2>1. NoActive(w)'
      BY <1>7, <1>12, <1>13, <1>16 DEF Ahead, Course, PromoteCourse, Clean, NoActive
    <2>2. Left(w)' = 4 /\ tx'[w].op = "promote"
      BY <1>8, <1>16
    <2> QED BY <1>7, <2>1, <2>2 DEF Ahead, Course, PromoteCourse
  <1>17. CASE tx[w].op = "promoteCanary" /\ Left(w) = 5
    <2>1. Clean(w) /\ tx[w].target \in Committed("canary")
      BY <1>17 DEF Ahead, Course, PromoteCanaryCourse
    <2>2. NoActive(w)'
      BY <1>7, <1>12, <1>13, <2>1 DEF Clean, NoActive
    <2>3. Left(w)' = 4 /\ tx'[w].op = "promoteCanary"
      BY <1>8, <1>17
    <2> QED BY <1>7, <2>1, <2>2, <2>3 DEF Ahead, Course, PromoteCanaryCourse
  <1> QED BY <1>9, <1>14, <1>15, <1>16, <1>17

(* A version inserted is seen by nobody before, and is not served.          *)
LEMMA InsertEffect ==
    ASSUME TxnIInv, NEW w \in Workers, NEW s, s # "commit", NEW given \in {"active", "canary"},
           Insert(w, s, given)
    PROVE  \E v \in Ids :
              /\ Moves(w) /\ tx[w].todo[1] = s
              /\ v \notin Committed("active") /\ v \notin Committed("canary")
              /\ Committed("active")' = Committed("active")
              /\ Committed("canary")' = Committed("canary")
              /\ Seen(w, given)' = Seen(w, given) \cup {v}
              /\ \A x \in {"active", "canary"} \ {given} : Seen(w, x)' = Seen(w, x)
  <1>1. created \in Nat /\ created < MaxVersions /\ created' = created + 1 /\ rows' = rows
    BY TxFacts DEF Insert
  <1>2. PICK v \in Ids : v = created' /\ v > created
    BY <1>1 DEF Ids
  <1>3. PICK row \in Row : row = NewRow(given)
    <2>1. NewRow(given) \in Row
      BY DEF NewRow, Row, Statuses
    <2> QED BY <2>1
  <1>4. PICK g : g = [u \in {v} |-> row]
    OBVIOUS
  <1>5. g \in Writes /\ DOMAIN g = {v} /\ g[v] = row /\ v \in RowIds
    <2>1. g \in [{v} -> Row] /\ {v} \subseteq RowIds
      BY <1>4 DEF RowIds
    <2> QED BY <1>4, <2>1 DEF Writes
  <1>6. Run(w, s, [tx[w] EXCEPT !.writes = Over(g, @)])
    BY <1>2, <1>3, <1>4, Zenon DEF Insert
  <1>7. /\ Moves(w) /\ tx[w].todo[1] = s
        /\ \A x \in Statuses : Committed(x)' = Committed(x)
        /\ View(w)'[v] = row
        /\ \A u \in RowIds \ {v} : View(w)'[u] = View(w)[u]
        /\ \A x \in Statuses :
              Seen(w, x)' = IF v \in Ids /\ row.status = x /\ ~row.deleted
                            THEN Seen(w, x) \cup {v} ELSE Seen(w, x) \ {v}
        /\ tx'[w].target = tx[w].target /\ tx'[w].canary = tx[w].canary
        /\ tx'[w].actives = tx[w].actives
    BY <1>1, <1>5, <1>6, RowEffect
  <1>8. row.status = given /\ ~row.deleted
    BY <1>3 DEF NewRow
  <1>9. \A x \in {"active", "canary"} : v \notin Seen(w, x)
    BY <1>1, <1>2, SeenIds DEF Ids
  <1>10. v \notin Committed("active") /\ v \notin Committed("canary")
    <2>1. rows[v].status = "none"
      BY <1>2 DEF TxnIInv, FreshOK, NewRow
    <2> QED BY <2>1 DEF Committed
  <1>11. Seen(w, given)' = Seen(w, given) \cup {v}
    BY <1>7, <1>8 DEF Statuses
  <1>12. \A x \in {"active", "canary"} \ {given} : Seen(w, x)' = Seen(w, x)
    <2>1. ASSUME NEW x \in {"active", "canary"} \ {given} PROVE Seen(w, x)' = Seen(w, x)
      <3>1. Seen(w, x)' = Seen(w, x) \ {v}
        BY <1>7, <1>8 DEF Statuses
      <3> QED BY <1>9, <3>1
    <2> QED BY <2>1
  <1>13. Committed("active")' = Committed("active") /\ Committed("canary")' = Committed("canary")
    BY <1>7 DEF Statuses
  <1> QED BY <1>7, <1>10, <1>11, <1>12, <1>13

LEMMA InsertActiveAhead ==
    ASSUME TxnIInv, NEW w \in Workers, Ahead(w), InsertActive(w)
    PROVE  Moves(w) /\ Ahead(w)'
  <1>1. PICK v \in Ids :
              /\ Moves(w) /\ tx[w].todo[1] = "insertActive"
              /\ v \notin Committed("active") /\ v \notin Committed("canary")
              /\ Committed("active")' = Committed("active")
              /\ Committed("canary")' = Committed("canary")
              /\ Seen(w, "active")' = Seen(w, "active") \cup {v}
              /\ \A x \in {"active", "canary"} \ {"active"} : Seen(w, x)' = Seen(w, x)
    BY InsertEffect DEF InsertActive
  <1>2. /\ Running(w) /\ tx'[w].op = tx[w].op /\ Left(w)' = Left(w) - 1 /\ Left(w) \in Nat
    BY <1>1 DEF Moves
  <1>3. tx[w].op \in {"deploy", "promote"} /\ Left(w) = 4
    BY <1>1, <1>2, WhereNext
  <1>4. /\ Seen(w, "active") = {}
        /\ Seen(w, "canary") \in {{}, Committed("canary")}
    BY <1>3 DEF Ahead, Course, DeployCourse, PromoteCourse, Neither, NoActive
  <1>5. Activated(w)'
    BY <1>1, <1>4 DEF Activated
  <1>6. Left(w)' = 3 /\ tx'[w].op \in {"deploy", "promote"}
    BY <1>2, <1>3
  <1> QED BY <1>1, <1>5, <1>6 DEF Ahead, Outcome

LEMMA InsertCanaryAhead ==
    ASSUME TxnIInv, NEW w \in Workers, Ahead(w), InsertCanary(w)
    PROVE  Moves(w) /\ Ahead(w)'
  <1>1. PICK v \in Ids :
              /\ Moves(w) /\ tx[w].todo[1] = "insertCanary"
              /\ v \notin Committed("active") /\ v \notin Committed("canary")
              /\ Committed("active")' = Committed("active")
              /\ Committed("canary")' = Committed("canary")
              /\ Seen(w, "canary")' = Seen(w, "canary") \cup {v}
              /\ \A x \in {"active", "canary"} \ {"canary"} : Seen(w, x)' = Seen(w, x)
    BY InsertEffect DEF InsertCanary
  <1>2. /\ Running(w) /\ tx'[w].op = tx[w].op /\ Left(w)' = Left(w) - 1 /\ Left(w) \in Nat
    BY <1>1 DEF Moves
  <1>3. tx[w].op = "deployCanary" /\ Left(w) = 4
    BY <1>1, <1>2, WhereNext
  <1>4. Committed("active") # {} /\ NoCanary(w)
    BY <1>3 DEF Ahead, Course, DeployCanaryCourse
  <1>5. Started(w)'
    BY <1>1, <1>4 DEF Started, NoCanary
  <1>6. Left(w)' = 3 /\ tx'[w].op = "deployCanary"
    BY <1>2, <1>3
  <1> QED BY <1>1, <1>5, <1>6 DEF Ahead, Outcome

LEMMA MakeActiveAhead ==
    ASSUME TxnIInv, NEW w \in Workers, OneEach, Ahead(w), MakeActive(w)
    PROVE  Moves(w) /\ Ahead(w)'
  <1>1. /\ Typed /\ View(w) \in [RowIds -> Row]
        /\ tx[w].target \in RowIds
    BY TxFacts, ViewFacts
  <1>2. PICK v \in RowIds : v = tx[w].target
    BY <1>1
  <1>3. PICK row \in Row : row = [View(w)[v] EXCEPT !.status = "active", !.activated = TRUE]
    BY <1>1, RowChanges DEF Statuses
  <1>4. row.status = "active" /\ row.deleted = View(w)[v].deleted
    BY <1>1, <1>3 DEF Row
  <1>5. Update(w, "makeActive", v, row)
    BY <1>2, <1>3, Zenon DEF MakeActive
  <1>6. /\ Moves(w) /\ tx[w].todo[1] = "makeActive"
        /\ \A x \in Statuses : Committed(x)' = Committed(x)
        /\ View(w)'[v] = row
        /\ \A u \in RowIds \ {v} : View(w)'[u] = View(w)[u]
        /\ \A x \in Statuses :
              Seen(w, x)' = IF v \in Ids /\ row.status = x /\ ~row.deleted
                            THEN Seen(w, x) \cup {v} ELSE Seen(w, x) \ {v}
        /\ tx'[w].target = tx[w].target /\ tx'[w].canary = tx[w].canary
        /\ tx'[w].actives = tx[w].actives
    BY <1>5, UpdateEffect
  <1>7. /\ Running(w) /\ tx'[w].op = tx[w].op /\ Left(w)' = Left(w) - 1 /\ Left(w) \in Nat
        /\ Committed("active")' = Committed("active")
        /\ Committed("canary")' = Committed("canary")
    BY <1>6 DEF Moves, Statuses
  <1>8. tx[w].op \in {"rollback", "promoteCanary"} /\ Left(w) = 4
    BY <1>6, <1>7, WhereNext
  <1>9. Left(w)' = 3
    BY <1>7, <1>8
  <1>10. NoActive(w)
    BY <1>8 DEF Ahead, Course, RollbackCourse, PromoteCanaryCourse
  <1>11. v \in Ids /\ ~row.deleted
    <2>1. CASE tx[w].op = "rollback"
      BY <1>2, <1>4, <1>8, <2>1 DEF Ahead, Course, RollbackCourse, Unserved
    <2>2. CASE tx[w].op = "promoteCanary"
      <3>1. v \in Seen(w, "canary")
        BY <1>2, <1>8, <1>10, <2>2 DEF Ahead, Course, PromoteCanaryCourse, NoActive
      <3> QED BY <1>4, <3>1 DEF Seen
    <2> QED BY <1>8, <2>1, <2>2
  <1>12. /\ Seen(w, "active")' = {v}
         /\ Seen(w, "canary")' = Committed("canary") \ {v}
    BY <1>4, <1>6, <1>10, <1>11 DEF NoActive, Statuses
  <1>13. CASE tx[w].op = "rollback"
    <2>1. v \notin Committed("canary")
      BY <1>2, <1>8, <1>13 DEF Ahead, Course, RollbackCourse, Unserved
    <2>2. Activated(w)'
      BY <1>7, <1>11, <1>12, <2>1 DEF Activated
    <2> QED BY <1>6, <1>7, <1>9, <1>13, <2>2 DEF Ahead, Outcome
  <1>14. CASE tx[w].op = "promoteCanary"
    <2>1. v \in Committed("canary")
      BY <1>2, <1>8, <1>14 DEF Ahead, Course, PromoteCanaryCourse
    <2>2. Committed("canary") = {v}
      BY <2>1 DEF OneEach
    <2>3. Promoted(w)'
      BY <1>7, <1>12, <2>2 DEF Promoted
    <2> QED BY <1>6, <1>7, <1>9, <1>14, <2>3 DEF Ahead, Outcome
  <1> QED BY <1>8, <1>13, <1>14

LEMMA MakeCanaryAhead ==
    ASSUME TxnIInv, NEW w \in Workers, Ahead(w), MakeCanary(w)
    PROVE  Moves(w) /\ Ahead(w)'
  <1>1. /\ Typed /\ View(w) \in [RowIds -> Row]
        /\ tx[w].target \in RowIds
    BY TxFacts, ViewFacts
  <1>2. PICK v \in RowIds : v = tx[w].target
    BY <1>1
  <1>3. PICK row \in Row : row = [View(w)[v] EXCEPT !.status = "canary"]
    BY <1>1, RowChanges DEF Statuses
  <1>4. row.status = "canary" /\ row.deleted = View(w)[v].deleted
    BY <1>1, <1>3 DEF Row
  <1>5. Update(w, "makeCanary", v, row)
    BY <1>2, <1>3, Zenon DEF MakeCanary
  <1>6. /\ Moves(w) /\ tx[w].todo[1] = "makeCanary"
        /\ \A x \in Statuses : Committed(x)' = Committed(x)
        /\ View(w)'[v] = row
        /\ \A u \in RowIds \ {v} : View(w)'[u] = View(w)[u]
        /\ \A x \in Statuses :
              Seen(w, x)' = IF v \in Ids /\ row.status = x /\ ~row.deleted
                            THEN Seen(w, x) \cup {v} ELSE Seen(w, x) \ {v}
        /\ tx'[w].target = tx[w].target /\ tx'[w].canary = tx[w].canary
        /\ tx'[w].actives = tx[w].actives
    BY <1>5, UpdateEffect
  <1>7. /\ Running(w) /\ tx'[w].op = tx[w].op /\ Left(w)' = Left(w) - 1 /\ Left(w) \in Nat
        /\ Committed("active")' = Committed("active")
    BY <1>6 DEF Moves, Statuses
  <1>8. tx[w].op = "startCanary" /\ Left(w) = 4
    BY <1>6, <1>7, WhereNext
  <1>9. NoCanary(w) /\ Unserved(w) /\ Committed("active") # {}
    BY <1>8 DEF Ahead, Course, StartCanaryCourse
  <1>10. /\ Seen(w, "canary")' = {v} /\ Seen(w, "active")' = Committed("active") \ {v}
         /\ v \in Ids \ Committed("active")
    BY <1>2, <1>4, <1>6, <1>9 DEF NoCanary, Unserved, Statuses
  <1>11. Started(w)'
    BY <1>7, <1>9, <1>10 DEF Started
  <1>12. Left(w)' = 3 /\ tx'[w].op = "startCanary"
    BY <1>7, <1>8
  <1> QED BY <1>6, <1>11, <1>12 DEF Ahead, Outcome

(* The kill switch touches no version.                                      *)
LEMMA ToggleAhead ==
    ASSUME TxnIInv, NEW w \in Workers, Ahead(w), Toggle(w)
    PROVE  Moves(w) /\ Ahead(w)'
  <1>1. PICK s \in {"on", "off"}, v \in RowIds :
           v = KillSwitch /\ Update(w, "toggle", v, [View(w)[v] EXCEPT !.status = s])
    BY DEF Toggle, RowIds
  <1>2. Typed /\ View(w) \in [RowIds -> Row]
    BY TxFacts, ViewFacts
  <1>3. PICK row \in Row : row = [View(w)[v] EXCEPT !.status = s]
    BY <1>2, RowChanges DEF Statuses
  <1>4. Update(w, "toggle", v, row)
    BY <1>1, <1>3, Zenon
  <1>5. /\ Moves(w) /\ tx[w].todo[1] = "toggle"
        /\ \A x \in Statuses : Committed(x)' = Committed(x)
        /\ View(w)'[v] = row
        /\ \A u \in RowIds \ {v} : View(w)'[u] = View(w)[u]
        /\ \A x \in Statuses :
              Seen(w, x)' = IF v \in Ids /\ row.status = x /\ ~row.deleted
                            THEN Seen(w, x) \cup {v} ELSE Seen(w, x) \ {v}
        /\ tx'[w].target = tx[w].target /\ tx'[w].canary = tx[w].canary
        /\ tx'[w].actives = tx[w].actives
    BY <1>4, UpdateEffect
  <1>6. v \notin Ids /\ \A x \in Statuses : v \notin Seen(w, x)
    BY <1>1, ServedFacts DEF KillSwitch, Seen
  <1>7. \A x \in {"active", "canary"} : Seen(w, x)' = Seen(w, x) /\ Committed(x)' = Committed(x)
    BY <1>5, <1>6 DEF Statuses
  <1>8. /\ Running(w) /\ tx'[w].op = tx[w].op /\ Left(w)' = Left(w) - 1 /\ Left(w) \in Nat
    BY <1>5 DEF Moves
  <1>9. tx[w].op = "killSwitch" /\ Left(w) = 4
    BY <1>5, <1>8, WhereNext
  <1>10. Clean(w)'
    BY <1>7, <1>9 DEF Ahead, Course, Clean
  <1>11. Left(w)' = 3 /\ tx'[w].op = "killSwitch"
    BY <1>8, <1>9
  <1> QED BY <1>5, <1>10, <1>11 DEF Ahead, Outcome

LEMMA OutcomeKept ==
    ASSUME NEW w, rows' = rows, View(w)' = View(w), tx'[w].op = tx[w].op
    PROVE  Outcome(w)' <=> Outcome(w)
  <1>1. \A s : Seen(w, s)' = Seen(w, s) /\ Committed(s)' = Committed(s)
    BY Zenon DEF Seen, Committed
  <1>2. (Activated(w)' <=> Activated(w)) /\ (Started(w)' <=> Started(w))
    BY <1>1 DEF Activated, Started
  <1>3. (Promoted(w)' <=> Promoted(w)) /\ (Ended(w)' <=> Ended(w)) /\ (Clean(w)' <=> Clean(w))
    BY <1>1 DEF Promoted, Ended, NoCanary, Clean
  <1> QED BY <1>2, <1>3 DEF Outcome

(* Recording a change alters none of what it sees.                          *)
LEMMA AuditAhead ==
    ASSUME TxnIInv, NEW w \in Workers, Ahead(w),
           NEW s \in {"auditOverride", "audit"}, InsertAudit(w, s)
    PROVE  Moves(w) /\ Ahead(w)'
  <1>1. tx[w] \in Txs /\ tx[w].seqs \in Seq(Nat) /\ Typed
    BY TxFacts DEF Txs
  <1>2. PICK q : q = Append(tx[w].seqs, NextNumber(w))
    OBVIOUS
  <1>3. q \in Seq(Nat)
    <2>1. PICK p \in Seq(Nat), k \in Nat : p = tx[w].seqs /\ k = NextNumber(w)
      <3>1. Len(chain) \in Nat /\ Len(tx[w].seqs) \in Nat
        BY <1>1, EmptySeq DEF Typed
      <3>2. NextNumber(w) \in Nat
        BY <3>1, NumberFacts
      <3> QED BY <1>1, <3>2
    <2>2. Append(p, k) \in Seq(Nat)
      BY AppendProperties
    <2> QED BY <1>2, <2>1, <2>2, Zenon
  <1>4. PICK t : t = [tx[w] EXCEPT !.seqs = q]
    OBVIOUS
  <1>5. /\ t \in Txs /\ t.op = tx[w].op /\ t.alone = tx[w].alone
        /\ t.writes = tx[w].writes /\ t.target = tx[w].target /\ t.canary = tx[w].canary
        /\ t.actives = tx[w].actives
    BY <1>1, <1>3, <1>4 DEF Txs
  <1>6. Run(w, s, t) /\ rows' = rows
    BY <1>2, <1>4, Zenon DEF InsertAudit
  <1>7. Running(w)
    BY <1>5, <1>6, ScriptStep
  <1>8. /\ tx' \in [Workers -> Txs]
        /\ \A u \in Workers \ {w} : tx'[u] = tx[u]
        /\ tx'[w] = [t EXCEPT !.todo = Tail(tx[w].todo)]
        /\ Left(w) \in Nat /\ Left(w) >= 1 /\ Left(w)' = Left(w) - 1
        /\ tx[w].todo[1] = s
        /\ \A i \in 1..Left(w) - 1 : tx'[w].todo[i] = tx[w].todo[i + 1]
    BY <1>1, <1>5, <1>6, RunFacts
  <1>9. /\ tx'[w].op = tx[w].op /\ tx'[w].alone = tx[w].alone /\ tx'[w].writes = tx[w].writes
        /\ tx'[w].target = tx[w].target
    BY <1>5, <1>8 DEF Txs
  <1>10. View(w)' = View(w)
    BY <1>6, <1>9, Zenon DEF View
  <1>11. Moves(w)
    BY <1>6, <1>7, <1>8, <1>9 DEF Moves
  <1>12. CASE s = "audit"
    <2>1. Left(w) = 3
      BY <1>7, <1>8, <1>12, WhereNext
    <2>2. Left(w)' = 2
      BY <1>8, <2>1
    <2> QED BY <1>6, <1>9, <1>10, <1>11, <2>1, <2>2, OutcomeKept DEF Ahead
  <1>13. CASE s = "auditOverride"
    <2>1. \/ tx[w].op \in {"deploy", "startCanary"} /\ Left(w) = 9
          \/ tx[w].op \in {"deployCanary", "rollback", "promoteCanary"} /\ Left(w) = 8
          \/ tx[w].op \in {"promote", "jobAbort"} /\ Left(w) = 7
          \/ tx[w].op = "abortCanary" /\ Left(w) = 6
          \/ tx[w].op = "killSwitch" /\ Left(w) = 5
      BY <1>7, <1>8, <1>13, WhereNext
    <2>2. Clean(w)
      BY <2>1 DEF Ahead, Course, DeployCourse, DeployCanaryCourse, RollbackCourse, PromoteCourse,
           StartCanaryCourse, PromoteCanaryCourse, AbortCanaryCourse, JobAbortCourse
    <2>3. Clean(w)'
      BY <1>6, <1>10, <2>2, Unmoved
    <2>4. CASE tx[w].op \in {"deploy", "startCanary"} /\ Left(w) = 9
      <3>1. Left(w)' = 8 /\ tx'[w].op \in {"deploy", "startCanary"}
        BY <1>8, <1>9, <2>4
      <3> QED BY <1>11, <2>3, <3>1 DEF Ahead, Course, DeployCourse, StartCanaryCourse
    <2>5. CASE tx[w].op \in {"deployCanary", "rollback", "promoteCanary"} /\ Left(w) = 8
      <3>1. Left(w)' = 7 /\ tx'[w].op \in {"deployCanary", "rollback", "promoteCanary"}
        BY <1>8, <1>9, <2>5
      <3> QED BY <1>11, <2>3, <3>1
            DEF Ahead, Course, DeployCanaryCourse, RollbackCourse, PromoteCanaryCourse
    <2>6. CASE tx[w].op \in {"promote", "jobAbort"} /\ Left(w) = 7
      <3>1. Left(w)' = 6 /\ tx'[w].op \in {"promote", "jobAbort"}
        BY <1>8, <1>9, <2>6
      <3> QED BY <1>11, <2>3, <3>1 DEF Ahead, Course, PromoteCourse, JobAbortCourse
    <2>7. CASE tx[w].op = "abortCanary" /\ Left(w) = 6
      <3>1. Left(w)' = 5 /\ tx'[w].op = "abortCanary"
        BY <1>8, <1>9, <2>7
      <3> QED BY <1>11, <2>3, <3>1 DEF Ahead, Course, AbortCanaryCourse
    <2>8. CASE tx[w].op = "killSwitch" /\ Left(w) = 5
      <3>1. Left(w)' = 4 /\ tx'[w].op = "killSwitch"
        BY <1>8, <1>9, <2>8
      <3> QED BY <1>11, <2>3, <3>1 DEF Ahead, Course
    <2> QED BY <2>1, <2>4, <2>5, <2>6, <2>7, <2>8
  <1> QED BY <1>12, <1>13

LEMMA SnapshotAhead ==
    ASSUME TxnIInv, NEW w \in Workers, Ahead(w), Snapshot(w)
    PROVE  Moves(w) /\ Ahead(w)'
  <1>1. tx[w] \in Txs /\ Typed
    BY TxFacts
  <1>2. PICK b : b = Manifest(View(w))
    OBVIOUS
  <1>3. b \subseteq RowIds \X Statuses
    BY <1>1, <1>2, ViewFacts, ManifestType
  <1>4. PICK t : t = [tx[w] EXCEPT !.built = b]
    OBVIOUS
  <1>5. /\ t \in Txs /\ t.op = tx[w].op /\ t.alone = tx[w].alone
        /\ t.writes = tx[w].writes /\ t.target = tx[w].target
    BY <1>1, <1>3, <1>4 DEF Txs
  <1>6. Find(w, "snapshot", t)
    BY <1>2, <1>4, Zenon DEF Snapshot
  <1>7. Moves(w) /\ tx[w].todo[1] = "snapshot" /\ View(w)' = View(w)
    BY <1>5, <1>6, ReadEffect
  <1>8. /\ Running(w) /\ tx'[w].op = tx[w].op /\ Left(w)' = Left(w) - 1 /\ rows' = rows
    BY <1>7 DEF Moves
  <1>9. Left(w) = 2
    BY <1>7, <1>8, WhereNext
  <1>10. Left(w)' = 1
    BY <1>8, <1>9
  <1> QED BY <1>7, <1>8, <1>9, <1>10, OutcomeKept DEF Ahead

--------------------------------------------------------------------------------
LEMMA StatementAhead ==
    ASSUME TxnIInv, NEW w \in Workers, OneEach, Ahead(w), Statement(w)
    PROVE  Moves(w) /\ Ahead(w)'
  <1>1. CASE AuditOverride(w)
    BY <1>1, AuditAhead DEF AuditOverride
  <1>2. CASE Audit(w)
    BY <1>2, AuditAhead DEF Audit
  <1> QED
    BY <1>1, <1>2, NeedActiveAhead, NeedCanaryAhead, FindCanaryAhead, RunningCanaryAhead,
       EndCanaryAhead, FindTargetAhead, FindEarlierAhead, TargetCanaryAhead, ScanActiveAhead,
       DeactivateAhead, InsertActiveAhead, InsertCanaryAhead, MakeActiveAhead, MakeCanaryAhead,
       ToggleAhead, SnapshotAhead
    DEF Statement

(* A statement moves its own transaction and no committed row, and finds    *)
(* out nothing about who runs beside it.                                    *)
Keeps(w, t) == "alone" \in DOMAIN t /\ t.alone = tx[w].alone

LEMMA StatementMoves ==
    ASSUME TxnIInv, NEW w \in Workers, Statement(w)
    PROVE  /\ Running(w) /\ rows' = rows /\ tx'[w].alone = tx[w].alone
           /\ \A u \in Workers \ {w} : tx'[u] = tx[u]
  <1>1. tx[w] \in Txs /\ tx \in [Workers -> Txs]
    BY DEF TxnIInv, Typed
  <1>2. /\ Keeps(w, tx[w])
        /\ \A x : Keeps(w, [tx[w] EXCEPT !.canary = x])
        /\ \A x : Keeps(w, [tx[w] EXCEPT !.target = x])
        /\ \A x : Keeps(w, [tx[w] EXCEPT !.actives = x])
        /\ \A x : Keeps(w, [tx[w] EXCEPT !.writes = x])
        /\ \A x : Keeps(w, [tx[w] EXCEPT !.seqs = x])
        /\ \A x : Keeps(w, [tx[w] EXCEPT !.built = x])
    BY <1>1 DEF Keeps, Txs
  <1>3. rows' = rows /\ \E s, t : Run(w, s, t) /\ Keeps(w, t)
    <2>1. ASSUME NEW s, NEW t, Find(w, s, t), Keeps(w, t)
          PROVE  rows' = rows /\ \E x, y : Run(w, x, y) /\ Keeps(w, y)
      BY <2>1 DEF Find
    <2>2. ASSUME NEW s, NEW v, NEW row, Update(w, s, v, row)
          PROVE  rows' = rows /\ \E x, y : Run(w, x, y) /\ Keeps(w, y)
      BY <1>2, <2>2, <2>1, Zenon DEF Update
    <2>3. ASSUME NEW s, NEW given, Insert(w, s, given)
          PROVE  rows' = rows /\ \E x, y : Run(w, x, y) /\ Keeps(w, y)
      BY <1>2, <2>3, Zenon DEF Insert
    <2>4. ASSUME NEW s, InsertAudit(w, s)
          PROVE  rows' = rows /\ \E x, y : Run(w, x, y) /\ Keeps(w, y)
      BY <1>2, <2>4, Zenon DEF InsertAudit
    <2>5. CASE NeedActive(w) \/ NeedCanary(w) \/ FindCanary(w) \/ RunningCanary(w)
      BY <1>2, <2>1, <2>5, Zenon DEF NeedActive, NeedCanary, FindCanary, RunningCanary
    <2>6. CASE FindTarget(w) \/ FindEarlier(w) \/ TargetCanary(w) \/ ScanActive(w)
      BY <1>2, <2>1, <2>6, Zenon DEF FindTarget, FindEarlier, TargetCanary, ScanActive
    <2>7. CASE EndCanary(w)
      BY <1>2, <2>1, <2>2, <2>7, Zenon DEF EndCanary
    <2>8. CASE Deactivate(w) \/ Snapshot(w)
      BY <1>2, <2>1, <2>8, Zenon DEF Deactivate, Snapshot
    <2>9. CASE MakeActive(w) \/ MakeCanary(w) \/ Toggle(w)
      BY <2>2, <2>9, Zenon DEF MakeActive, MakeCanary, Toggle
    <2>10. CASE InsertActive(w) \/ InsertCanary(w)
      BY <2>3, <2>10, Zenon DEF InsertActive, InsertCanary
    <2>11. CASE AuditOverride(w) \/ Audit(w)
      BY <2>4, <2>11, Zenon DEF AuditOverride, Audit
    <2> QED BY <2>5, <2>6, <2>7, <2>8, <2>9, <2>10, <2>11 DEF Statement
  <1>4. PICK s, t : Run(w, s, t) /\ Keeps(w, t)
    BY <1>3
  <1>5. tx[w].todo # <<>> /\ tx' = [tx EXCEPT ![w] = [t EXCEPT !.todo = Tail(tx[w].todo)]]
    BY <1>4 DEF Run
  <1>6. \A u \in Workers \ {w} : tx'[u] = tx[u]
    BY <1>1, <1>5
  <1>7. tx'[w].alone = tx[w].alone
    <2>1. tx'[w] = [t EXCEPT !.todo = Tail(tx[w].todo)]
      BY <1>1, <1>5
    <2> QED BY <1>4, <2>1 DEF Keeps
  <1>8. Running(w)
    BY <1>5 DEF TxnIInv, ScriptOK, NoTx
  <1> QED BY <1>3, <1>6, <1>7, <1>8

LEMMA IsolatedStatement ==
    ASSUME TxnIInv, IsolatedIInv, NEW w \in Workers, Statement(w)
    PROVE  IsolatedIInv'
  <1>1. /\ Running(w) /\ rows' = rows /\ tx'[w].alone = tx[w].alone
        /\ \A u \in Workers \ {w} : tx'[u] = tx[u]
    BY StatementMoves
  <1>2. ASSUME NEW u \in Workers \ {w} PROVE IsolatedOK(u)'
    <2>1. ~(Running(u) /\ tx[u].alone)
      BY <1>1 DEF IsolatedIInv, IsolatedOK
    <2> QED BY <1>1, <2>1 DEF IsolatedOK, Running
  <1>3. IsolatedOK(w)'
    <2>1. SUFFICES ASSUME Running(w)', tx'[w].alone
                   PROVE  /\ \A u \in Workers : Running(u)' => u = w
                          /\ OneEach' => Ahead(w)'
      BY DEF IsolatedOK, Ahead
    <2>2. OneEach' <=> OneEach
      BY <1>1 DEF OneEach, Committed
    <2>3. tx[w].alone
      BY <1>1, <2>1
    <2>4. (\A u \in Workers : Running(u) => u = w) /\ (OneEach => Ahead(w))
      BY <1>1, <2>3 DEF IsolatedIInv, IsolatedOK, Ahead
    <2>5. \A u \in Workers : Running(u)' => u = w
      BY <1>1, <2>4 DEF Running
    <2> QED BY <2>2, <2>4, <2>5, StatementAhead
  <1> QED BY <1>2, <1>3 DEF IsolatedIInv

LEMMA ProgramLengths ==
    /\ Len(Program["deploy"]) = 5
    /\ Len(Program["deployCanary"]) = 4
    /\ Len(Program["rollback"]) = 4
    /\ Len(Program["promote"]) = 3
    /\ Len(Program["startCanary"]) = 5
    /\ Len(Program["promoteCanary"]) = 4
    /\ Len(Program["abortCanary"]) = 2
    /\ Len(Program["jobAbort"]) = 3
    /\ Len(Program["killSwitch"]) = 1
  <1>1. Len(Program["deploy"]) = 5
    <2>1. PICK p : p = Program["deploy"]
      OBVIOUS
    <2>2. Len(p) = 5
      BY <2>1 DEF Program
    <2> QED BY <2>1, <2>2
  <1>2. Len(Program["deployCanary"]) = 4
    <2>1. PICK p : p = Program["deployCanary"]
      OBVIOUS
    <2>2. Len(p) = 4
      BY <2>1 DEF Program
    <2> QED BY <2>1, <2>2
  <1>3. Len(Program["rollback"]) = 4
    <2>1. PICK p : p = Program["rollback"]
      OBVIOUS
    <2>2. Len(p) = 4
      BY <2>1 DEF Program
    <2> QED BY <2>1, <2>2
  <1>4. Len(Program["promote"]) = 3
    <2>1. PICK p : p = Program["promote"]
      OBVIOUS
    <2>2. Len(p) = 3
      BY <2>1 DEF Program
    <2> QED BY <2>1, <2>2
  <1>5. Len(Program["startCanary"]) = 5
    <2>1. PICK p : p = Program["startCanary"]
      OBVIOUS
    <2>2. Len(p) = 5
      BY <2>1 DEF Program
    <2> QED BY <2>1, <2>2
  <1>6. Len(Program["promoteCanary"]) = 4
    <2>1. PICK p : p = Program["promoteCanary"]
      OBVIOUS
    <2>2. Len(p) = 4
      BY <2>1 DEF Program
    <2> QED BY <2>1, <2>2
  <1>7. Len(Program["abortCanary"]) = 2
    <2>1. PICK p : p = Program["abortCanary"]
      OBVIOUS
    <2>2. Len(p) = 2
      BY <2>1 DEF Program
    <2> QED BY <2>1, <2>2
  <1>8. Len(Program["jobAbort"]) = 3
    <2>1. PICK p : p = Program["jobAbort"]
      OBVIOUS
    <2>2. Len(p) = 3
      BY <2>1 DEF Program
    <2> QED BY <2>1, <2>2
  <1>9. Len(Program["killSwitch"]) = 1
    <2>1. PICK p : p = Program["killSwitch"]
      OBVIOUS
    <2>2. Len(p) = 1
      BY <2>1 DEF Program
    <2> QED BY <2>1, <2>2
  <1> QED BY <1>1, <1>2, <1>3, <1>4, <1>5, <1>6, <1>7, <1>8, <1>9

(* A transaction that starts when nothing runs sees what is committed.      *)
LEMMA IsolatedBegin ==
    ASSUME TxnIInv, IsolatedIInv, NEW w \in Workers, NEW op \in Ops, NEW override,
           Begin(w, op, override)
    PROVE  IsolatedIInv'
  <1>1. Typed /\ tx \in [Workers -> Txs] /\ rows \in [RowIds -> Row] /\ tx[w] = NoTx
    BY DEF TxnIInv, Typed, Begin
  <1>2. PICK alone \in BOOLEAN : alone = \A u \in Workers : tx[u] = NoTx
    OBVIOUS
  <1>3. PICK first \in {<<>>, <<"auditOverride">>} :
           first = IF frozen /\ op # "killSwitch" THEN <<"auditOverride">> ELSE <<>>
    OBVIOUS
  <1>4. PICK q : q = first \o Program[op] \o Recorded
    OBVIOUS
  <1>5. PICK t : t = [NoTx EXCEPT !.op = op, !.alone = alone,
                                  !.override = (frozen /\ op # "killSwitch"), !.todo = q]
    OBVIOUS
  <1>6. tx' = [Overlapped(tx) EXCEPT ![w] = t] /\ rows' = rows
    BY <1>2, <1>3, <1>4, <1>5, Zenon DEF Begin
  <1>7. t.op = op /\ t.todo = q /\ t.writes = <<>> /\ t.alone = alone
    BY <1>5 DEF NoTx
  <1>8. Len(q) = Len(first) + Len(Program[op]) + 3
    <2>1. Len(q) = Len(first) + Len(Script(op))
      BY <1>4, PrefixFacts
    <2>2. Len(Script(op)) = Len(Program[op]) + 3 /\ Len(Program[op]) \in Nat
      BY ScriptFacts
    <2>3. Len(first) \in Nat
      OBVIOUS
    <2> QED BY <2>1, <2>2, <2>3
  <1>9. tx'[w] = t /\ \A u \in Workers \ {w} : tx'[u] = Overlapped(tx)[u]
    BY <1>1, <1>6, OverlappedFacts
  <1>10. ASSUME NEW u \in Workers \ {w} PROVE IsolatedOK(u)'
    <2>1. CASE tx[u].op = "none"
      BY <1>1, <1>9, <2>1, OverlappedFacts DEF IsolatedOK, Running
    <2>2. CASE tx[u].op # "none"
      <3>1. tx'[u] = [tx[u] EXCEPT !.alone = FALSE] /\ tx[u] \in Txs
        BY <1>1, <1>9, <2>2, OverlappedFacts
      <3>2. ~tx'[u].alone
        BY <3>1 DEF Txs
      <3> QED BY <3>2 DEF IsolatedOK
    <2> QED BY <2>1, <2>2
  <1>11. IsolatedOK(w)'
    <2> SUFFICES ASSUME tx'[w].alone
                 PROVE  /\ \A u \in Workers : Running(u)' => u = w
                        /\ Ahead(w)'
      BY DEF IsolatedOK, Ahead
    <2>1. \A u \in Workers : tx[u] = NoTx
      BY <1>2, <1>7, <1>9
    <2>2. ASSUME NEW u \in Workers, Running(u)' PROVE u = w
      <3>1. CASE u # w
        BY <1>1, <1>9, <2>1, <2>2, <3>1, OverlappedFacts DEF Running, NoTx
      <3> QED BY <3>1
    <2>3. View(w)' = rows
      <3>1. View(w)' = Over(<<>>, rows)
        BY <1>6, <1>7, <1>9 DEF View
      <3>2. View(w) = Over(<<>>, rows)
        BY <1>1 DEF View, NoTx
      <3>3. View(w) = rows
        <4>1. /\ View(w) \in [RowIds -> Row]
              /\ \A v \in RowIds : v \notin DOMAIN tx[w].writes => View(w)[v] = rows[v]
          BY <1>1, ViewFacts
        <4>2. DOMAIN tx[w].writes = {}
          BY <1>1 DEF NoTx
        <4>3. \A v \in RowIds : View(w)[v] = rows[v]
          BY <4>1, <4>2
        <4> QED BY <1>1, <4>1, <4>3
      <3> QED BY <3>1, <3>2, <3>3, Zenon
    <2>4. Clean(w)'
      BY <1>6, <2>3 DEF Clean, Seen, Committed
    <2>5. PICK l : l = Len(Program[op])
      OBVIOUS
    <2>6. l \in Nat => tx'[w].op = op /\ Left(w)' \in {l + 3, l + 4}
      <3>1. CASE first = <<>>
        <4>1. Len(first) = 0
          BY <3>1
        <4> QED BY <1>7, <1>8, <1>9, <2>5, <4>1 DEF Left
      <3>2. CASE first = <<"auditOverride">>
        <4>1. Len(first) = 1
          BY <3>2
        <4> QED BY <1>7, <1>8, <1>9, <2>5, <4>1 DEF Left
      <3> QED BY <3>1, <3>2
    <2>7. Ahead(w)'
      <3>1. CASE op = "deploy"
        <4>1. l = 5
          BY <2>5, <3>1, ProgramLengths, Zenon
        <4>2. tx'[w].op = op /\ Left(w)' \in {8, 9}
          BY <2>6, <4>1
        <4> QED BY <2>4, <3>1, <4>2 DEF Ahead, Course, DeployCourse
      <3>2. CASE op = "deployCanary"
        <4>1. l = 4
          BY <2>5, <3>2, ProgramLengths, Zenon
        <4>2. tx'[w].op = op /\ Left(w)' \in {7, 8}
          BY <2>6, <4>1
        <4> QED BY <2>4, <3>2, <4>2 DEF Ahead, Course, DeployCanaryCourse
      <3>3. CASE op = "rollback"
        <4>1. l = 4
          BY <2>5, <3>3, ProgramLengths, Zenon
        <4>2. tx'[w].op = op /\ Left(w)' \in {7, 8}
          BY <2>6, <4>1
        <4> QED BY <2>4, <3>3, <4>2 DEF Ahead, Course, RollbackCourse
      <3>4. CASE op = "promote"
        <4>1. l = 3
          BY <2>5, <3>4, ProgramLengths, Zenon
        <4>2. tx'[w].op = op /\ Left(w)' \in {6, 7}
          BY <2>6, <4>1
        <4> QED BY <2>4, <3>4, <4>2 DEF Ahead, Course, PromoteCourse
      <3>5. CASE op = "startCanary"
        <4>1. l = 5
          BY <2>5, <3>5, ProgramLengths, Zenon
        <4>2. tx'[w].op = op /\ Left(w)' \in {8, 9}
          BY <2>6, <4>1
        <4> QED BY <2>4, <3>5, <4>2 DEF Ahead, Course, StartCanaryCourse
      <3>6. CASE op = "promoteCanary"
        <4>1. l = 4
          BY <2>5, <3>6, ProgramLengths, Zenon
        <4>2. tx'[w].op = op /\ Left(w)' \in {7, 8}
          BY <2>6, <4>1
        <4> QED BY <2>4, <3>6, <4>2 DEF Ahead, Course, PromoteCanaryCourse
      <3>7. CASE op = "abortCanary"
        <4>1. l = 2
          BY <2>5, <3>7, ProgramLengths, Zenon
        <4>2. tx'[w].op = op /\ Left(w)' \in {5, 6}
          BY <2>6, <4>1
        <4> QED BY <2>4, <3>7, <4>2 DEF Ahead, Course, AbortCanaryCourse
      <3>8. CASE op = "jobAbort"
        <4>1. l = 3
          BY <2>5, <3>8, ProgramLengths, Zenon
        <4>2. tx'[w].op = op /\ Left(w)' \in {6, 7}
          BY <2>6, <4>1
        <4> QED BY <2>4, <3>8, <4>2 DEF Ahead, Course, JobAbortCourse
      <3>9. CASE op = "killSwitch"
        <4>1. l = 1
          BY <2>5, <3>9, ProgramLengths, Zenon
        <4>2. tx'[w].op = op /\ Left(w)' \in {4, 5}
          BY <2>6, <4>1
        <4> QED BY <2>4, <3>9, <4>2 DEF Ahead, Course
      <3> QED BY <3>1, <3>2, <3>3, <3>4, <3>5, <3>6, <3>7, <3>8, <3>9 DEF Ops, Program
    <2> QED BY <2>2, <2>7
  <1> QED BY <1>10, <1>11 DEF IsolatedIInv

(* Whoever ends leaves the others as they were.                             *)
LEMMA IsolatedEnd ==
    ASSUME TxnIInv, IsolatedIInv, NEW w \in Workers, Running(w), tx' = [tx EXCEPT ![w] = NoTx]
    PROVE  IsolatedIInv'
  <1>1. tx'[w] = NoTx /\ \A u \in Workers \ {w} : tx'[u] = tx[u]
    BY DEF TxnIInv, Typed
  <1>2. ~Running(w)'
    BY <1>1 DEF Running, NoTx
  <1>3. ASSUME NEW u \in Workers \ {w} PROVE ~(Running(u)' /\ tx'[u].alone)
    BY <1>1 DEF IsolatedIInv, IsolatedOK, Running
  <1> QED BY <1>2, <1>3 DEF IsolatedIInv, IsolatedOK

LEMMA IsolatedNext == TxnIInv /\ IsolatedIInv /\ [TxnNext]_txnVars => IsolatedIInv'
  <1> SUFFICES ASSUME TxnIInv, IsolatedIInv, [TxnNext]_txnVars PROVE IsolatedIInv'
    OBVIOUS
  <1>1. ASSUME NEW w \in Workers, Commit(w) PROVE IsolatedIInv'
    <2>1. Running(w) /\ tx' = [tx EXCEPT ![w] = NoTx]
      BY <1>1, CommitFacts DEF Commit
    <2> QED BY <2>1, IsolatedEnd
  <1>2. ASSUME NEW w \in Workers, Abort(w) PROVE IsolatedIInv'
    <2>1. Running(w) /\ tx' = [tx EXCEPT ![w] = NoTx]
      BY <1>2 DEF Abort, TxnIInv, ScriptOK
    <2> QED BY <2>1, IsolatedEnd
  <1>3. ASSUME tx' = tx, rows' = rows PROVE IsolatedIInv'
    <2> SUFFICES ASSUME NEW w \in Workers PROVE IsolatedOK(w)'
      BY DEF IsolatedIInv
    <2>1. IsolatedOK(w)
      BY DEF IsolatedIInv
    <2>2. View(w)' = View(w) /\ (OneEach' <=> OneEach) /\ Left(w)' = Left(w)
      BY <1>3, Zenon DEF View, OneEach, Committed, Left
    <2>3. /\ Outcome(w)' <=> Outcome(w)
          /\ Clean(w)' <=> Clean(w)
          /\ NoCanary(w)' <=> NoCanary(w)
          /\ NoActive(w)' <=> NoActive(w)
          /\ Neither(w)' <=> Neither(w)
          /\ Unserved(w)' <=> Unserved(w)
          /\ Found(w)' <=> Found(w)
          /\ Scanned(w)' <=> Scanned(w)
      BY <1>3, <2>2, OutcomeKept, Unmoved
    <2>4. \A s : Committed(s)' = Committed(s)
      BY <1>3, Zenon DEF Committed
    <2>5. Course(w)' <=> Course(w)
      BY <1>3, <2>2, <2>3, <2>4
        DEF Course, DeployCourse, DeployCanaryCourse, RollbackCourse, PromoteCourse,
            StartCanaryCourse, PromoteCanaryCourse, AbortCanaryCourse, JobAbortCourse
    <2> QED BY <1>3, <2>1, <2>2, <2>3, <2>5 DEF IsolatedOK, Running
  <1>4. ASSUME NEW v \in Ids, SoftDelete(v) PROVE IsolatedIInv'
    <2>1. tx' = Overlapped(tx) /\ Typed /\ tx \in [Workers -> Txs]
      BY <1>4 DEF SoftDelete, TxnIInv, Typed
    <2>2. ASSUME NEW w \in Workers PROVE ~(Running(w)' /\ tx'[w].alone)
      <3>1. CASE tx[w].op = "none"
        BY <2>1, <3>1, OverlappedFacts DEF Running
      <3>2. CASE tx[w].op # "none"
        <4>1. tx'[w] = [tx[w] EXCEPT !.alone = FALSE] /\ tx[w] \in Txs
          BY <2>1, <3>2, OverlappedFacts
        <4> QED BY <4>1 DEF Txs
      <3> QED BY <3>1, <3>2
    <2> QED BY <2>2 DEF IsolatedIInv, IsolatedOK
  <1>5. ASSUME NEW on \in BOOLEAN, SetFreeze(on) PROVE IsolatedIInv'
    BY <1>3, <1>5 DEF SetFreeze
  <1>6. CASE UNCHANGED txnVars
    BY <1>3, <1>6 DEF txnVars
  <1>7. ASSUME NEW w \in Workers, NEW op \in DOMAIN Program, NEW override \in Overrides,
               Begin(w, op, override)
        PROVE  IsolatedIInv'
    BY <1>7, IsolatedBegin DEF Ops
  <1> QED BY <1>1, <1>2, <1>4, <1>5, <1>6, <1>7, IsolatedStatement DEF TxnNext

LEMMA IsolatedInit == TxnInit => IsolatedIInv
  BY DEF TxnInit, IsolatedIInv, IsolatedOK, Running, NoTx

LEMMA IsolatedInvariant == TxnSpec => [](TxnIInv /\ IsolatedIInv)
  BY TxnInitOK, TxnNextOK, IsolatedInit, IsolatedNext, PTL DEF TxnSpec

(* At most one active version and at most one canary, counted or compared.  *)
LEMMA AtMostOne ==
    ASSUME NEW s, Cardinality(Committed(s)) <= 1
    PROVE  \A x, y \in Committed(s) : x = y
  <1>1. IsFiniteSet(Committed(s))
    <2>1. IsFiniteSet(Ids)
      BY FS_Interval DEF Ids
    <2>2. Committed(s) \subseteq Ids
      BY DEF Committed
    <2> QED BY <2>1, <2>2, FS_Subset
  <1>2. Cardinality(Committed(s)) \in {0, 1}
    BY <1>1, FS_CardinalityType
  <1>3. CASE Cardinality(Committed(s)) = 0
    BY <1>1, <1>3, FS_EmptySet
  <1>4. CASE Cardinality(Committed(s)) = 1
    BY <1>1, <1>4, FS_Singleton
  <1> QED BY <1>2, <1>3, <1>4

LEMMA AllowedIsOneEach == Allowed => OneEach
  BY AtMostOne DEF Allowed, OneEach

(* The steps of ReleaseContract, told of the rows committed before and      *)
(* after.                                                                   *)
LEMMA ContractSteps ==
    ASSUME NEW active, active = Committed("active"), NEW candidate, candidate = Committed("canary"),
           NEW active1, active1 = Committed("active")',
           NEW candidate1, candidate1 = Committed("canary")'
    PROVE  /\ active1 = active /\ candidate1 = candidate => UNCHANGED Contract!contractVars
           /\ \A v \in Ids : v \notin candidate /\ active1 = {v} /\ candidate1 \in {{}, candidate}
                 => Contract!ContractNext
           /\ \A v \in Ids : active # {} /\ v \notin active /\ active1 = active /\ candidate1 = {v}
                 => Contract!ContractNext
           /\ candidate # {} /\ active1 = active /\ candidate1 = {} => Contract!ContractNext
           /\ candidate # {} /\ active1 = candidate /\ candidate1 = {} => Contract!ContractNext
  <1> DEFINE stable == [e \in {"environment"} |-> active]
             canary == [e \in {"environment"} |-> candidate]
             stable1 == [e \in {"environment"} |-> active1]
             canary1 == [e \in {"environment"} |-> candidate1]
  <1>1. active1 = active /\ candidate1 = candidate => UNCHANGED Contract!contractVars
    BY DEF Contract!contractVars
  <1>2. ASSUME NEW v \in Ids, v \notin candidate, active1 = {v}, candidate1 \in {{}, candidate}
        PROVE  Contract!ContractNext
    <2>1. stable1 = [stable EXCEPT !["environment"] = {v}]
      BY <1>2
    <2>2. canary1 \in {canary, [canary EXCEPT !["environment"] = {}]}
      BY <1>2
    <2>3. v \notin canary["environment"]
      BY <1>2
    <2>4. Contract!Activate("environment", v)
      BY <2>1, <2>2, <2>3 DEF Contract!Activate
    <2> QED BY <2>4 DEF Contract!ContractNext
  <1>3. ASSUME NEW v \in Ids, active # {}, v \notin active, active1 = active, candidate1 = {v}
        PROVE  Contract!ContractNext
    <2>1. canary1 = [canary EXCEPT !["environment"] = {v}] /\ stable1 = stable
      BY <1>3
    <2>2. stable["environment"] # {} /\ v \notin stable["environment"]
      BY <1>3
    <2>3. Contract!StartCanary("environment", v)
      BY <2>1, <2>2 DEF Contract!StartCanary
    <2> QED BY <2>3 DEF Contract!ContractNext
  <1>4. ASSUME candidate # {}, active1 = active, candidate1 = {} PROVE Contract!ContractNext
    <2>1. canary1 = [canary EXCEPT !["environment"] = {}] /\ stable1 = stable
      BY <1>4
    <2>2. canary["environment"] # {}
      BY <1>4
    <2>3. Contract!EndCanary("environment")
      BY <2>1, <2>2 DEF Contract!EndCanary
    <2> QED BY <2>3 DEF Contract!ContractNext
  <1>5. ASSUME candidate # {}, active1 = candidate, candidate1 = {} PROVE Contract!ContractNext
    <2>1. /\ canary1 = [canary EXCEPT !["environment"] = {}]
          /\ stable1 = [stable EXCEPT !["environment"] = canary["environment"]]
      BY <1>5
    <2>2. canary["environment"] # {}
      BY <1>5
    <2>3. Contract!PromoteCanary("environment")
      BY <2>1, <2>2 DEF Contract!PromoteCanary
    <2> QED BY <2>3 DEF Contract!ContractNext
  <1> QED BY <1>1, <1>2, <1>3, <1>4, <1>5

(* Rows that stay as they are, and the collection of an inactive version,   *)
(* are no steps of it.                                                      *)
LEMMA RowsStay ==
    ASSUME rows' = rows
    PROVE  UNCHANGED Contract!contractVars
  <1>1. \A s : Committed(s)' = Committed(s)
    BY DEF Committed
  <1> QED BY <1>1, ContractSteps

LEMMA CollectingStutters ==
    ASSUME TxnIInv, NEW v \in Ids, SoftDelete(v)
    PROVE  UNCHANGED Contract!contractVars
  <1>1. /\ \A u \in RowIds \ {v} : rows'[u] = rows[u]
        /\ rows[v].status = "inactive" /\ rows'[v].status = "inactive"
    BY SoftDeleteFacts
  <1>2. Committed("active")' = Committed("active") /\ Committed("canary")' = Committed("canary")
    BY <1>1 DEF Committed, RowIds
  <1> QED BY <1>2, ContractSteps

(* The commit of an isolated transaction makes its outcome public.          *)
LEMMA CommitSteps ==
    ASSUME TxnIInv, IsolatedIInv, OneEach, NEW w \in Workers, Commit(w), tx[w].alone
    PROVE  Contract!ContractNext \/ UNCHANGED Contract!contractVars
  <1>1. Running(w) /\ Left(w) = 1
    BY CommitFacts
  <1>2. Outcome(w)
    BY <1>1 DEF IsolatedIInv, IsolatedOK
  <1>3. \A s : Committed(s)' = Seen(w, s)
    BY DEF Commit, Committed, Seen
  <1>4. tx[w].op \in {"deploy", "deployCanary", "rollback", "promote", "startCanary",
                      "promoteCanary", "abortCanary", "jobAbort", "killSwitch"}
    BY <1>1 DEF TxnIInv, Typed, Txs, Running, Ops, Program
  <1>5. CASE tx[w].op \in {"deploy", "rollback", "promote"}
    <2>1. PICK v \in Ids \ Committed("canary") : Seen(w, "active") = {v}
      BY <1>2, <1>5 DEF Outcome, Activated
    <2>2. Seen(w, "canary") \in {{}, Committed("canary")}
      BY <1>2, <1>5 DEF Outcome, Activated
    <2> QED BY <1>3, <2>1, <2>2, ContractSteps
  <1>6. CASE tx[w].op \in {"deployCanary", "startCanary"}
    <2>1. PICK v \in Ids \ Committed("active") : Seen(w, "canary") = {v}
      BY <1>2, <1>6 DEF Outcome, Started
    <2>2. Seen(w, "active") = Committed("active") /\ Committed("active") # {}
      BY <1>2, <1>6 DEF Outcome, Started
    <2> QED BY <1>3, <2>1, <2>2, ContractSteps
  <1>7. CASE tx[w].op = "promoteCanary"
    <2>1. Promoted(w)
      BY <1>2, <1>7 DEF Outcome
    <2> QED BY <1>3, <2>1, ContractSteps DEF Promoted
  <1>8. CASE tx[w].op \in {"abortCanary", "jobAbort"}
    <2>1. Ended(w)
      BY <1>2, <1>8 DEF Outcome
    <2> QED BY <1>3, <2>1, ContractSteps DEF Ended, NoCanary
  <1>9. CASE tx[w].op = "killSwitch"
    <2>1. Clean(w)
      BY <1>2, <1>9 DEF Outcome
    <2> QED BY <1>3, <2>1, ContractSteps DEF Clean
  <1> QED BY <1>4, <1>5, <1>6, <1>7, <1>8, <1>9

LEMMA IsolatedSteps ==
    ASSUME TxnIInv, IsolatedIInv, [TxnNext]_txnVars, OneEach,
           \A w \in Workers : Commits(w) => tx[w].alone
    PROVE  Contract!ContractNext \/ UNCHANGED Contract!contractVars
  <1>1. ASSUME NEW w \in Workers, Commit(w)
        PROVE  Contract!ContractNext \/ UNCHANGED Contract!contractVars
    <2>1. Commits(w)
      BY <1>1 DEF Commit, Commits, TxnIInv, Typed
    <2> QED BY <1>1, <2>1, CommitSteps
  <1>2. ASSUME NEW w \in Workers, Statement(w) PROVE UNCHANGED Contract!contractVars
    <2>1. rows' = rows
      BY <1>2, StatementMoves
    <2> QED BY <2>1, RowsStay
  <1>3. ASSUME NEW v \in Ids, SoftDelete(v) PROVE UNCHANGED Contract!contractVars
    BY <1>3, CollectingStutters
  <1>4. ASSUME rows' = rows PROVE UNCHANGED Contract!contractVars
    BY <1>4, RowsStay
  <1> QED BY <1>1, <1>2, <1>3, <1>4, Zenon DEF TxnNext, Begin, Abort, SetFreeze, txnVars

(* Isolated, the requests implement ReleaseContract: from a state it        *)
(* allows, a step after which no overlapping transaction has committed is   *)
(* one of its steps, whatever the handler did in between, whichever request *)
(* was refused, failed or crashed half-way, and wherever garbage collection *)
(* came: TxnIInv and IsolatedIInv carry what each operation has done so far *)
(* from its first statement to its commit.                                  *)
THEOREM IsolatedRequestsImplementContract == TxnSpec => IsolatedImplementsContract
  <1>1. TxnIInv /\ IsolatedIInv /\ [TxnNext]_txnVars
          => [(Allowed /\ \A w \in Workers : Commits(w) => tx[w].alone)
                 => [Contract!ContractNext]_(Contract!contractVars)]_txnVars
    BY IsolatedSteps, AllowedIsOneEach
  <1> QED BY <1>1, IsolatedInvariant, PTL DEF TxnSpec, IsolatedImplementsContract

(* The contract's steps lead from an allowed state to an allowed state.     *)
LEMMA ContractKeepsOneEach ==
    ASSUME OneEach, Contract!ContractNext \/ UNCHANGED Contract!contractVars
    PROVE  OneEach'
  <1>1. PICK active, candidate, active1, candidate1 :
           /\ active = Committed("active") /\ candidate = Committed("canary")
           /\ active1 = Committed("active")' /\ candidate1 = Committed("canary")'
    OBVIOUS
  <1> DEFINE Fits(a, c) == /\ \A x, y \in a : x = y
                           /\ \A x, y \in c : x = y
                           /\ c # {} => a # {}
             stable == [e \in {"environment"} |-> active]
             canary == [e \in {"environment"} |-> candidate]
             stable1 == [e \in {"environment"} |-> active1]
             canary1 == [e \in {"environment"} |-> candidate1]
  <1>2. Fits(active, candidate)
    BY <1>1 DEF OneEach
  <1>3. Fits(active1, candidate1)
    <2>1. stable1["environment"] = active1 /\ canary1["environment"] = candidate1
      OBVIOUS
    <2>2. CASE UNCHANGED Contract!contractVars
      <3>1. stable1 = stable /\ canary1 = canary
        BY <1>1, <2>2 DEF Contract!contractVars
      <3> QED BY <1>2, <2>1, <3>1
    <2>3. ASSUME NEW v \in Ids, Contract!Activate("environment", v)
          PROVE  Fits(active1, candidate1)
      <3>1. stable1 = [stable EXCEPT !["environment"] = {v}]
            /\ canary1 \in {canary, [canary EXCEPT !["environment"] = {}]}
        BY <1>1, <2>3 DEF Contract!Activate
      <3> QED BY <1>2, <2>1, <3>1
    <2>4. ASSUME NEW v \in Ids, Contract!StartCanary("environment", v)
          PROVE  Fits(active1, candidate1)
      <3>1. canary1 = [canary EXCEPT !["environment"] = {v}] /\ stable1 = stable
            /\ stable["environment"] # {}
        BY <1>1, <2>4 DEF Contract!StartCanary
      <3> QED BY <1>2, <2>1, <3>1
    <2>5. ASSUME Contract!EndCanary("environment") PROVE Fits(active1, candidate1)
      <3>1. canary1 = [canary EXCEPT !["environment"] = {}] /\ stable1 = stable
        BY <1>1, <2>5 DEF Contract!EndCanary
      <3> QED BY <1>2, <2>1, <3>1
    <2>6. ASSUME Contract!PromoteCanary("environment") PROVE Fits(active1, candidate1)
      <3>1. stable1 = [stable EXCEPT !["environment"] = canary["environment"]]
            /\ canary1 = [canary EXCEPT !["environment"] = {}]
        BY <1>1, <2>6 DEF Contract!PromoteCanary
      <3> QED BY <1>2, <2>1, <3>1
    <2> QED BY <2>2, <2>3, <2>4, <2>5, <2>6 DEF Contract!ContractNext
  <1> QED BY <1>1, <1>3 DEF OneEach

(* Nothing is released at first.                                            *)
LEMMA ContractStarts == TxnInit => Contract!ContractInit /\ OneEach
  <1> SUFFICES ASSUME TxnInit PROVE Contract!ContractInit /\ OneEach
    OBVIOUS
  <1>1. \A v \in Ids : rows[v].status \in {"none", "on"}
    BY DEF TxnInit, NewRow, RowIds
  <1>2. Committed("active") = {} /\ Committed("canary") = {}
    BY <1>1 DEF Committed
  <1> QED BY <1>2 DEF Contract!ContractInit, OneEach

(* ReleaseTransactions implements ReleaseContract as long as whatever       *)
(* commits was alone, that is, if the database ran the requests and jobs    *)
(* one at a time: at most one active version and at most one canary, with a *)
(* stable version next to it, and no environment loses its stable version.  *)
(* Requests that overlapped and then failed do no harm.                     *)
THEOREM SerialRequestsImplementContract ==
    TxnSpec /\ [][\A w \in Workers : Commits(w) => tx[w].alone]_txnVars
        => Contract!ContractSpec
  <1>1. TxnIInv /\ IsolatedIInv /\ OneEach /\ [TxnNext]_txnVars
            /\ [\A w \in Workers : Commits(w) => tx[w].alone]_txnVars
          => OneEach' /\ [Contract!ContractNext]_(Contract!contractVars)
    <2> SUFFICES ASSUME TxnIInv, IsolatedIInv, OneEach, [TxnNext]_txnVars,
                        [\A w \in Workers : Commits(w) => tx[w].alone]_txnVars
                 PROVE  OneEach' /\ [Contract!ContractNext]_(Contract!contractVars)
      OBVIOUS
    <2>1. CASE UNCHANGED txnVars
      BY <2>1, RowsStay, ContractKeepsOneEach DEF txnVars
    <2>2. CASE \A w \in Workers : Commits(w) => tx[w].alone
      BY <2>2, IsolatedSteps, ContractKeepsOneEach
    <2> QED BY <2>1, <2>2
  <1> QED BY <1>1, ContractStarts, IsolatedInvariant, PTL DEF TxnSpec, Contract!ContractSpec
================================================================================
