----------------------------- MODULE AccessProofs ------------------------------
(***************************************************************************)
(* Proofs about who has access: Membership, for any users, roles,          *)
(* proposals and requests in progress, and Sessions, for any families of   *)
(* tokens, requests in progress and bounds on tokens and time steps.  They *)
(* share no state; the theorems of each speak of its specification only.   *)
(***************************************************************************)
EXTENDS Membership, Sessions, FiniteSetTheorems, TLAPS

(***************************************************************************)
(* Membership.                                                             *)
(***************************************************************************)

USE RanksAssumption

Made == [kind : Kinds, user : Users, role : Roles, from : SUBSET Users, marks : SUBSET Marks]
Plans == [write : Writes, user : Users, role : 0..Owner, lowers : SUBSET Users,
          effect : Effects, leaves : BOOLEAN, marks : SUBSET (Proposals \X Marks),
          seen : SUBSET Users]

(* What the reads of an operation make sure of before it writes: nobody    *)
(* loses the owner's role who is the only one to have it, who loses a seat *)
(* or leaves the organization has the keys seen to, and a transfer lowers  *)
(* its sender for a new owner.                                             *)
PlanOK(p) ==
    /\ p.write \in {"create", "update"} => p.role \in Roles
    /\ p.write \in {"delete", "erase"} => p.role = 0 /\ p.effect \in {"keepKeys", "revokeKeys"}
    /\ p.leaves => p.effect \in {"keepKeys", "revokeKeys", "skipKeys"}
    /\ p.lowers # {} => p.write = "update" /\ p.role = Owner
    /\ p.write \in {"update", "delete", "erase"} /\ p.role # Owner /\ p.user \in p.seen
          => Cardinality(p.seen) > 1

(* Only proposals that were made are answered.                             *)
MarksMade(p) == \A x \in Proposals, m \in Marks : <<x, m>> \in p.marks => proposal[x] # Unused

IInv ==
    /\ TypeOK
    /\ \A w \in Workers : tx[w] # Idle => PlanOK(tx[w]) /\ MarksMade(tx[w])
    /\ OwnerRemains
    /\ KeysEndWithMembership

LEMMA PlansAreNotIdle == Idle \notin Plans
  <1> SUFFICES ASSUME Idle \in Plans PROVE FALSE
    OBVIOUS
  <1>1. Idle.write \in Writes
    BY DEF Plans
  <1> QED
    BY <1>1 DEF Idle, Writes

LEMMA UnusedIsNotMade == Unused \notin Made
  BY DEF Unused, Made, Kinds

LEMMA Types ==
    ASSUME TypeOK
    PROVE  /\ \A w \in Workers : tx[w] # Idle => tx[w] \in Plans
           /\ \A p \in Proposals : proposal[p] # Unused => proposal[p] \in Made
           /\ \A p \in Proposals : proposal[p].kind # "none" => proposal[p] # Unused
  BY DEF TypeOK, Plans, Made, Unused

(* A single owner is not more than one.                                    *)
LEMMA AnotherOwner ==
    ASSUME IsFiniteSet(Users), Cardinality(Owners) > 1, NEW u
    PROVE  \E v \in Owners : v # u
  <1> SUFFICES ASSUME \A v \in Owners : v = u PROVE FALSE
    OBVIOUS
  <1>1. Owners \subseteq {u} /\ IsFiniteSet({u}) /\ Cardinality({u}) = 1
    BY FS_Singleton
  <1>2. Cardinality(Owners) <= 1
    BY <1>1, FS_Subset
  <1>3. IsFiniteSet(Owners)
    BY FS_Subset DEF Owners
  <1> QED
    BY <1>2, <1>3, FS_CardinalityType

--------------------------------------------------------------------------------
LEMMA InitOK == Init => IInv
  <1> SUFFICES ASSUME Init PROVE IInv
    OBVIOUS
  <1>1. PICK u \in Users : seat = [v \in Users |-> IF v = u THEN Owner ELSE 0]
    BY DEF Init
  <1>2. TypeOK
    <2>1. seat \in [Users -> 0..Owner]
      BY <1>1
    <2> QED
      BY <2>1 DEF Init, TypeOK
  <1>3. u \in Owners
    BY <1>1 DEF Owners
  <1> QED
    BY <1>2, <1>3 DEF Init, IInv, OwnerRemains, KeysEndWithMembership

(* The reads of an operation, whose plan is well founded.                  *)
LEMMA ReadOK ==
    ASSUME IInv, NEW w \in Workers, NEW plan \in Plans, Read(w, plan),
           PlanOK(plan), MarksMade(plan)
    PROVE  IInv'
  <1> USE DEF Read
  <1>1. TypeOK'
    BY DEF IInv, TypeOK, Plans
  <1>2. \A v \in Workers : tx'[v] # Idle => PlanOK(tx'[v]) /\ MarksMade(tx'[v])
    BY DEF IInv, TypeOK
  <1>3. (\A v \in Workers : tx[v] # Idle => PlanOK(tx[v]) /\ MarksMade(tx[v]))'
    BY <1>2 DEF MarksMade
  <1> QED
    BY <1>1, <1>3 DEF IInv, OwnerRemains, KeysEndWithMembership, LetIn, Owners

(* A plan, and what its operation adds to it.                              *)
LEMMA PlanTyped ==
    ASSUME NEW write \in Writes, NEW u \in Users, NEW role \in 0..Owner
    PROVE  /\ Plan(write, u, role) \in Plans
           /\ Plan(write, u, role).marks = {}
  BY DEF Plan, Plans, Owners, Effects

LEMMA LeavesTyped ==
    ASSUME NEW p \in Plans
    PROVE  /\ [p EXCEPT !.leaves = TRUE] \in Plans
           /\ [p EXCEPT !.leaves = TRUE].marks = p.marks
  BY DEF Plans

LEMMA EffectTyped ==
    ASSUME NEW p \in Plans, NEW e \in Effects
    PROVE  /\ [p EXCEPT !.effect = e] \in Plans
           /\ [p EXCEPT !.effect = e].marks = p.marks
  BY DEF Plans

LEMMA LowersTyped ==
    ASSUME NEW p \in Plans, NEW lowers \in SUBSET Users
    PROVE  [p EXCEPT !.lowers = lowers] \in Plans
  BY DEF Plans

LEMMA MarksTyped ==
    ASSUME NEW p \in Plans, NEW marks \in SUBSET (Proposals \X Marks)
    PROVE  /\ [p EXCEPT !.marks = marks] \in Plans
           /\ [p EXCEPT !.marks = marks].marks = marks
  BY DEF Plans

LEMMA OwnersAreUsers == Owners \subseteq Users
  BY DEF Owners

--------------------------------------------------------------------------------
(* Operations on seats.                                                    *)
LEMMA ChangeRoleOK ==
    ASSUME IInv, NEW w \in Workers, NEW u \in Users, NEW role \in Roles, ChangeRole(w, u, role)
    PROVE  IInv'
  <1> DEFINE plan == Plan("update", u, role)
  <1>1. plan \in Plans /\ MarksMade(plan)
    BY DEF Plan, Plans, Owners, MarksMade, Writes, Effects, Roles
  <1>2. PlanOK(plan)
    BY DEF PlanOK, Plan, ChangeRole, NotTheLast, Owners
  <1> QED
    BY <1>1, <1>2, ReadOK DEF ChangeRole

LEMMA RemovalTyped ==
    ASSUME NEW u \in Users, NEW keepKeys
    PROVE  Removal(u, keepKeys) \in Plans /\ Removal(u, keepKeys).marks = {}
  <1> DEFINE base == Plan("delete", u, 0)
             effect == IF keepKeys THEN "keepKeys" ELSE "revokeKeys"
  <1>1. base \in Plans /\ base.marks = {} /\ effect \in Effects
    BY PlanTyped DEF Writes, Effects
  <1> HIDE DEF base, effect
  <1>2. [base EXCEPT !.effect = effect] \in Plans /\ [base EXCEPT !.effect = effect].marks = {}
    BY <1>1, EffectTyped
  <1> QED
    BY <1>2 DEF Removal, base, effect

LEMMA RemoveSeatOK ==
    ASSUME IInv, NEW w \in Workers, NEW u \in Users, NEW keepKeys, RemoveSeat(w, u, keepKeys)
    PROVE  IInv'
  <1> DEFINE plan == Removal(u, keepKeys)
  <1>1. plan \in Plans /\ MarksMade(plan)
    BY RemovalTyped DEF MarksMade
  <1>2. PlanOK(plan)
    BY DEF PlanOK, Removal, Plan, RemoveSeat, NotTheLast, Owners
  <1> QED
    BY <1>1, <1>2, ReadOK DEF RemoveSeat

LEMMA OffboardMemberOK ==
    ASSUME IInv, NEW w \in Workers, NEW u \in Users, NEW keepKeys, OffboardMember(w, u, keepKeys)
    PROVE  IInv'
  <1>1. CASE seat[u] > 0 /\ NotTheLast(u)
    <2> DEFINE base == Removal(u, keepKeys)
               plan == [base EXCEPT !.leaves = TRUE]
    <2>1. plan \in Plans /\ MarksMade(plan)
      <3>1. base \in Plans /\ base.marks = {}
        BY RemovalTyped
      <3> HIDE DEF base
      <3>2. plan \in Plans /\ plan.marks = {}
        BY <3>1, LeavesTyped
      <3> QED
        BY <3>2 DEF MarksMade
    <2>2. PlanOK(plan)
      BY <1>1 DEF PlanOK, Removal, Plan, NotTheLast, Owners
    <2> QED
      BY <1>1, <2>1, <2>2, ReadOK DEF OffboardMember
  <1>2. CASE ~(seat[u] > 0 /\ NotTheLast(u))
    <2> DEFINE base == Plan("none", u, 0)
               effect == IF keepKeys THEN "keepKeys" ELSE "skipKeys"
               quiet == [base EXCEPT !.effect = effect]
               plan == [base EXCEPT !.effect = effect, !.leaves = TRUE]
    <2>1. plan \in Plans /\ MarksMade(plan)
      <3>1. base \in Plans /\ base.marks = {} /\ effect \in Effects
        BY PlanTyped DEF Writes, Effects
      <3>2. plan = [quiet EXCEPT !.leaves = TRUE]
        OBVIOUS
      <3> HIDE DEF base, effect, plan
      <3>3. quiet \in Plans /\ quiet.marks = {}
        BY <3>1, EffectTyped
      <3> HIDE DEF quiet
      <3>4. plan \in Plans /\ plan.marks = {}
        BY <3>2, <3>3, LeavesTyped
      <3> QED
        BY <3>4 DEF MarksMade
    <2>2. PlanOK(plan)
      BY DEF PlanOK, Plan
    <2> QED
      BY <1>2, <2>1, <2>2, ReadOK DEF OffboardMember
  <1> QED
    BY <1>1, <1>2

LEMMA UnprovisionOK ==
    ASSUME IInv, NEW w \in Workers, NEW u \in Users, Unprovision(w, u)
    PROVE  IInv'
  <1> DEFINE base == Plan("delete", u, 0)
             effect == "keepKeys"
             plan == [base EXCEPT !.effect = effect]
  <1>1. plan \in Plans /\ MarksMade(plan)
    <2>1. base \in Plans /\ base.marks = {} /\ effect \in Effects
      BY PlanTyped DEF Writes, Effects
    <2> HIDE DEF base, effect
    <2>2. plan \in Plans /\ plan.marks = {}
      BY <2>1, EffectTyped
    <2> QED
      BY <2>2 DEF MarksMade
  <1>2. PlanOK(plan)
    BY DEF PlanOK, Plan, Unprovision, Owners
  <1> QED
    BY <1>1, <1>2, ReadOK DEF Unprovision

LEMMA ProvisionOK ==
    ASSUME IInv, NEW w \in Workers, NEW u \in Users, NEW role \in Roles, Provision(w, u, role)
    PROVE  IInv'
  <1> DEFINE write == IF seat[u] = 0 THEN "create" ELSE "update"
             plan == Plan(write, u, role)
  <1>1. plan \in Plans /\ MarksMade(plan)
    BY DEF Plan, Plans, Owners, MarksMade, Writes, Effects, Roles
  <1>2. PlanOK(plan)
    BY DEF PlanOK, Plan, Provision, Owners
  <1> QED
    BY <1>1, <1>2, ReadOK DEF Provision

LEMMA AddMemberOK ==
    ASSUME IInv, NEW w \in Workers, NEW u \in Users, NEW role \in Roles, AddMember(w, u, role)
    PROVE  IInv'
  <1> DEFINE plan == Plan("create", u, role)
  <1>1. plan \in Plans /\ MarksMade(plan)
    BY DEF Plan, Plans, Owners, MarksMade, Writes, Effects, Roles
  <1>2. PlanOK(plan)
    BY DEF PlanOK, Plan
  <1> QED
    BY <1>1, <1>2, ReadOK DEF AddMember

LEMMA EraseUserOK ==
    ASSUME IInv, NEW w \in Workers, NEW u \in Users, EraseUser(w, u)
    PROVE  IInv'
  <1> DEFINE base == Plan("erase", u, 0)
             effect == "revokeKeys"
             revoking == [base EXCEPT !.effect = effect]
             plan == [base EXCEPT !.effect = effect, !.leaves = TRUE]
  <1>1. plan \in Plans /\ MarksMade(plan)
    <2>1. base \in Plans /\ base.marks = {} /\ effect \in Effects
      BY PlanTyped DEF Writes, Effects
    <2>2. plan = [revoking EXCEPT !.leaves = TRUE]
      OBVIOUS
    <2> HIDE DEF base, effect, plan
    <2>3. revoking \in Plans /\ revoking.marks = {}
      BY <2>1, EffectTyped
    <2> HIDE DEF revoking
    <2>4. plan \in Plans /\ plan.marks = {}
      BY <2>2, <2>3, LeavesTyped
    <2> QED
      BY <2>4 DEF MarksMade
  <1>2. PlanOK(plan)
    BY DEF PlanOK, Plan, EraseUser, NotTheLast, Owners
  <1> QED
    BY <1>1, <1>2, ReadOK DEF EraseUser

LEMMA IssueKeyOK ==
    ASSUME IInv, NEW w \in Workers, NEW u \in Users, IssueKey(w, u)
    PROVE  IInv'
  <1> DEFINE base == Plan("none", u, 0)
             effect == "issueKey"
             plan == [base EXCEPT !.effect = effect]
  <1>1. plan \in Plans /\ MarksMade(plan)
    <2>1. base \in Plans /\ base.marks = {} /\ effect \in Effects
      BY PlanTyped DEF Writes, Effects
    <2> HIDE DEF base, effect
    <2>2. plan \in Plans /\ plan.marks = {}
      BY <2>1, EffectTyped
    <2> QED
      BY <2>2 DEF MarksMade
  <1>2. PlanOK(plan)
    BY DEF PlanOK, Plan
  <1> QED
    BY <1>1, <1>2, ReadOK DEF IssueKey

--------------------------------------------------------------------------------
(* Answers to proposals.                                                   *)
LEMMA AnswerFacts ==
    ASSUME NEW plan \in Plans, NEW p \in Proposals, proposal[p] # Unused, NEW mark,
           plan.marks = {<<p, mark>>}
    PROVE  MarksMade(plan)
  BY DEF MarksMade

LEMMA AnswerTyped ==
    ASSUME NEW p \in Proposals, NEW write \in Writes, NEW u \in Users, NEW role \in 0..Owner,
           NEW mark \in Marks
    PROVE  /\ [Plan(write, u, role) EXCEPT !.marks = {<<p, mark>>}] \in Plans
           /\ [Plan(write, u, role) EXCEPT !.marks = {<<p, mark>>}].marks = {<<p, mark>>}
  <1> DEFINE base == Plan(write, u, role)
             marks == {<<p, mark>>}
  <1>1. base \in Plans /\ marks \in SUBSET (Proposals \X Marks)
    BY PlanTyped
  <1> HIDE DEF base, marks
  <1> QED
    BY <1>1, MarksTyped DEF base, marks

LEMMA AcceptTransferOK ==
    ASSUME IInv, NEW w \in Workers, NEW p \in Proposals, AcceptTransfer(w, p)
    PROVE  IInv'
  <1> DEFINE t == proposal[p]
             plan == [Plan("update", t.user, Owner) EXCEPT
                        !.lowers = t.from, !.marks = {<<p, "accepted">>}]
  <1>1. t \in Made /\ t # Unused
    BY Types DEF IInv, AcceptTransfer, Open
  <1>2. plan \in Plans /\ plan.marks = {<<p, "accepted">>}
    <2>1. t.user \in Users /\ t.from \in SUBSET Users
      BY <1>1 DEF Made
    <2> DEFINE base == Plan("update", t.user, Owner)
               lowered == [base EXCEPT !.lowers = t.from]
               marks == {<<p, "accepted">>}
    <2>2. base \in Plans /\ marks \in SUBSET (Proposals \X Marks)
      BY <2>1, PlanTyped DEF Writes, Marks
    <2>3. plan = [lowered EXCEPT !.marks = marks]
      OBVIOUS
    <2> HIDE DEF base, marks, t, plan
    <2>4. lowered \in Plans
      BY <2>1, <2>2, LowersTyped
    <2> HIDE DEF lowered
    <2> QED
      BY <2>2, <2>3, <2>4, MarksTyped DEF marks
  <1>4. MarksMade(plan)
    BY <1>1, <1>2, AnswerFacts
  <1>3. PlanOK(plan)
    BY DEF PlanOK, Plan, Roles
  <1> QED
    BY <1>2, <1>3, <1>4, ReadOK DEF AcceptTransfer

LEMMA WithdrawOK ==
    ASSUME IInv, NEW w \in Workers, NEW p \in Proposals, Withdraw(w, p) \/ RevokeInvitation(w, p)
    PROVE  IInv'
  <1> DEFINE plan == [Plan("none", proposal[p].user, 0) EXCEPT !.marks = {<<p, "withdrawn">>}]
  <1>1. proposal[p].kind # "none"
    BY DEF Withdraw, RevokeInvitation, Open
  <1>2. plan \in Plans /\ MarksMade(plan)
    <2> DEFINE u == proposal[p].user
    <2>1. u \in Users /\ proposal[p] # Unused
      BY <1>1, Types DEF IInv, Made
    <2> HIDE DEF u
    <2>2. plan \in Plans /\ plan.marks = {<<p, "withdrawn">>}
      <3> DEFINE made == [Plan("none", u, 0) EXCEPT !.marks = {<<p, "withdrawn">>}]
      <3>1. "none" \in Writes /\ "withdrawn" \in Marks /\ 0 \in 0..Owner
        BY DEF Marks, Writes
      <3>2. made \in Plans /\ made.marks = {<<p, "withdrawn">>}
        BY <2>1, <3>1, AnswerTyped
      <3> QED
        BY <3>2 DEF u
    <2> QED
      BY <2>1, <2>2, AnswerFacts
  <1>3. PlanOK(plan)
    BY DEF PlanOK, Plan
  <1> QED
    BY <1>2, <1>3, ReadOK DEF Withdraw, RevokeInvitation

LEMMA AcceptInvitationOK ==
    ASSUME IInv, NEW w \in Workers, NEW p \in Proposals, AcceptInvitation(w, p)
    PROVE  IInv'
  <1> DEFINE n == proposal[p]
             write == IF seat[n.user] = 0 THEN "create"
                      ELSE IF n.role > seat[n.user] THEN "update" ELSE "none"
             plan == [Plan(write, n.user, n.role) EXCEPT !.marks = {<<p, "accepted">>}]
  <1>1. n.kind # "none"
    BY DEF AcceptInvitation, Open
  <1>2. n.role \in Roles /\ n.user \in Users
    BY <1>1, Types DEF IInv, Made
  <1>3. plan \in Plans /\ MarksMade(plan)
    <2>1. write \in Writes
      BY DEF Writes
    <2>2. plan \in Plans /\ plan.marks = {<<p, "accepted">>}
      <3>1. "accepted" \in Marks /\ n.role \in 0..Owner
        BY <1>2 DEF Marks, Roles
      <3> HIDE DEF write, n
      <3> QED
        BY <1>2, <2>1, <3>1, AnswerTyped
    <2> QED
      BY <1>1, <2>2, AnswerFacts, Types DEF IInv
  <1>4. PlanOK(plan)
    BY <1>2 DEF PlanOK, Plan, Owners, Roles
  <1> QED
    BY <1>3, <1>4, ReadOK DEF AcceptInvitation

LEMMA ApproveAccessOK ==
    ASSUME IInv, NEW w \in Workers, NEW p \in Proposals, NEW role \in Roles,
           ApproveAccess(w, p, role)
    PROVE  IInv'
  <1> DEFINE n == proposal[p]
             write == IF seat[n.user] = 0 THEN "create" ELSE "none"
             plan == [Plan(write, n.user, role) EXCEPT !.marks = {<<p, "accepted">>}]
  <1>1. n.kind # "none"
    BY DEF ApproveAccess, Open
  <1>2. plan \in Plans /\ MarksMade(plan)
    <2>1. write \in Writes /\ n.user \in Users
      BY <1>1, Types DEF Writes, IInv, Made
    <2>2. plan \in Plans /\ plan.marks = {<<p, "accepted">>}
      <3>1. "accepted" \in Marks /\ role \in 0..Owner
        BY DEF Marks, Roles
      <3> HIDE DEF write, n
      <3> QED
        BY <2>1, <3>1, AnswerTyped
    <2> QED
      BY <1>1, <2>2, AnswerFacts, Types DEF IInv
  <1>3. PlanOK(plan)
    BY DEF PlanOK, Plan
  <1> QED
    BY <1>2, <1>3, ReadOK DEF ApproveAccess

--------------------------------------------------------------------------------
(* The end of a transaction.                                               *)

LEMMA SeatsTyped ==
    ASSUME TypeOK, NEW p \in Plans
    PROVE  SeatsAfter(p) \in [Users -> 0..Owner]
  <1> SUFFICES ASSUME NEW u \in Users
               PROVE  (IF u = p.user /\ p.write # "none" THEN p.role
                       ELSE IF u \in p.lowers /\ seat[u] = Owner THEN SteppedDown
                       ELSE seat[u]) \in 0..Owner
    BY DEF SeatsAfter
  <1>1. p.role \in 0..Owner /\ seat[u] \in 0..Owner /\ SteppedDown \in 0..Owner
    BY DEF Plans, TypeOK
  <1> QED
    BY <1>1

LEMMA MadeStays ==
    ASSUME NEW n \in Made, NEW more \in SUBSET Marks
    PROVE  [n EXCEPT !.marks = @ \cup more] \in Made
  BY DEF Made

(* Answers reach proposals that were made.                                 *)
LEMMA ProposalsAfter ==
    ASSUME IInv, NEW w \in Workers, Commit(w)
    PROVE  /\ proposal' \in [Proposals -> {Unused} \cup Made]
           /\ \A x \in Proposals : proposal[x] # Unused => proposal'[x] # Unused
  <1> DEFINE more(x) == {m \in Marks : <<x, m>> \in tx[w].marks}
             after(x) == [proposal[x] EXCEPT !.marks = @ \cup more(x)]
  <1>1. proposal' = [x \in Proposals |-> after(x)]
    BY DEF Commit
  <1>2. ASSUME NEW x \in Proposals, proposal[x] # Unused
        PROVE  after(x) \in Made
    <2>1. proposal[x] \in Made
      BY <1>2, Types DEF IInv
    <2> QED
      BY <2>1, MadeStays
  <1>3. ASSUME NEW x \in Proposals, proposal[x] = Unused
        PROVE  after(x) = Unused
    <2>1. more(x) = {}
      BY <1>3 DEF IInv, Commit, MarksMade
    <2> HIDE DEF more
    <2> QED
      BY <1>3, <2>1 DEF Unused
  <1> HIDE DEF after
  <1>4. \A x \in Proposals : proposal'[x] = after(x)
    BY <1>1
  <1>5. \A x \in Proposals : after(x) \in {Unused} \cup Made
    BY <1>2, <1>3
  <1>6. proposal' \in [Proposals -> {Unused} \cup Made]
    BY <1>1, <1>5
  <1> QED
    BY <1>2, <1>4, <1>6, UnusedIsNotMade

LEMMA OwnerRemainsAfter ==
    ASSUME IInv, IsFiniteSet(Users), NEW w \in Workers, Commit(w)
    PROVE  OwnerRemains'
  <1> DEFINE p == tx[w]
  <1>1. p \in Plans /\ PlanOK(p)
    BY Types DEF IInv, Commit
  <1> SUFFICES ASSUME ~raced' PROVE Owners' # {}
    BY DEF OwnerRemains
  <1>2. Owners # {}
    BY DEF IInv, OwnerRemains, Commit
  <1>3. seat' = SeatsAfter(p) /\ Applicable(p)
    BY DEF Commit
  <1>4. p.user \in Users /\ p.write \in Writes
    BY <1>1 DEF Plans
  <1> HIDE DEF p
  <1>5. CASE p.write # "none" /\ p.role = Owner
    BY <1>3, <1>4, <1>5 DEF SeatsAfter, Owners
  <1>6. CASE p.write # "none" /\ p.role # Owner
    <2>1. p.lowers = {}
      BY <1>1, <1>6 DEF PlanOK
    <2>2. \A v \in Owners : v # p.user => v \in Owners'
      BY <1>3, <2>1 DEF SeatsAfter, Owners
    <2>3. CASE p.user \notin Owners
      BY <1>2, <2>2, <2>3
    <2>4. CASE p.user \in Owners
      <3>1. Owners = p.seen
        BY <1>6, <2>4 DEF Commit, p
      <3>2. p.write # "create"
        BY <1>3, <1>4, <2>4 DEF Applicable, Owners
      <3>3. Cardinality(Owners) > 1
        BY <1>1, <1>4, <1>6, <2>4, <3>1, <3>2 DEF PlanOK, Writes
      <3> QED
        BY <2>2, <3>3, AnotherOwner
    <2> QED
      BY <2>3, <2>4
  <1>7. CASE p.write = "none"
    <2>1. p.lowers = {}
      BY <1>1, <1>7 DEF PlanOK
    <2>2. Owners \subseteq Owners'
      BY <1>3, <1>7, <2>1 DEF SeatsAfter, Owners
    <2> QED
      BY <1>2, <2>2
  <1> QED
    BY <1>5, <1>6, <1>7

LEMMA KeysAfterOK ==
    ASSUME IInv, NEW w \in Workers, Commit(w)
    PROVE  /\ keys' \subseteq Users
           /\ KeysEndWithMembership'
  <1> DEFINE p == tx[w]
  <1>1. p \in Plans /\ PlanOK(p)
    BY Types DEF IInv, Commit
  <1>2. /\ seat' = SeatsAfter(p) /\ keys' = KeysAfter(p)
        /\ orgAdmins' = IF p.leaves THEN orgAdmins \ {p.user} ELSE orgAdmins
    BY DEF Commit
  <1>3. p.user \in Users /\ p.write \in Writes /\ p.effect \in Effects
    BY <1>1 DEF Plans
  <1>4. seat \in [Users -> 0..Owner] /\ seat' \in [Users -> 0..Owner] /\ keys \subseteq Users
    BY <1>1, <1>2, SeatsTyped DEF IInv, TypeOK
  <1>5. \A u \in keys : seat[u] > 0 \/ u \in orgAdmins
    BY DEF IInv, KeysEndWithMembership, LetIn
  <1> HIDE DEF p
  <1>6. keys' \subseteq keys \cup {p.user}
    BY <1>2 DEF KeysAfter
  <1>7. ASSUME NEW u \in keys'
        PROVE  seat'[u] > 0 \/ u \in orgAdmins'
    <2>1. CASE u # p.user
      <3>1. seat'[u] = seat[u] \/ seat'[u] = SteppedDown
        BY <1>2, <1>4, <1>6, <2>1 DEF SeatsAfter
      <3> QED
        BY <1>2, <1>4, <1>5, <1>6, <2>1, <3>1
    <2>2. CASE u = p.user /\ seat'[u] = 0
      <3>1. p.effect \notin {"revokeKeys", "keepKeys", "skipKeys"}
        BY <1>2, <2>2 DEF KeysAfter
      <3>2. orgAdmins' = orgAdmins
        BY <1>1, <1>2, <3>1 DEF PlanOK
      <3>3. p.write = "none"
        <4>1. p.write \notin {"delete", "erase"}
          BY <1>1, <3>1 DEF PlanOK
        <4>2. CASE p.write \in {"create", "update"}
          BY <1>1, <1>2, <1>3, <2>2, <4>2 DEF SeatsAfter, PlanOK, Roles
        <4> QED
          BY <1>3, <4>1, <4>2 DEF Writes
      <3>4. seat[u] = 0
        BY <1>2, <1>3, <2>2, <3>3 DEF SeatsAfter
      <3>5. u \in keys \/ LetIn(u)
        BY <1>2, <2>2 DEF KeysAfter
      <3> QED
        BY <1>5, <3>2, <3>4, <3>5 DEF LetIn
    <2>3. CASE u = p.user /\ seat'[u] # 0
      BY <1>3, <1>4, <2>3
    <2> QED
      BY <2>1, <2>2, <2>3
  <1> QED
    BY <1>3, <1>4, <1>6, <1>7 DEF KeysEndWithMembership, LetIn

LEMMA CommitOK ==
    ASSUME IInv, IsFiniteSet(Users), NEW w \in Workers, Commit(w)
    PROVE  IInv'
  <1>1. tx' = [tx EXCEPT ![w] = Idle] /\ tx[w] \in Plans
    BY Types DEF Commit, IInv
  <1>2. TypeOK'
    <2>1. seat' \in [Users -> 0..Owner]
      BY <1>1, SeatsTyped DEF IInv, Commit
    <2>2. tx' \in [Workers -> {Idle} \cup Plans]
      BY <1>1 DEF IInv, TypeOK, Plans
    <2>3. raced' \in BOOLEAN /\ orgAdmins' \subseteq Users
      BY DEF Commit, IInv, TypeOK
    <2> QED
      BY <2>1, <2>2, <2>3, KeysAfterOK, ProposalsAfter DEF TypeOK, Made, Plans
  <1>3. \A v \in Workers : tx'[v] # Idle => PlanOK(tx'[v]) /\ tx'[v] = tx[v]
    BY <1>1 DEF IInv, TypeOK
  <1>4. (\A v \in Workers : tx[v] # Idle => PlanOK(tx[v]) /\ MarksMade(tx[v]))'
    BY <1>3, ProposalsAfter DEF IInv, MarksMade
  <1> QED
    BY <1>2, <1>4, KeysAfterOK, OwnerRemainsAfter DEF IInv

LEMMA AbortOK ==
    ASSUME IInv, NEW w \in Workers, Abort(w)
    PROVE  IInv'
  <1> USE DEF Abort
  <1>1. TypeOK'
    BY DEF IInv, TypeOK
  <1>2. \A v \in Workers : tx'[v] # Idle => tx'[v] = tx[v]
    BY DEF IInv, TypeOK
  <1>3. (\A v \in Workers : tx[v] # Idle => PlanOK(tx[v]) /\ MarksMade(tx[v]))'
    BY <1>2 DEF IInv, MarksMade
  <1> QED
    BY <1>1, <1>3 DEF IInv, OwnerRemains, KeysEndWithMembership, LetIn, Owners

--------------------------------------------------------------------------------
(* Roles in the organization.                                              *)
LEMMA OrgRoleOK ==
    ASSUME IInv, NEW u \in Users, BecomeOrgAdmin(u) \/ StepDown(u)
    PROVE  IInv'
  <1>1. UNCHANGED <<seat, proposal, tx, raced>>
    BY DEF BecomeOrgAdmin, StepDown
  <1>2. TypeOK'
    BY <1>1 DEF BecomeOrgAdmin, StepDown, IInv, TypeOK
  <1>3. (\A v \in Workers : tx[v] # Idle => PlanOK(tx[v]) /\ MarksMade(tx[v]))'
    BY <1>1 DEF IInv, MarksMade
  <1>4. KeysEndWithMembership'
    <2>1. CASE BecomeOrgAdmin(u)
      BY <2>1 DEF BecomeOrgAdmin, IInv, KeysEndWithMembership, LetIn
    <2>2. CASE StepDown(u)
      <3>1. seat \in [Users -> 0..Owner]
        BY DEF IInv, TypeOK
      <3> QED
        BY <2>2, <3>1 DEF StepDown, IInv, KeysEndWithMembership, LetIn
    <2> QED
      BY <2>1, <2>2
  <1> QED
    BY <1>1, <1>2, <1>3, <1>4 DEF IInv, OwnerRemains, Owners

--------------------------------------------------------------------------------
(* New proposals.                                                          *)
LEMMA ProposeOK ==
    ASSUME IInv, NEW p \in Proposals, NEW n \in Made, Propose(p, n)
    PROVE  IInv'
  <1>1. UNCHANGED <<seat, orgAdmins, keys, tx, raced>>
    BY DEF Propose
  <1>2. ASSUME NEW x \in Proposals
        PROVE  proposal'[x] \in {Unused} \cup Made
               /\ (proposal[x] # Unused => proposal'[x] # Unused)
    <2>1. CASE x = p
      BY <2>1, UnusedIsNotMade DEF Propose
    <2>2. CASE x # p /\ proposal'[x] = proposal[x]
      BY <2>2 DEF IInv, TypeOK, Made
    <2>3. CASE x # p /\ Open(x, "transfer")
               /\ proposal'[x] = [proposal[x] EXCEPT !.marks = {"withdrawn"}]
      <3>1. proposal[x] \in Made
        BY <2>3, Types DEF IInv, Open
      <3>2. proposal'[x] \in Made
        BY <2>3, <3>1 DEF Made, Marks
      <3> QED
        BY <3>2, UnusedIsNotMade
    <2> QED
      BY <2>1, <2>2, <2>3 DEF Propose
  <1>3. proposal' \in [Proposals -> {Unused} \cup Made]
    <2>1. proposal' = [x \in Proposals |-> proposal'[x]]
      BY DEF Propose
    <2> QED
      BY <1>2, <2>1
  <1>4. TypeOK'
    BY <1>1, <1>3 DEF IInv, TypeOK, Made
  <1>5. (\A v \in Workers : tx[v] # Idle => PlanOK(tx[v]) /\ MarksMade(tx[v]))'
    BY <1>1, <1>2 DEF IInv, MarksMade
  <1> QED
    BY <1>1, <1>4, <1>5 DEF IInv, OwnerRemains, KeysEndWithMembership, LetIn, Owners

LEMMA AskOK ==
    ASSUME IInv, NEW p \in Proposals, NEW u \in Users, NEW role \in Roles,
           Invite(p, u, role) \/ RequestAccess(p, u, role)
    PROVE  IInv'
  <1>1. PICK kind \in {"invitation", "request"} : Ask(p, kind, u, role)
    BY DEF Invite, RequestAccess
  <1>2. [kind |-> kind, user |-> u, role |-> role, from |-> {}, marks |-> {}] \in Made
    BY DEF Made, Kinds
  <1> QED
    BY <1>1, <1>2, ProposeOK DEF Ask

LEMMA ProposeTransferOK ==
    ASSUME IInv, NEW p \in Proposals, NEW u \in Users, NEW v \in Users, ProposeTransfer(p, u, v)
    PROVE  IInv'
  <1>1. [kind |-> "transfer", user |-> v, role |-> Owner, from |-> {u}, marks |-> {}] \in Made
    BY DEF Made, Kinds, Roles
  <1> QED
    BY <1>1, ProposeOK DEF ProposeTransfer

--------------------------------------------------------------------------------
LEMMA BeginOK ==
    ASSUME IInv, NEW w \in Workers, Begin(w)
    PROVE  IInv'
  <1>1. ASSUME NEW u \in Users, NEW role \in Roles,
               \/ ChangeRole(w, u, role) \/ SyncMembership(w, u, role)
               \/ SyncOrgMember(w, u, role) \/ AddMember(w, u, role)
        PROVE  IInv'
    BY <1>1, ChangeRoleOK, ProvisionOK, AddMemberOK DEF SyncMembership, SyncOrgMember
  <1>2. ASSUME NEW u \in Users,
               \/ \E keepKeys \in BOOLEAN :
                    RemoveMember(w, u, keepKeys) \/ OffboardMember(w, u, keepKeys)
               \/ Deprovision(w, u) \/ Unprovision(w, u) \/ EraseUser(w, u) \/ IssueKey(w, u)
        PROVE  IInv'
    BY <1>2, RemoveSeatOK, OffboardMemberOK, UnprovisionOK, EraseUserOK, IssueKeyOK
       DEF RemoveMember, Deprovision
  <1>3. ASSUME NEW p \in Proposals,
               \/ AcceptTransfer(w, p) \/ AcceptInvitation(w, p) \/ RevokeInvitation(w, p)
               \/ \E role \in Roles \ {Owner} : ApproveAccess(w, p, role)
               \/ Withdraw(w, p)
        PROVE  IInv'
    BY <1>3, AcceptTransferOK, AcceptInvitationOK, WithdrawOK, ApproveAccessOK
  <1> QED
    BY <1>1, <1>2, <1>3 DEF Begin

LEMMA StutterOK == IInv /\ UNCHANGED vars => IInv'
  BY DEF IInv, vars, TypeOK, OwnerRemains, KeysEndWithMembership, LetIn, Owners, MarksMade

LEMMA NextOK == IInv /\ IsFiniteSet(Users) /\ [Next]_vars => IInv'
  <1> SUFFICES ASSUME IInv, IsFiniteSet(Users), [Next]_vars PROVE IInv'
    OBVIOUS
  <1>1. ASSUME NEW w \in Workers, Begin(w) \/ Commit(w) \/ Abort(w) PROVE IInv'
    BY <1>1, BeginOK, CommitOK, AbortOK
  <1>2. ASSUME NEW p \in Proposals, NEW u \in Users, NEW role \in Roles,
               Invite(p, u, role) \/ RequestAccess(p, u, role)
        PROVE  IInv'
    BY <1>2, AskOK
  <1>3. ASSUME NEW p \in Proposals, NEW u \in Users, NEW to \in Users, ProposeTransfer(p, u, to)
        PROVE  IInv'
    BY <1>3, ProposeTransferOK
  <1>4. ASSUME NEW u \in Users, BecomeOrgAdmin(u) \/ StepDown(u) PROVE IInv'
    BY <1>4, OrgRoleOK
  <1>5. CASE UNCHANGED vars
    BY <1>5, StutterOK
  <1> QED
    BY <1>1, <1>2, <1>3, <1>4, <1>5 DEF Next

LEMMA Invariance == Spec => []IInv
  <1>1. IInv /\ [Next]_vars => IInv'
    BY NextOK, UsersAssumption
  <1> QED
    BY <1>1, InitOK, PTL DEF Spec

(* Every variable has its type.                                            *)
THEOREM TypeCorrect == Spec => []TypeOK
  <1>1. IInv => TypeOK
    BY DEF IInv
  <1> QED
    BY <1>1, Invariance, PTL

(* However many requests are in progress, an owner remains, unless two of  *)
(* them overlap and one takes an owner it did not count.                   *)
THEOREM LastOwnerStays == Spec => []OwnerRemains
  <1>1. IInv => OwnerRemains
    BY DEF IInv
  <1> QED
    BY <1>1, Invariance, PTL

(* API keys that are to end with the membership are of someone the         *)
(* workspace lets in: a member, or an admin of its organization.           *)
THEOREM LiveKeysAreOfThoseLetIn == Spec => []KeysEndWithMembership
  <1>1. IInv => KeysEndWithMembership
    BY DEF IInv
  <1> QED
    BY <1>1, Invariance, PTL

--------------------------------------------------------------------------------
(***************************************************************************)
(* Sessions.                                                               *)
(***************************************************************************)

HIDE RanksAssumption

CallRecs == [step : Steps, fam : Families, n : 0..MaxTokens, code : 0..MaxStep]

(* What a request knows: a refresh, an upgrade and a re-authentication work *)
(* on a token that was issued, a sign-in has its family to itself.          *)
RequestOK(c) ==
    LET f == call[c].fam
        n == call[c].n
    IN call[c].step # "idle" =>
       IF call[c].step \in {"code", "issue"} /\ n = 0
       THEN Issued(f) = {} /\ \A d \in Calls : call[d].step # "idle" /\ call[d].fam = f => d = c
       ELSE n \in Issued(f)

IssuedInOrder == \A f \in Families : \E k \in 0..MaxTokens : Issued(f) = 1..k

(* RotationIsLinear, without the counting.                                  *)
OneAlive ==
    \A f \in Families \ forked :
       /\ \A m, n \in Fresh(f) : m = n
       /\ \A c, d \in Issuing(f) : c = d
       /\ Fresh(f) = {} \/ Issuing(f) = {}

(* A family is ended once it has tokens; if no request had slipped through, *)
(* all of them are revoked, and no request can issue another.               *)
EndedOK ==
    \A f \in ended :
       /\ Issued(f) # {}
       /\ f \notin slipped =>
             Issued(f) \subseteq revoked[f] /\ Claiming(f) = {} /\ Issuing(f) = {}

CodesOK == \A k \in Codes : accepted[k] <= (IF k <= lastStep THEN 1 ELSE 0)

SessionsIInv ==
    /\ SessionsTypeOK
    /\ \A c \in Calls : RequestOK(c)
    /\ IssuedInOrder
    /\ OneAlive
    /\ EndedOK
    /\ CodesOK

USE BoundsAssumption

--------------------------------------------------------------------------------
LEMMA CallTyped ==
    ASSUME SessionsTypeOK, NEW c \in Calls
    PROVE  /\ call[c].step = "idle" <=> call[c] = NoCall
           /\ call[c].step # "idle" => call[c] \in CallRecs
  <1>1. call[c] \in {NoCall} \cup CallRecs
    BY DEF SessionsTypeOK, CallRecs
  <1>2. NoCall.step = "idle"
    BY DEF NoCall
  <1>3. \A r \in CallRecs : r.step # "idle"
    BY DEF CallRecs, Steps, Holding
  <1> QED
    BY <1>1, <1>2, <1>3

(* What an entry, a step and a return leave of the requests.               *)
LEMMA EnterFacts ==
    ASSUME SessionsTypeOK, NEW c \in Calls, NEW step \in Steps, NEW f \in Families,
           NEW n \in 0..MaxTokens, NEW k \in 0..MaxStep, Enter(c, step, f, n, k)
    PROVE  /\ call[c].step = "idle"
           /\ call' \in [Calls -> {NoCall} \cup CallRecs]
           /\ call'[c].step = step /\ call'[c].fam = f /\ call'[c].n = n
           /\ \A d \in Calls \ {c} : call'[d] = call[d]
  BY CallTyped DEF SessionsTypeOK, Enter, CallRecs

LEMMA GotoFacts ==
    ASSUME SessionsTypeOK, NEW c \in Calls, call[c].step # "idle", NEW step \in Steps,
           Goto(c, step)
    PROVE  /\ call' \in [Calls -> {NoCall} \cup CallRecs]
           /\ call'[c].step = step /\ call'[c].fam = call[c].fam /\ call'[c].n = call[c].n
           /\ \A d \in Calls \ {c} : call'[d] = call[d]
  <1>1. call[c] \in CallRecs
    BY CallTyped
  <1>2. [call[c] EXCEPT !.step = step] \in CallRecs
    BY <1>1 DEF CallRecs
  <1> QED
    BY <1>1, <1>2 DEF SessionsTypeOK, Goto, CallRecs

LEMMA ReturnFacts ==
    ASSUME SessionsTypeOK, NEW c \in Calls, Return(c)
    PROVE  /\ call' \in [Calls -> {NoCall} \cup CallRecs]
           /\ call'[c].step = "idle"
           /\ \A d \in Calls \ {c} : call'[d] = call[d]
  BY DEF SessionsTypeOK, Return, CallRecs, NoCall

(* A step of one request that leaves the tokens: what it may not do is     *)
(* come to hold a token of a family that is not its own, that was ended or *)
(* has another one.                                                        *)
Untouched == UNCHANGED <<token, revoked, ended, slipped, forked>>

LEMMA QuietOK ==
    ASSUME SessionsIInv, Untouched,
           \A f \in Families : Issuing(f)' \subseteq Issuing(f),
           \A f \in Families : Claiming(f)' \subseteq Claiming(f)
    PROVE  IssuedInOrder' /\ OneAlive' /\ EndedOK'
  <1>1. \A f : Issued(f)' = Issued(f) /\ Fresh(f)' = Fresh(f)
    BY DEF Untouched, Issued, Fresh
  <1>2. IssuedInOrder'
    BY <1>1 DEF SessionsIInv, IssuedInOrder
  <1>3. OneAlive'
    BY <1>1 DEF SessionsIInv, Untouched, OneAlive
  <1>4. EndedOK'
    <2>1. ended \subseteq Families
      BY DEF SessionsIInv, SessionsTypeOK
    <2> QED
      BY <1>1, <2>1 DEF SessionsIInv, Untouched, EndedOK
  <1> QED
    BY <1>2, <1>3, <1>4

LEMMA InitSessionsOK == SessionsInit => SessionsIInv
  <1> SUFFICES ASSUME SessionsInit PROVE SessionsIInv
    OBVIOUS
  <1>1. SessionsTypeOK
    <2>1. token \in [Families -> [Ids -> {"none", "fresh", "used", "old"}]]
      BY DEF SessionsInit
    <2>2. call \in [Calls -> {NoCall} \cup CallRecs] /\ accepted \in [Codes -> Nat]
      BY DEF SessionsInit
    <2>3. revoked \in [Families -> SUBSET Ids] /\ lastStep \in 0..MaxStep
      BY DEF SessionsInit
    <2> QED
      BY <2>1, <2>2, <2>3 DEF SessionsInit, SessionsTypeOK, CallRecs
  <1>2. \A c \in Calls : RequestOK(c)
    BY DEF SessionsInit, RequestOK, NoCall
  <1>3. \A f \in Families : Issued(f) = {} /\ Fresh(f) = {}
    BY DEF SessionsInit, Issued, Fresh
  <1>4. IssuedInOrder
    <2>1. 0 \in 0..MaxTokens /\ 1..0 = {}
      OBVIOUS
    <2> QED
      BY <1>3, <2>1 DEF IssuedInOrder
  <1>5. OneAlive
    BY <1>3 DEF SessionsInit, OneAlive, Issuing, NoCall
  <1>6. EndedOK /\ CodesOK
    BY DEF SessionsInit, EndedOK, CodesOK
  <1> QED
    BY <1>1, <1>2, <1>4, <1>5, <1>6 DEF SessionsIInv

--------------------------------------------------------------------------------
LEMMA IssuedTokens ==
    ASSUME NEW f \in Families, NEW n \in Issued(f)
    PROVE  n \in Ids /\ n \in 0..MaxTokens /\ n # 0
  BY DEF Issued, Ids

(* A request begins: it holds no token of a family that was ended.         *)
LEMMA EnterOK ==
    ASSUME SessionsIInv, NEW c \in Calls, NEW step \in Steps, NEW f \in Families,
           NEW n \in 0..MaxTokens, NEW k \in 0..MaxStep, Enter(c, step, f, n, k),
           \/ step \in {"code", "issue"} /\ n = 0 /\ Issued(f) = {} /\ ~Busy(f)
           \/ step \in {"code", "revoke"} /\ n \in Issued(f)
           \/ step = "claim" /\ n \in Issued(f) \ revoked[f]
           \/ step = "mark" /\ n \in Usable(f),
           Untouched, UNCHANGED <<suspended, ending, lastStep, accepted>>
    PROVE  SessionsIInv'
  <1>1. SessionsTypeOK'
    BY EnterFacts DEF SessionsIInv, SessionsTypeOK, Untouched, CallRecs
  <1>2. ASSUME NEW d \in Calls PROVE RequestOK(d)'
    <2>1. \A g \in Families : Issued(g)' = Issued(g)
      BY DEF Untouched, Issued
    <2>2. \A g \in Families : Busy(g) <=> \E e \in Calls : call[e].step # "idle" /\ call[e].fam = g
      BY CallTyped DEF Busy, SessionsIInv
    <2>3. Usable(f) \subseteq Issued(f)
      BY DEF Usable, Fresh, Issued
    <2>4. CASE d = c
      <3>1. call'[c].step = step /\ call'[c].fam = f /\ call'[c].n = n
        BY EnterFacts DEF SessionsIInv
      <3>2. CASE step \in {"code", "issue"} /\ n = 0 /\ Issued(f) = {} /\ ~Busy(f)
        <4>1. \A e \in Calls \ {c} : ~(call'[e].step # "idle" /\ call'[e].fam = f)
          BY <2>2, <3>2, EnterFacts DEF SessionsIInv
        <4> QED
          BY <2>1, <2>4, <3>1, <3>2, <4>1 DEF RequestOK
      <3>3. CASE n \in Issued(f)
        BY <2>1, <2>4, <3>1, <3>3, IssuedTokens DEF RequestOK
      <3> QED
        BY <2>3, <3>2, <3>3
    <2>5. CASE d # c /\ call[d].step # "idle"
      <3>1. call[d] \in CallRecs
        BY <2>5, CallTyped DEF SessionsIInv
      <3>2. call'[d] = call[d] /\ call[d].fam \in Families
        BY <2>5, <3>1, EnterFacts DEF SessionsIInv, CallRecs
      <3>3. RequestOK(d)
        BY DEF SessionsIInv
      <3> QED
        BY <2>1, <2>2, <2>3, <2>5, <3>1, <3>2, <3>3, EnterFacts DEF SessionsIInv, RequestOK
    <2>6. CASE d # c /\ call[d].step = "idle"
      BY <2>6, EnterFacts DEF SessionsIInv, RequestOK
    <2> QED
      BY <2>4, <2>5, <2>6
  <1>3. IssuedInOrder'
    BY DEF SessionsIInv, IssuedInOrder, Issued, Untouched
  <1>4. OneAlive'
    <2>1. \A g \in Families : Fresh(g)' = Fresh(g)
      BY DEF Untouched, Fresh
    <2>2. \A g \in Families : g # f => Issuing(g)' = Issuing(g)
      BY EnterFacts DEF SessionsIInv, Issuing
    <2>3. step # "issue" => Issuing(f)' = Issuing(f)
      BY EnterFacts DEF SessionsIInv, Issuing
    <2>4. CASE step = "issue"
      <3>1. Fresh(f) = {}
        BY <2>4 DEF Issued, Fresh
      <3>2. Issuing(f)' \subseteq {c}
        BY <2>4, EnterFacts, CallTyped DEF SessionsIInv, Issuing, Busy
      <3> QED
        BY <2>1, <2>2, <3>1, <3>2 DEF SessionsIInv, OneAlive, Untouched
    <2> QED
      BY <2>1, <2>2, <2>3, <2>4 DEF SessionsIInv, OneAlive, Untouched
  <1>5. EndedOK'
    <2> SUFFICES ASSUME NEW g \in ended, Issued(g) # {},
                        g \notin slipped => Issued(g) \subseteq revoked[g]
                                           /\ Claiming(g) = {} /\ Issuing(g) = {}
                 PROVE  g \notin slipped => Claiming(g)' = {} /\ Issuing(g)' = {}
      BY DEF SessionsIInv, EndedOK, Issued, Untouched
    <2>1. CASE g # f
      BY <2>1, EnterFacts DEF SessionsIInv, Claiming, Issuing, Untouched
    <2>2. CASE g = f
      <3>1. Usable(f) \subseteq Issued(f) \ revoked[f]
        BY DEF Usable, Fresh, Issued
      <3> QED
        BY <2>2, <3>1, EnterFacts DEF SessionsIInv, Claiming, Issuing, Untouched
    <2> QED
      BY <2>1, <2>2
  <1>6. CodesOK'
    BY DEF SessionsIInv, CodesOK
  <1> QED
    BY <1>1, <1>2, <1>3, <1>4, <1>5, <1>6 DEF SessionsIInv

LEMMA BeginCallOK ==
    ASSUME SessionsIInv, NEW c \in Calls, BeginCall(c)
    PROVE  SessionsIInv'
  <1>1. 0 \in 0..MaxTokens /\ 0 \in 0..MaxStep /\ \A k \in Codes : k \in 0..MaxStep
    BY DEF Codes
  <1> PICK f \in Families :
         \/ SignIn(c, f)
         \/ \E k \in Codes : SignInWithCode(c, f, k)
         \/ \E n \in Ids :
              \/ Refresh(c, f, n)
              \/ Upgrade(c, f, n)
              \/ \E k \in Codes : Reauthenticate(c, f, n, k)
    BY DEF BeginCall
  <1>2. CASE SignIn(c, f)
    BY <1>1, <1>2, EnterOK DEF SignIn, Untouched, Steps, Holding
  <1>3. ASSUME NEW k \in Codes, SignInWithCode(c, f, k) PROVE SessionsIInv'
    BY <1>1, <1>3, EnterOK DEF SignInWithCode, Untouched, Steps, Holding
  <1>4. ASSUME NEW n \in Ids, Refresh(c, f, n) PROVE SessionsIInv'
    <2>1. n \in Issued(f) \ revoked[f]
      BY <1>4 DEF Refresh
    <2>2. PICK step \in {"claim", "revoke"} : Enter(c, step, f, n, 0)
      BY <1>4 DEF Refresh
    <2>3. Untouched /\ UNCHANGED <<suspended, ending, lastStep, accepted>>
      BY <1>4 DEF Refresh, Untouched
    <2> QED
      BY <1>1, <2>1, <2>2, <2>3, EnterOK, IssuedTokens DEF Steps, Holding
  <1>5. ASSUME NEW n \in Ids, Upgrade(c, f, n) PROVE SessionsIInv'
    <2>1. n \in 0..MaxTokens
      BY DEF Ids
    <2> QED
      BY <1>1, <1>5, <2>1, EnterOK DEF Upgrade, Untouched, Steps, Holding
  <1>6. ASSUME NEW n \in Ids, NEW k \in Codes, Reauthenticate(c, f, n, k) PROVE SessionsIInv'
    <2>1. n \in 0..MaxTokens
      BY DEF Ids
    <2> QED
      BY <1>1, <1>6, <2>1, EnterOK DEF Reauthenticate, Untouched, Steps, Holding
  <1> QED
    BY <1>2, <1>3, <1>4, <1>5, <1>6

--------------------------------------------------------------------------------
(* A request goes on, or ends, without touching a token.                   *)
LEMMA GotoOK ==
    ASSUME SessionsIInv, NEW c \in Calls, NEW step \in Steps, Goto(c, step),
           \/ step = "issue" /\ call[c].step = "user"
           \/ step = "issue" /\ call[c].step = "code" /\ call[c].n = 0
           \/ /\ step \in {"load", "revoke"}
              /\ call[c].step # "idle" /\ call[c].n \in Issued(call[c].fam)
           \/ step = "mark" /\ call[c].step # "idle" /\ call[c].n \in Usable(call[c].fam),
           Untouched, UNCHANGED <<suspended, ending>>,
           lastStep' \in 0..MaxStep, accepted' \in [Codes -> Nat], CodesOK'
    PROVE  SessionsIInv'
  <1> PICK f \in Families : f = call[c].fam /\ call[c].step # "idle" /\ call[c] \in CallRecs
    BY CallTyped DEF SessionsIInv, CallRecs
  <1>1. call[c].step # "idle" /\ call[c] \in CallRecs /\ f = call[c].fam
    OBVIOUS
  <1>2. /\ call'[c].step = step /\ call'[c].fam = f /\ call'[c].n = call[c].n
        /\ \A d \in Calls \ {c} : call'[d] = call[d]
    BY <1>1, GotoFacts DEF SessionsIInv
  <1>3. SessionsTypeOK'
    BY <1>1, GotoFacts DEF SessionsIInv, SessionsTypeOK, Untouched, CallRecs
  <1>4. \A g \in Families : Issued(g)' = Issued(g) /\ Fresh(g)' = Fresh(g)
    BY DEF Untouched, Issued, Fresh
  <1>5. Usable(f) \subseteq Issued(f) \ revoked[f] /\ Fresh(f) \subseteq Issued(f)
    BY DEF Usable, Fresh, Issued
  <1>6. RequestOK(c) /\ 0 \notin Issued(f)
    BY <1>1, IssuedTokens DEF SessionsIInv
  <1>7. ASSUME NEW d \in Calls PROVE RequestOK(d)'
    <2>1. CASE d = c
      BY <1>1, <1>2, <1>4, <1>5, <1>6, <2>1 DEF RequestOK
    <2>2. CASE d # c /\ call[d].step = "idle"
      BY <1>2, <2>2 DEF RequestOK
    <2>3. CASE d # c /\ call[d].step # "idle"
      <3>1. call[d].fam \in Families /\ RequestOK(d)
        BY <2>3, CallTyped DEF SessionsIInv, CallRecs
      <3> QED
        BY <1>1, <1>2, <1>4, <2>3, <3>1 DEF RequestOK
    <2> QED
      BY <2>1, <2>2, <2>3
  <1>8. IssuedInOrder'
    BY <1>4 DEF SessionsIInv, IssuedInOrder
  <1>9. step = "issue" /\ call[c].step = "code" => /\ Issued(f) = {}
                                                  /\ Issuing(f)' \subseteq {c}
    BY <1>1, <1>2, <1>6 DEF RequestOK, Issuing
  <1>10. ~(step = "issue" /\ call[c].step = "code") =>
            \A g \in Families : Issuing(g)' \subseteq Issuing(g)
    BY <1>1, <1>2 DEF Issuing
  <1>11. \A g \in Families : g # f => Issuing(g)' = Issuing(g)
    BY <1>2 DEF Issuing
  <1>12. OneAlive'
    <2> SUFFICES ASSUME NEW g \in Families \ forked
                 PROVE  /\ \A m, n \in Fresh(g) : m = n
                        /\ \A d, e \in Issuing(g)' : d = e
                        /\ Fresh(g) = {} \/ Issuing(g)' = {}
      BY <1>4 DEF OneAlive, Untouched
    <2>1. /\ \A m, n \in Fresh(g) : m = n
          /\ \A d, e \in Issuing(g) : d = e
          /\ Fresh(g) = {} \/ Issuing(g) = {}
      BY DEF SessionsIInv, OneAlive
    <2>2. CASE Issuing(g)' \subseteq Issuing(g)
      BY <2>1, <2>2
    <2>3. CASE g = f /\ Issued(f) = {} /\ Issuing(f)' \subseteq {c}
      BY <1>5, <2>3
    <2> QED
      BY <1>9, <1>10, <1>11, <2>2, <2>3
  <1>13. EndedOK'
    <2> SUFFICES ASSUME NEW g \in ended, Issued(g) # {},
                        g \notin slipped => Issued(g) \subseteq revoked[g]
                                           /\ Claiming(g) = {} /\ Issuing(g) = {}
                 PROVE  g \notin slipped => Claiming(g)' = {} /\ Issuing(g)' = {}
      BY <1>4 DEF SessionsIInv, EndedOK, Untouched, SessionsTypeOK
    <2>1. g \in Families
      BY DEF SessionsIInv, SessionsTypeOK
    <2>2. g \notin slipped => Issuing(g)' = {}
      BY <1>9, <1>10, <1>11, <2>1
    <2>3. g \notin slipped => Claiming(g)' = {}
      BY <1>2, <1>5, <2>1 DEF Claiming, Untouched
    <2> QED
      BY <2>2, <2>3
  <1> QED
    BY <1>3, <1>7, <1>8, <1>12, <1>13 DEF SessionsIInv

LEMMA ReturnOK ==
    ASSUME SessionsIInv, NEW c \in Calls, Return(c), Untouched,
           UNCHANGED <<suspended, ending, lastStep, accepted>>
    PROVE  SessionsIInv'
  <1>1. SessionsTypeOK'
    BY ReturnFacts DEF SessionsIInv, SessionsTypeOK, Untouched, CallRecs
  <1>2. \A d \in Calls : RequestOK(d)'
    BY ReturnFacts DEF SessionsIInv, RequestOK, Issued, Untouched
  <1>3. \A f \in Families : Issuing(f)' \subseteq Issuing(f) /\ Claiming(f)' \subseteq Claiming(f)
    BY ReturnFacts DEF SessionsIInv, Issuing, Claiming, Untouched
  <1>4. IssuedInOrder' /\ OneAlive' /\ EndedOK'
    BY <1>3, QuietOK
  <1>5. CodesOK'
    BY DEF SessionsIInv, CodesOK
  <1> QED
    BY <1>1, <1>2, <1>4, <1>5 DEF SessionsIInv

LEMMA UseCodeOK == ASSUME SessionsIInv, NEW c \in Calls, UseCode(c) PROVE SessionsIInv'
  <1> DEFINE k == call[c].code
  <1>1. call[c] \in CallRecs /\ RequestOK(c) /\ call[c].step = "code"
    BY CallTyped DEF SessionsIInv, UseCode
  <1>2. UNCHANGED <<suspended, ending>> /\ Untouched
    BY DEF UseCode, Untouched
  <1>3. CASE lastStep < k
    <2>1. /\ lastStep' = k
          /\ accepted' = [accepted EXCEPT ![k] = @ + 1]
          /\ Goto(c, IF call[c].n = 0 THEN "issue" ELSE "load")
      BY <1>3 DEF UseCode
    <2>2. k \in Codes /\ lastStep \in 0..MaxStep /\ accepted \in [Codes -> Nat]
      BY <1>1, <1>3 DEF SessionsIInv, SessionsTypeOK, CallRecs, Codes
    <2>3. CodesOK'
      BY <1>3, <2>1, <2>2 DEF SessionsIInv, CodesOK, Codes
    <2>4. accepted' \in [Codes -> Nat] /\ lastStep' \in 0..MaxStep
      BY <2>1, <2>2 DEF Codes
    <2>5. call[c].n # 0 => call[c].n \in Issued(call[c].fam)
      BY <1>1 DEF RequestOK
    <2> QED
      BY <1>1, <1>2, <2>1, <2>3, <2>4, <2>5, GotoOK DEF Steps, Holding
  <1>4. CASE ~(lastStep < k)
    BY <1>2, <1>4, ReturnOK DEF UseCode
  <1> QED
    BY <1>3, <1>4

LEMMA CodesStay ==
    ASSUME SessionsIInv, UNCHANGED <<lastStep, accepted>>
    PROVE  lastStep' \in 0..MaxStep /\ accepted' \in [Codes -> Nat] /\ CodesOK'
  BY DEF SessionsIInv, SessionsTypeOK, CodesOK

LEMMA CheckUserOK == ASSUME SessionsIInv, NEW c \in Calls, CheckUser(c) PROVE SessionsIInv'
  <1>1. call[c].step = "user" /\ RequestOK(c)
    BY DEF SessionsIInv, CheckUser
  <1>2. call[c].n \in Issued(call[c].fam)
    BY <1>1 DEF RequestOK
  <1>3. Untouched /\ UNCHANGED <<suspended, ending, lastStep, accepted>>
    BY DEF CheckUser, Untouched
  <1>4. PICK step \in {"issue", "revoke"} : Goto(c, step)
    BY DEF CheckUser
  <1> QED
    BY <1>1, <1>2, <1>3, <1>4, CodesStay, GotoOK DEF Steps, Holding

LEMMA UpgradeAfterCodeOK ==
    ASSUME SessionsIInv, NEW c \in Calls, UpgradeAfterCode(c) PROVE SessionsIInv'
  <1>1. Untouched /\ UNCHANGED <<suspended, ending, lastStep, accepted>>
    BY DEF UpgradeAfterCode, Untouched
  <1> QED
    BY <1>1, CodesStay, GotoOK, ReturnOK DEF UpgradeAfterCode, Steps, Holding

LEMMA CrashOK == ASSUME SessionsIInv, NEW c \in Calls, Crash(c) PROVE SessionsIInv'
  BY ReturnOK DEF Crash, Untouched

--------------------------------------------------------------------------------
(* A token is used up, or grows old: it was issued, and stays so.          *)
LEMMA SpendFacts ==
    ASSUME SessionsTypeOK, NEW f \in Families, NEW n \in Issued(f), NEW s \in {"used", "old"},
           token' = [token EXCEPT ![f][n] = s]
    PROVE  /\ token' \in [Families -> [Ids -> {"none", "fresh", "used", "old"}]]
           /\ \A g \in Families : Issued(g)' = Issued(g)
           /\ Fresh(f)' = Fresh(f) \ {n} /\ \A g \in Families \ {f} : Fresh(g)' = Fresh(g)
           /\ \A g \in Families, m \in Ids : token'[g][m] = "fresh" => token[g][m] = "fresh"
  <1>1. n \in Ids /\ token[f][n] # "none"
    BY DEF Issued
  <1>2. \A g \in Families, m \in Ids :
           token'[g][m] = IF g = f /\ m = n THEN s ELSE token[g][m]
    BY <1>1 DEF SessionsTypeOK
  <1>3. token' \in [Families -> [Ids -> {"none", "fresh", "used", "old"}]]
    BY <1>1 DEF SessionsTypeOK
  <1> QED
    BY <1>1, <1>2, <1>3 DEF Issued, Fresh

(* A request uses up its token: it is then the one that issues the next.   *)
LEMMA SpendOK ==
    ASSUME SessionsIInv, NEW c \in Calls, NEW step \in {"user", "issue"},
           call[c].step \in {"claim", "mark"}, Goto(c, step),
           token' = [token EXCEPT ![call[c].fam][call[c].n] = "used"],
           call[c].step = "claim" => token[call[c].fam][call[c].n] = "fresh",
           forked' = forked \/ forked' = forked \cup {call[c].fam},
           token[call[c].fam][call[c].n] = "fresh" \/ call[c].fam \in forked',
           UNCHANGED <<revoked, suspended, ending, lastStep, accepted, ended, slipped>>
    PROVE  SessionsIInv'
  <1>1. call[c] \in CallRecs /\ call[c].n \in Issued(call[c].fam)
    BY CallTyped DEF SessionsIInv, RequestOK
  <1> PICK f \in Families, n \in 0..MaxTokens : f = call[c].fam /\ n = call[c].n
    BY <1>1 DEF CallRecs
  <1>2. call[c] \in CallRecs /\ n \in Issued(f) /\ f = call[c].fam /\ n = call[c].n /\ step \in Steps
    BY <1>1 DEF Steps, Holding
  <1>3. /\ call'[c].step = step /\ call'[c].fam = f /\ call'[c].n = n
        /\ \A d \in Calls \ {c} : call'[d] = call[d]
        /\ call' \in [Calls -> {NoCall} \cup CallRecs]
    BY <1>2, GotoFacts DEF SessionsIInv
  <1>4. /\ token' \in [Families -> [Ids -> {"none", "fresh", "used", "old"}]]
        /\ \A g \in Families : Issued(g)' = Issued(g)
        /\ Fresh(f)' = Fresh(f) \ {n} /\ \A g \in Families \ {f} : Fresh(g)' = Fresh(g)
        /\ \A g \in Families, m \in Ids : token'[g][m] = "fresh" => token[g][m] = "fresh"
    BY <1>2, SpendFacts DEF SessionsIInv
  <1>5. SessionsTypeOK'
    BY <1>2, <1>3, <1>4 DEF SessionsIInv, SessionsTypeOK, CallRecs
  <1>6. ASSUME NEW d \in Calls PROVE RequestOK(d)'
    <2>1. CASE d = c
      BY <1>2, <1>3, <1>4, <2>1, IssuedTokens DEF RequestOK
    <2>2. CASE d # c /\ call[d].step = "idle"
      BY <1>3, <2>2 DEF RequestOK
    <2>3. CASE d # c /\ call[d].step # "idle"
      <3>1. call[d].fam \in Families /\ RequestOK(d)
        BY <2>3, CallTyped DEF SessionsIInv, CallRecs
      <3> QED
        BY <1>2, <1>3, <1>4, <2>3, <3>1 DEF RequestOK
    <2> QED
      BY <2>1, <2>2, <2>3
  <1>7. IssuedInOrder'
    BY <1>4 DEF SessionsIInv, IssuedInOrder
  <1>8. /\ \A g \in Families \ {f} : Issuing(g)' = Issuing(g)
        /\ Issuing(f)' = Issuing(f) \cup {c}
    BY <1>2, <1>3 DEF Issuing
  <1>9. OneAlive'
    <2> SUFFICES ASSUME NEW g \in Families \ forked'
                 PROVE  /\ \A m1, m2 \in Fresh(g)' : m1 = m2
                        /\ \A d, e \in Issuing(g)' : d = e
                        /\ Fresh(g)' = {} \/ Issuing(g)' = {}
      BY DEF OneAlive
    <2>1. /\ \A m1, m2 \in Fresh(g) : m1 = m2
          /\ \A d, e \in Issuing(g) : d = e
          /\ Fresh(g) = {} \/ Issuing(g) = {}
      BY DEF SessionsIInv, OneAlive
    <2>2. CASE g # f
      <3>1. Fresh(g)' = Fresh(g) /\ Issuing(g)' = Issuing(g)
        BY <1>4, <1>8, <2>2
      <3> QED
        BY <2>1, <3>1
    <2>3. CASE g = f
      <3>1. n \in Fresh(f)
        BY <1>2, <2>3, IssuedTokens DEF Fresh
      <3> QED
        BY <1>4, <1>8, <2>1, <2>3, <3>1
    <2> QED
      BY <2>2, <2>3
  <1>10. EndedOK'
    <2> SUFFICES ASSUME NEW g \in ended, Issued(g) # {},
                        g \notin slipped => Issued(g) \subseteq revoked[g]
                                           /\ Claiming(g) = {} /\ Issuing(g) = {}
                 PROVE  g \notin slipped => Claiming(g)' = {} /\ Issuing(g)' = {}
      BY <1>4 DEF SessionsIInv, EndedOK, SessionsTypeOK
    <2>1. g \in Families
      BY DEF SessionsIInv, SessionsTypeOK
    <2>2. c \in Claiming(f)
      BY <1>2 DEF Claiming
    <2>3. ASSUME NEW d \in Claiming(g)' PROVE d \in Claiming(g)
      <3>1. d # c /\ call'[d] = call[d]
        BY <1>3, <2>3 DEF Claiming
      <3>2. call[d].step = "claim" => call[d].n \in Ids
        BY <2>3, <3>1, CallTyped, IssuedTokens DEF SessionsIInv, RequestOK, Claiming, CallRecs
      <3> QED
        BY <1>4, <2>1, <2>3, <3>1, <3>2 DEF Claiming
    <2> QED
      BY <1>8, <2>1, <2>2, <2>3
  <1>11. CodesOK'
    BY DEF SessionsIInv, CodesOK
  <1> QED
    BY <1>5, <1>6, <1>7, <1>9, <1>10, <1>11 DEF SessionsIInv

LEMMA ClaimOK == ASSUME SessionsIInv, NEW c \in Calls, Claim(c) PROVE SessionsIInv'
  <1> DEFINE s == token[call[c].fam][call[c].n]
  <1>1. call[c].step = "claim" /\ call[c].n \in Issued(call[c].fam)
    BY DEF SessionsIInv, Claim, RequestOK
  <1>2. UNCHANGED <<revoked, suspended, ending, lastStep, accepted, forked, ended, slipped>>
    BY DEF Claim
  <1>3. CASE s = "fresh"
    <2>1. /\ token' = [token EXCEPT ![call[c].fam][call[c].n] = "used"]
          /\ Goto(c, "user")
      BY <1>3 DEF Claim
    <2> QED
      BY <1>1, <1>2, <1>3, <2>1, SpendOK
  <1>4. CASE s = "used"
    BY <1>2, <1>4, ReturnOK DEF Claim, Untouched
  <1>5. CASE s \notin {"fresh", "used"}
    <2>1. Goto(c, "revoke") /\ UNCHANGED token
      BY <1>5 DEF Claim
    <2> QED
      BY <1>1, <1>2, <2>1, CodesStay, GotoOK DEF Untouched, Steps
  <1> QED
    BY <1>3, <1>4, <1>5

LEMMA MarkUsedOK == ASSUME SessionsIInv, NEW c \in Calls, MarkUsed(c) PROVE SessionsIInv'
  BY SpendOK DEF MarkUsed

LEMMA GracePassesOK ==
    ASSUME SessionsIInv, NEW f \in Families, NEW n \in Ids, GracePasses(f, n)
    PROVE  SessionsIInv'
  <1>1. n \in Issued(f) /\ n \notin Fresh(f)
    BY DEF GracePasses, Issued, Fresh
  <1>2. /\ token' \in [Families -> [Ids -> {"none", "fresh", "used", "old"}]]
        /\ \A g \in Families : Issued(g)' = Issued(g)
        /\ Fresh(f)' = Fresh(f) \ {n} /\ \A g \in Families \ {f} : Fresh(g)' = Fresh(g)
        /\ \A g \in Families, m \in Ids : token'[g][m] = "fresh" => token[g][m] = "fresh"
    BY <1>1, SpendFacts DEF SessionsIInv, GracePasses
  <1>3. \A g \in Families : Fresh(g)' = Fresh(g) /\ Issuing(g)' = Issuing(g)
    <2>1. Fresh(f) \ {n} = Fresh(f)
      BY <1>1
    <2>2. \A g \in Families : Issuing(g)' = Issuing(g)
      BY DEF GracePasses, Issuing
    <2> QED
      BY <1>2, <2>1, <2>2
  <1>4. \A g \in Families : Claiming(g)' \subseteq Claiming(g)
    <2> SUFFICES ASSUME NEW g \in Families, NEW d \in Claiming(g)' PROVE d \in Claiming(g)
      OBVIOUS
    <2>1. call[d].step = "claim" => call[d].n \in Ids
      BY CallTyped, IssuedTokens DEF SessionsIInv, RequestOK, Claiming, CallRecs, GracePasses
    <2> QED
      BY <1>2, <2>1 DEF Claiming, GracePasses
  <1>5. SessionsTypeOK'
    BY <1>2 DEF SessionsIInv, SessionsTypeOK, GracePasses
  <1>6. ASSUME NEW d \in Calls PROVE RequestOK(d)'
    <2>1. call[d].step # "idle" => call[d].fam \in Families
      BY CallTyped DEF SessionsIInv, CallRecs
    <2> QED
      BY <1>2, <2>1 DEF SessionsIInv, RequestOK, GracePasses
  <1>7. IssuedInOrder' /\ OneAlive'
    BY <1>2, <1>3 DEF SessionsIInv, IssuedInOrder, OneAlive, GracePasses
  <1>8. EndedOK'
    BY <1>2, <1>3, <1>4 DEF SessionsIInv, SessionsTypeOK, EndedOK, GracePasses
  <1>9. CodesOK'
    BY DEF SessionsIInv, CodesOK, GracePasses
  <1> QED
    BY <1>5, <1>6, <1>7, <1>8, <1>9 DEF SessionsIInv

--------------------------------------------------------------------------------
LEMMA NextTokenIsFree ==
    ASSUME SessionsTypeOK, IssuedInOrder, NEW f \in Families,
           Cardinality(Issued(f)) + 1 <= MaxTokens
    PROVE  \E n \in Ids : /\ n = Cardinality(Issued(f)) + 1
                         /\ token[f][n] = "none"
                         /\ Issued(f) \cup {n} = 1..n
  <1> PICK k \in 0..MaxTokens : Issued(f) = 1..k
    BY DEF IssuedInOrder
  <1>1. Cardinality(1..k) = k
    BY FS_Interval
  <1>2. k + 1 \in Ids /\ k + 1 \notin Issued(f)
    BY <1>1 DEF Ids
  <1>3. token[f][k + 1] = "none"
    BY <1>2 DEF Issued
  <1> QED
    BY <1>1, <1>2, <1>3

LEMMA IssueOK == ASSUME SessionsIInv, NEW c \in Calls, Issue(c) PROVE SessionsIInv'
  <1> PICK f \in Families : f = call[c].fam
    BY CallTyped DEF SessionsIInv, CallRecs, Issue
  <1> PICK n \in Ids : /\ n = Cardinality(Issued(f)) + 1
                       /\ token[f][n] = "none"
                       /\ Issued(f) \cup {n} = 1..n
    BY NextTokenIsFree DEF SessionsIInv, Issue
  <1>1. /\ call[c].step = "issue"
        /\ token' = [token EXCEPT ![f][n] = "fresh"]
        /\ Return(c)
        /\ UNCHANGED <<revoked, suspended, ending, lastStep, accepted, forked, ended, slipped>>
    BY DEF Issue
  <1>2. /\ call' \in [Calls -> {NoCall} \cup CallRecs]
        /\ call'[c].step = "idle"
        /\ \A d \in Calls \ {c} : call'[d] = call[d]
    BY <1>1, ReturnFacts DEF SessionsIInv
  <1>3. \A g \in Families, m \in Ids :
           token'[g][m] = IF g = f /\ m = n THEN "fresh" ELSE token[g][m]
    BY <1>1 DEF SessionsIInv, SessionsTypeOK
  <1>4. /\ Issued(f)' = Issued(f) \cup {n} /\ Fresh(f)' = Fresh(f) \cup {n}
        /\ \A g \in Families \ {f} : Issued(g)' = Issued(g) /\ Fresh(g)' = Fresh(g)
    <2>1. Issued(f)' = Issued(f) \cup {n}
      <3>1. \A m \in Ids : token'[f][m] # "none" <=> token[f][m] # "none" \/ m = n
        BY <1>3
      <3> QED
        BY <3>1 DEF Issued
    <2>2. Fresh(f)' = Fresh(f) \cup {n}
      <3>1. \A m \in Ids : token'[f][m] = "fresh" <=> token[f][m] = "fresh" \/ m = n
        BY <1>3
      <3> QED
        BY <3>1 DEF Fresh
    <2>3. \A g \in Families \ {f} : Issued(g)' = Issued(g) /\ Fresh(g)' = Fresh(g)
      <3> SUFFICES ASSUME NEW g \in Families \ {f}
                   PROVE  Issued(g)' = Issued(g) /\ Fresh(g)' = Fresh(g)
        OBVIOUS
      <3>1. \A m \in Ids : token'[g][m] = token[g][m]
        BY <1>3
      <3> QED
        BY <3>1 DEF Issued, Fresh
    <2> QED
      BY <2>1, <2>2, <2>3
  <1>5. SessionsTypeOK'
    <2>1. token' \in [Families -> [Ids -> {"none", "fresh", "used", "old"}]]
      BY <1>1 DEF SessionsIInv, SessionsTypeOK
    <2> QED
      BY <1>1, <1>2, <2>1 DEF SessionsIInv, SessionsTypeOK, CallRecs
  <1>6. ASSUME NEW d \in Calls PROVE RequestOK(d)'
    <2>1. CASE d = c \/ call[d].step = "idle"
      BY <1>2, <2>1 DEF RequestOK
    <2>2. CASE d # c /\ call[d].step # "idle"
      <3>1. call[d].fam \in Families /\ RequestOK(d)
        BY <2>2, CallTyped DEF SessionsIInv, CallRecs
      <3>2. call[d].step \in {"code", "issue"} /\ call[d].n = 0 => call[d].fam # f
        BY <1>1, <2>2, <3>1 DEF RequestOK
      <3> QED
        BY <1>2, <1>4, <2>2, <3>1, <3>2 DEF RequestOK
    <2> QED
      BY <2>1, <2>2
  <1>7. IssuedInOrder'
    <2>1. n \in 0..MaxTokens /\ Issued(f)' = 1..n
      BY <1>4 DEF Ids
    <2> QED
      BY <1>4, <2>1 DEF SessionsIInv, IssuedInOrder
  <1>8. /\ c \in Issuing(f) /\ Issuing(f)' = Issuing(f) \ {c}
        /\ \A g \in Families \ {f} : Issuing(g)' = Issuing(g)
    BY <1>1, <1>2 DEF Issuing
  <1>9. OneAlive'
    <2> SUFFICES ASSUME NEW g \in Families \ forked
                 PROVE  /\ \A m1, m2 \in Fresh(g)' : m1 = m2
                        /\ \A d, e \in Issuing(g)' : d = e
                        /\ Fresh(g)' = {} \/ Issuing(g)' = {}
      BY <1>1 DEF OneAlive
    <2>1. /\ \A m1, m2 \in Fresh(g) : m1 = m2
          /\ \A d, e \in Issuing(g) : d = e
          /\ Fresh(g) = {} \/ Issuing(g) = {}
      BY DEF SessionsIInv, OneAlive
    <2>2. CASE g # f
      <3>1. Fresh(g)' = Fresh(g) /\ Issuing(g)' = Issuing(g)
        BY <1>4, <1>8, <2>2
      <3> QED
        BY <2>1, <3>1
    <2>3. CASE g = f
      BY <1>4, <1>8, <2>1, <2>3
    <2> QED
      BY <2>2, <2>3
  <1>10. EndedOK'
    <2> SUFFICES ASSUME NEW g \in ended, Issued(g) # {},
                        g \notin slipped => Issued(g) \subseteq revoked[g]
                                           /\ Claiming(g) = {} /\ Issuing(g) = {}
                 PROVE  /\ Issued(g)' # {}
                        /\ g \notin slipped => Issued(g)' \subseteq revoked[g]
                                              /\ Claiming(g)' = {} /\ Issuing(g)' = {}
      BY <1>1 DEF SessionsIInv, EndedOK
    <2>1. g \in Families
      BY DEF SessionsIInv, SessionsTypeOK
    <2>2. CASE g = f
      BY <1>4, <1>8, <2>2
    <2>3. CASE g # f
      <3>1. Issued(g)' = Issued(g) /\ Issuing(g)' = Issuing(g)
        BY <1>4, <1>8, <2>1, <2>3
      <3>2. Claiming(g)' \subseteq Claiming(g)
        <4> SUFFICES ASSUME NEW d \in Claiming(g)' PROVE d \in Claiming(g)
          OBVIOUS
        <4>1. call'[d] = call[d] /\ call[d].step \in {"claim", "mark"} /\ call[d].fam = g
          BY <1>2 DEF Claiming
        <4>2. call[d].n \in Ids
          BY <2>1, <4>1, IssuedTokens DEF SessionsIInv, RequestOK, Claiming
        <4>3. token'[g][call[d].n] = token[g][call[d].n]
          BY <1>3, <2>1, <2>3, <4>2
        <4> QED
          BY <4>1, <4>3 DEF Claiming
      <3> QED
        BY <3>1, <3>2
    <2> QED
      BY <2>2, <2>3
  <1>11. CodesOK'
    BY <1>1 DEF SessionsIInv, CodesOK
  <1> QED
    BY <1>5, <1>6, <1>7, <1>9, <1>10, <1>11 DEF SessionsIInv

--------------------------------------------------------------------------------
(* Families end: what was issued of them is revoked, and whether a request *)
(* held a token is written down.                                           *)
LEMMA RevokeOK ==
    ASSUME SessionsIInv, NEW fs \in SUBSET {f \in Families : Issued(f) # {}}, RevokeFamilies(fs),
           call' = call \/ \E c \in Calls : Return(c),
           UNCHANGED <<token, forked, lastStep, accepted>>,
           suspended' \in BOOLEAN, ending' \in BOOLEAN
    PROVE  SessionsIInv'
  <1>1. /\ call' \in [Calls -> {NoCall} \cup CallRecs]
        /\ \A d \in Calls : call'[d] = call[d] \/ call'[d].step = "idle"
    BY ReturnFacts DEF SessionsIInv, SessionsTypeOK, CallRecs
  <1>2. revoked' \in [Families -> SUBSET Ids]
    BY DEF RevokeFamilies, SessionsIInv, SessionsTypeOK, Issued
  <1>3. SessionsTypeOK'
    BY <1>1, <1>2 DEF RevokeFamilies, SessionsIInv, SessionsTypeOK, CallRecs
  <1>4. \A f \in Families : Issued(f)' = Issued(f) /\ Fresh(f)' = Fresh(f)
    BY DEF Issued, Fresh
  <1>5. \A f \in Families : Issuing(f)' \subseteq Issuing(f) /\ Claiming(f)' \subseteq Claiming(f)
    BY <1>1 DEF Issuing, Claiming
  <1>6. ASSUME NEW d \in Calls PROVE RequestOK(d)'
    <2>1. CASE call'[d].step = "idle"
      BY <2>1 DEF RequestOK
    <2>2. CASE call'[d] = call[d] /\ call[d].step # "idle"
      <3>1. call[d].fam \in Families /\ RequestOK(d)
        BY <2>2, CallTyped DEF SessionsIInv, CallRecs
      <3> QED
        BY <1>1, <1>4, <2>2, <3>1 DEF RequestOK
    <2> QED
      BY <1>1, <2>1, <2>2
  <1>7. IssuedInOrder' /\ OneAlive'
    BY <1>4, <1>5 DEF SessionsIInv, IssuedInOrder, OneAlive
  <1>8. EndedOK'
    <2> SUFFICES ASSUME NEW f \in ended'
                 PROVE  /\ Issued(f) # {}
                        /\ f \notin slipped' => Issued(f) \subseteq revoked'[f]
                                               /\ Claiming(f)' = {} /\ Issuing(f)' = {}
      BY <1>3, <1>4 DEF EndedOK, SessionsTypeOK
    <2>1. f \in Families
      BY <1>3 DEF SessionsTypeOK
    <2>2. CASE f \in fs
      BY <1>5, <2>1, <2>2 DEF RevokeFamilies
    <2>3. CASE f \notin fs
      <3>1. f \in ended /\ revoked'[f] = revoked[f] /\ (f \in slipped' <=> f \in slipped)
        BY <2>1, <2>3 DEF RevokeFamilies
      <3> QED
        BY <1>5, <2>1, <3>1 DEF SessionsIInv, EndedOK
    <2> QED
      BY <2>2, <2>3
  <1>9. CodesOK'
    BY DEF SessionsIInv, CodesOK
  <1> QED
    BY <1>3, <1>6, <1>7, <1>8, <1>9 DEF SessionsIInv

LEMMA RevokeOwnOK == ASSUME SessionsIInv, NEW c \in Calls, RevokeOwn(c) PROVE SessionsIInv'
  <1>1. call[c].fam \in Families /\ call[c].n \in Issued(call[c].fam)
    BY CallTyped DEF SessionsIInv, CallRecs, RevokeOwn, RequestOK
  <1>2. {call[c].fam} \in SUBSET {f \in Families : Issued(f) # {}}
    BY <1>1
  <1> QED
    BY <1>2, RevokeOK DEF RevokeOwn, SessionsIInv, SessionsTypeOK

LEMMA EndSessionsOK == SessionsIInv /\ EndSessions => SessionsIInv'
  <1> SUFFICES ASSUME SessionsIInv, EndSessions PROVE SessionsIInv'
    OBVIOUS
  <1>1. PICK fs \in SUBSET {f \in Families : Issued(f) # {}} : RevokeFamilies(fs)
    BY DEF EndSessions
  <1> QED
    BY <1>1, RevokeOK DEF EndSessions, SessionsIInv, SessionsTypeOK

LEMMA SuspendEndsOK == SessionsIInv /\ SuspendEnds => SessionsIInv'
  <1> SUFFICES ASSUME SessionsIInv, SuspendEnds PROVE SessionsIInv'
    OBVIOUS
  <1>1. {f \in Families : Issued(f) # {}} \in SUBSET {f \in Families : Issued(f) # {}}
    OBVIOUS
  <1> QED
    BY <1>1, RevokeOK DEF SuspendEnds, SessionsIInv, SessionsTypeOK

(* Whether the user is suspended is nobody's business but the type's.      *)
LEMMA SuspensionOK ==
    ASSUME SessionsIInv, Untouched, UNCHANGED <<call, lastStep, accepted>>,
           suspended' \in BOOLEAN, ending' \in BOOLEAN
    PROVE  SessionsIInv'
  <1>1. SessionsTypeOK'
    BY DEF SessionsIInv, SessionsTypeOK, Untouched
  <1>2. \A d \in Calls : RequestOK(d)'
    BY DEF SessionsIInv, RequestOK, Issued, Untouched
  <1>3. IssuedInOrder' /\ OneAlive' /\ EndedOK'
    BY QuietOK DEF Issuing, Claiming, Untouched
  <1>4. CodesOK'
    BY DEF SessionsIInv, CodesOK
  <1> QED
    BY <1>1, <1>2, <1>3, <1>4 DEF SessionsIInv

LEMMA SessionsStepOK == SessionsIInv /\ [SessionsNext]_sessionVars => SessionsIInv'
  <1> SUFFICES ASSUME SessionsIInv, [SessionsNext]_sessionVars PROVE SessionsIInv'
    OBVIOUS
  <1>1. ASSUME NEW c \in Calls, BeginCall(c) \/ CallStep(c) \/ Crash(c) PROVE SessionsIInv'
    BY <1>1, BeginCallOK, UseCodeOK, ClaimOK, CheckUserOK, UpgradeAfterCodeOK, MarkUsedOK,
       IssueOK, RevokeOwnOK, CrashOK DEF CallStep
  <1>2. ASSUME NEW f \in Families, NEW n \in Ids, GracePasses(f, n) PROVE SessionsIInv'
    BY <1>2, GracePassesOK
  <1>3. CASE Suspend \/ Unsuspend \/ UNCHANGED sessionVars
    <2>1. /\ Untouched /\ UNCHANGED <<call, lastStep, accepted>>
          /\ suspended' \in BOOLEAN /\ ending' \in BOOLEAN
      BY <1>3 DEF Suspend, Unsuspend, sessionVars, Untouched, SessionsIInv, SessionsTypeOK
    <2> QED
      BY <2>1, SuspensionOK
  <1> QED
    BY <1>1, <1>2, <1>3, EndSessionsOK, SuspendEndsOK DEF SessionsNext

LEMMA SessionsInvariance == SessionsSpec => []SessionsIInv
  BY InitSessionsOK, SessionsStepOK, PTL DEF SessionsSpec

--------------------------------------------------------------------------------
(* The state of a user's sessions keeps its types, for any number of      *)
(* sessions, tokens and requests in progress (services/authService.ts).    *)
THEOREM SessionsTypeCorrect == SessionsSpec => []SessionsTypeOK
  <1>1. SessionsIInv => SessionsTypeOK
    BY DEF SessionsIInv
  <1> QED
    BY <1>1, SessionsInvariance, PTL

(* A session is rotated, never multiplied: one token of it can be          *)
(* refreshed, or one request is about to issue it (issue, refresh).        *)
THEOREM OneTokenIsAlive == SessionsSpec => []RotationIsLinear
  <1>1. ASSUME SessionsIInv, NEW f \in Families \ forked
        PROVE  Cardinality(Fresh(f)) + Cardinality(Issuing(f)) <= 1
    <2>1. ASSUME NEW S, \A x, y \in S : x = y
          PROVE  S = {} \/ Cardinality(S) = 1
      <3>1. CASE S # {}
        <4>1. PICK x \in S : S = {x}
          BY <2>1, <3>1
        <4> QED
          BY <4>1, FS_Singleton
      <3> QED
        BY <3>1
    <2>2. Cardinality({}) = 0
      BY FS_EmptySet
    <2>3. /\ \A m, n \in Fresh(f) : m = n
          /\ \A c, d \in Issuing(f) : c = d
          /\ Fresh(f) = {} \/ Issuing(f) = {}
      BY <1>1 DEF SessionsIInv, OneAlive
    <2>4. Fresh(f) = {} \/ Cardinality(Fresh(f)) = 1
      BY <2>1, <2>3
    <2>5. Issuing(f) = {} \/ Cardinality(Issuing(f)) = 1
      BY <2>1, <2>3
    <2>6. CASE Fresh(f) = {}
      <3>1. Cardinality(Fresh(f)) = 0 /\ Cardinality(Issuing(f)) \in {0, 1}
        BY <2>2, <2>5, <2>6
      <3> QED
        BY <3>1
    <2>7. CASE Issuing(f) = {}
      <3>1. Cardinality(Issuing(f)) = 0 /\ Cardinality(Fresh(f)) \in {0, 1}
        BY <2>2, <2>4, <2>7
      <3> QED
        BY <3>1
    <2> QED
      BY <2>3, <2>6, <2>7
  <1>2. SessionsIInv => RotationIsLinear
    BY <1>1 DEF RotationIsLinear
  <1> QED
    BY <1>2, SessionsInvariance, PTL

(* A session that was ended while no request held one of its tokens has    *)
(* none that can be refreshed, and never gets one again (revokeFamily).    *)
THEOREM EndedSessionsStayEnded == SessionsSpec => []EndedStaysEnded
  <1>1. SessionsIInv => EndedStaysEnded
    BY DEF SessionsIInv, EndedOK, EndedStaysEnded, Usable, Fresh, Issued
  <1> QED
    BY <1>1, SessionsInvariance, PTL

(* The code of a time step is accepted once, whoever presents it at the    *)
(* same time (checkSecondFactor).                                          *)
THEOREM EachCodeWorksOnce == SessionsSpec => []CodesWorkOnce
  <1>1. SessionsIInv => CodesWorkOnce
    BY DEF SessionsIInv, SessionsTypeOK, CodesOK, CodesWorkOnce, Codes
  <1> QED
    BY <1>1, SessionsInvariance, PTL
================================================================================
