------------------------------- MODULE Membership ------------------------------
(***************************************************************************)
(* Who belongs to a workspace, or (the code has the same shape) to an      *)
(* organization: seats, ownership transfers, invitations, access requests, *)
(* provisioning, and the API keys users created there, members or admins   *)
(* of the organization it belongs to.  Transactions are read               *)
(* committed and lock nothing they read, so each operation is two steps:   *)
(* its reads, which settle what it will write, and its commit.             *)
(*                                                                         *)
(* Abstracted: a role is its rank (0: no seat); who may ask for an         *)
(* operation is left to access control; a user's keys are one.             *)
(***************************************************************************)
EXTENDS Naturals, FiniteSets

CONSTANTS
    Users,
    Owner,       \* rank of the role of which one must remain: owner, or org_admin
    SteppedDown, \* rank of a former owner after a transfer: admin, or org_member
    Proposals,   \* invitations, transfers and access requests there can be
    Workers      \* requests in progress at a time, on any replica

ASSUME RanksAssumption == Owner \in Nat /\ SteppedDown \in 1..(Owner - 1)
ASSUME UsersAssumption == IsFiniteSet(Users)

VARIABLES
    seat,       \* seat[u]: the rank of u's membership
    orgAdmins,  \* the users who administer the workspace through its organization
    keys,       \* the users with live API keys that are to end with the membership
    proposal,   \* proposal[p]: who would get which role, from whom, and what became of it
    tx,         \* tx[w]: what the transaction in progress will write
    raced       \* whether an owner went while the owners were not those its checks saw

vars == <<seat, orgAdmins, keys, proposal, tx, raced>>

Roles == 1..Owner
Owners == {u \in Users : seat[u] = Owner}

Unused == [kind |-> "none", user |-> "nobody", role |-> 0, from |-> {}, marks |-> {}]
Idle == [write |-> "idle"]

Kinds == {"invitation", "transfer", "request"}
Marks == {"accepted", "withdrawn"}
Writes == {"none", "create", "update", "delete", "erase"}
Effects == {"none", "keepKeys", "revokeKeys", "skipKeys", "issueKey"}

TypeOK ==
    /\ seat \in [Users -> 0..Owner]
    /\ orgAdmins \subseteq Users
    /\ keys \subseteq Users
    /\ proposal \in [Proposals -> {Unused} \cup
                        [kind : Kinds, user : Users, role : Roles,
                         from : SUBSET Users, marks : SUBSET Marks]]
    /\ tx \in [Workers -> {Idle} \cup
                 [write : Writes, user : Users, role : 0..Owner, lowers : SUBSET Users,
                  effect : Effects, leaves : BOOLEAN,
                  marks : SUBSET (Proposals \X Marks), seen : SUBSET Users]]
    /\ raced \in BOOLEAN

(* Whoever creates the workspace or organization owns it.                  *)
Init ==
    /\ \E u \in Users : seat = [v \in Users |-> IF v = u THEN Owner ELSE 0]
    /\ orgAdmins = {}
    /\ keys = {}
    /\ proposal = [p \in Proposals |-> Unused]
    /\ tx = [w \in Workers |-> Idle]
    /\ raced = FALSE

Open(p, kind) == proposal[p].kind = kind /\ proposal[p].marks = {}

--------------------------------------------------------------------------------
(* The reads of an operation, and the writes they settle.                  *)

(* seen, a history: the owners, when the write may take one of them away.  *)
Plan(write, u, role) ==
    [write |-> write, user |-> u, role |-> role, lowers |-> {}, effect |-> "none",
     leaves |-> FALSE, marks |-> {},
     seen |-> IF write \in {"none", "create"} \/ role = Owner THEN {} ELSE Owners]

Read(w, plan) ==
    /\ tx[w] = Idle
    /\ tx' = [tx EXCEPT ![w] = plan]
    /\ UNCHANGED <<seat, orgAdmins, keys, proposal, raced>>

(* ownerCount or adminCount.                                               *)
NotTheLast(u) == seat[u] = Owner => Cardinality(Owners) > 1

(* Plausible error: the check misses that an owner may step down himself.  *)
ChangeRoleUnchecked(w, u, role) ==
    /\ seat[u] > 0
    /\ Read(w, Plan("update", u, role))

ChangeRole(w, u, role) ==
    /\ seat[u] > 0
    /\ role # Owner => NotTheLast(u)
    /\ Read(w, Plan("update", u, role))

Removal(u, keepKeys) ==
    [Plan("delete", u, 0) EXCEPT !.effect = IF keepKeys THEN "keepKeys" ELSE "revokeKeys"]

RemoveSeat(w, u, keepKeys) ==
    /\ seat[u] > 0
    /\ NotTheLast(u)
    /\ Read(w, Removal(u, keepKeys))

(* Plausible error: the keys are forgotten.                                *)
RemoveMemberOnly(w, u, keepKeys) ==
    /\ seat[u] > 0
    /\ NotTheLast(u)
    /\ Read(w, Plan("delete", u, 0))

RemoveMember(w, u, keepKeys) == RemoveSeat(w, u, keepKeys)

(* Someone leaves the organization, and its workspaces: removed by an      *)
(* admin, or inactive at the organization's IdP.  removeFromWorkspaces     *)
(* passes over who has no seat here, keys or not, and over the last owner. *)
OffboardMember(w, u, keepKeys) ==
    \/ /\ seat[u] > 0 /\ NotTheLast(u)
       /\ Read(w, [Removal(u, keepKeys) EXCEPT !.leaves = TRUE])
    \/ /\ ~(seat[u] > 0 /\ NotTheLast(u))
       /\ Read(w, [Plan("none", u, 0) EXCEPT
                     !.effect = IF keepKeys THEN "keepKeys" ELSE "skipKeys", !.leaves = TRUE])

(* SCIM of the workspace: the user is inactive or deleted at the IdP; or   *)
(* that of the organization, whose last admin he is and stays.             *)
Deprovision(w, u) == RemoveSeat(w, u, FALSE)

(* The organization's rules gave the seat and do not match any more.       *)
Unprovision(w, u) ==
    /\ seat[u] \in 1..(Owner - 1)
    /\ Read(w, [Plan("delete", u, 0) EXCEPT !.effect = "keepKeys"])

(* SCIM and rules: newcomers join, the others but owners follow the IdP.   *)
Provision(w, u, role) ==
    /\ seat[u] \notin {role, Owner}
    /\ Read(w, Plan(IF seat[u] = 0 THEN "create" ELSE "update", u, role))

(* syncMembership gives no owner's role ...                                *)
SyncMembership(w, u, role) == role # Owner /\ Provision(w, u, role)

(* ... syncOrgMember makes members of an admin group organization admins.  *)
SyncOrgMember(w, u, role) == Provision(w, u, role)

(* An organization's admin adds someone.                                   *)
AddMember(w, u, role) ==
    /\ seat[u] = 0
    /\ Read(w, Plan("create", u, role))

(* An admin erases the account, with everything that hangs on it.          *)
EraseUser(w, u) ==
    /\ NotTheLast(u)
    /\ Read(w, [Plan("erase", u, 0) EXCEPT !.effect = "revokeKeys", !.leaves = TRUE])

(* requireWorkspace lets in members and the organization's admins.         *)
LetIn(u) == seat[u] > 0 \/ u \in orgAdmins

IssueKey(w, u) ==
    /\ LetIn(u)
    /\ Read(w, [Plan("none", u, 0) EXCEPT !.effect = "issueKey"])

AcceptTransfer(w, p) ==
    LET t == proposal[p]
    IN /\ Open(p, "transfer")
       /\ seat[t.user] > 0
       /\ Read(w, [Plan("update", t.user, Owner) EXCEPT
                     !.lowers = t.from, !.marks = {<<p, "accepted">>}])

(* The sender withdraws a transfer or the recipient declines it; an admin  *)
(* denies an access request.                                               *)
Withdraw(w, p) ==
    /\ Open(p, "transfer") \/ Open(p, "request")
    /\ Read(w, [Plan("none", proposal[p].user, 0) EXCEPT !.marks = {<<p, "withdrawn">>}])

(* grantInvitation, from the link or at sign-in: the higher role wins.     *)
AcceptInvitation(w, p) ==
    LET n == proposal[p]
        write == IF seat[n.user] = 0 THEN "create"
                 ELSE IF n.role > seat[n.user] THEN "update" ELSE "none"
    IN /\ Open(p, "invitation")
       /\ Read(w, [Plan(write, n.user, n.role) EXCEPT !.marks = {<<p, "accepted">>}])

RevokeInvitation(w, p) ==
    /\ proposal[p].kind = "invitation" /\ "accepted" \notin proposal[p].marks
    /\ Read(w, [Plan("none", proposal[p].user, 0) EXCEPT !.marks = {<<p, "withdrawn">>}])

(* An admin gives a seat to who asked and has none, never the owner's.     *)
ApproveAccess(w, p, role) ==
    LET n == proposal[p]
    IN /\ Open(p, "request")
       /\ Read(w, [Plan(IF seat[n.user] = 0 THEN "create" ELSE "none", n.user, role)
                     EXCEPT !.marks = {<<p, "accepted">>}])

--------------------------------------------------------------------------------
(* The end of a transaction.                                               *)

(* A row to create must still be missing (unique key), and one to update   *)
(* or delete still there; an erasure cascades to what there is.            *)
Applicable(p) ==
    /\ p.write = "create" => seat[p.user] = 0
    /\ p.write \in {"update", "delete"} => seat[p.user] > 0

(* Plausible error: the sender loses a rank, whatever rank it has by then. *)
SeatsAfterDecrement(p) ==
    [u \in Users |->
       IF u = p.user /\ p.write # "none" THEN p.role
       ELSE IF u \in p.lowers THEN seat[u] - 1
       ELSE seat[u]]

(* The sender of a transfer steps down "if still an owner": a condition of *)
(* the update itself.  All else is written by id, whatever it is by now.   *)
SeatsAfter(p) ==
    [u \in Users |->
       IF u = p.user /\ p.write # "none" THEN p.role
       ELSE IF u \in p.lowers /\ seat[u] = Owner THEN SteppedDown
       ELSE seat[u]]

(* Keys to be kept (keepKeys), or passed over (skipKeys), or issued while  *)
(* the seat was taken, live on, but no longer until the membership ends.   *)
KeysAfter(p) ==
    CASE p.effect = "revokeKeys" -> keys \ {p.user}
      [] p.effect \in {"keepKeys", "skipKeys"} /\ SeatsAfter(p)[p.user] = 0 -> keys \ {p.user}
      [] p.effect = "issueKey" /\ LetIn(p.user) -> keys \cup {p.user}
      [] OTHER -> keys

Commit(w) ==
    LET p == tx[w]
    IN /\ p # Idle
       /\ Applicable(p)
       /\ seat' = SeatsAfter(p)
       /\ orgAdmins' = IF p.leaves THEN orgAdmins \ {p.user} ELSE orgAdmins
       /\ keys' = KeysAfter(p)
       /\ proposal' = [x \in Proposals |-> [proposal[x] EXCEPT
                         !.marks = @ \cup {m \in Marks : <<x, m>> \in p.marks}]]
       /\ tx' = [tx EXCEPT ![w] = Idle]
       /\ raced' = (raced \/ /\ p.user \in Owners /\ p.write # "none" /\ p.role # Owner
                             /\ Owners # p.seen)

(* The replica dies, or a statement fails: so does one that finds its row  *)
(* missing, or there already.                                              *)
Abort(w) ==
    /\ tx[w] # Idle
    /\ tx' = [tx EXCEPT ![w] = Idle]
    /\ UNCHANGED <<seat, orgAdmins, keys, proposal, raced>>

--------------------------------------------------------------------------------
(* Roles in the organization, in its own transactions.                     *)

BecomeOrgAdmin(u) ==
    /\ orgAdmins' = orgAdmins \cup {u}
    /\ UNCHANGED <<seat, keys, proposal, tx, raced>>

(* Also who leaves the organization when the workspace has its own SSO.    *)
(* It revokes no keys: without a seat they live on.                        *)
StepDown(u) ==
    /\ u \in orgAdmins
    /\ orgAdmins' = orgAdmins \ {u}
    /\ keys' = IF seat[u] = 0 THEN keys \ {u} ELSE keys
    /\ UNCHANGED <<seat, proposal, tx, raced>>

--------------------------------------------------------------------------------
(* Proposals.  (What a race does to these is not this module's question.)  *)

Propose(p, n) ==
    /\ proposal[p] = Unused
    /\ proposal' = [x \in Proposals |->
         IF x = p THEN n
         ELSE IF n.kind = "transfer" /\ Open(x, "transfer") /\ proposal[x].from = n.from
         THEN [proposal[x] EXCEPT !.marks = {"withdrawn"}]
         ELSE proposal[x]]
    /\ UNCHANGED <<seat, orgAdmins, keys, tx, raced>>

(* Invitations and access requests: of those without a seat, one at a time.*)
Ask(p, kind, u, role) ==
    /\ seat[u] = 0
    /\ \A x \in Proposals : proposal[x].user = u => ~Open(x, kind)
    /\ Propose(p, [kind |-> kind, user |-> u, role |-> role, from |-> {}, marks |-> {}])

Invite(p, u, role) == Ask(p, "invitation", u, role)
RequestAccess(p, u, role) == role # Owner /\ Ask(p, "request", u, role)

(* proposeTransfer: an owner's earlier proposals are withdrawn.            *)
ProposeTransfer(p, from, to) ==
    /\ seat[from] = Owner
    /\ seat[to] > 0 /\ to # from
    /\ Propose(p, [kind |-> "transfer", user |-> to, role |-> Owner,
                   from |-> {from}, marks |-> {}])

--------------------------------------------------------------------------------
Begin(w) ==
    \/ \E u \in Users :
         \/ \E role \in Roles :
              \/ ChangeRole(w, u, role)
              \/ SyncMembership(w, u, role)
              \/ SyncOrgMember(w, u, role)
              \/ AddMember(w, u, role)
         \/ \E keepKeys \in BOOLEAN :
              RemoveMember(w, u, keepKeys) \/ OffboardMember(w, u, keepKeys)
         \/ Deprovision(w, u)
         \/ Unprovision(w, u)
         \/ EraseUser(w, u)
         \/ IssueKey(w, u)
    \/ \E p \in Proposals :
         \/ AcceptTransfer(w, p)
         \/ AcceptInvitation(w, p)
         \/ RevokeInvitation(w, p)
         \/ \E role \in Roles \ {Owner} : ApproveAccess(w, p, role)
         \/ Withdraw(w, p)

Next ==
    \/ \E w \in Workers : Begin(w) \/ Commit(w) \/ Abort(w)
    \/ \E u \in Users : BecomeOrgAdmin(u) \/ StepDown(u)
    \/ \E p \in Proposals, u \in Users :
         \/ \E role \in Roles : Invite(p, u, role) \/ RequestAccess(p, u, role)
         \/ \E to \in Users : ProposeTransfer(p, u, to)

Spec == Init /\ [][Next]_vars

--------------------------------------------------------------------------------
(* "A workspace must keep at least one owner", "an organization ... at     *)
(* least one admin": no sequence of role changes, removals, erasures,      *)
(* provisioning and transfers, also of proposals that have become old,     *)
(* takes the last owner away, unless two operations overlap and one takes  *)
(* an owner who is not there, or was not an owner, when it checked.        *)
OwnerRemains == ~raced => Owners # {}

(* Said without that exception.                                            *)
AlwaysAnOwner == Owners # {}

(* Removal revokes "the API keys the member created here" (PPL-05): a live *)
(* key is that of someone who is let in, by a seat or by the organization. *)
(* Keys outlive that only if they were to be kept (keepKeys, or a rule     *)
(* took its seat back), were issued while the seat was being taken, or     *)
(* are of an organization admin without a seat, who stepped down or whom   *)
(* offboarding passed over.                                                *)
KeysEndWithMembership == \A u \in keys : LetIn(u)

(* services/orgProvisioning.ts:235: "API keys the user created there       *)
(* (workspace and org keys) are revoked unless `revokeKeys` is false."     *)
(* An offboarding that is to revoke them (skipKeys) passes no live key over.*)
OffboardingRevokes ==
    [][\A w \in Workers : tx[w] # Idle /\ Commit(w) /\ tx[w].effect = "skipKeys"
         => tx[w].user \notin keys \ keys']_vars
================================================================================
