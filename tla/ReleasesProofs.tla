----------------------------- MODULE ReleasesProofs -----------------------------
(***************************************************************************)
(* Proofs about Releases, for every set of environments, number of         *)
(* versions, schedule and retention.                                       *)
(*                                                                         *)
(* Every action rewrites the table of at most one environment, so the      *)
(* inductive invariant is a property TableOK of one table, and the work is *)
(* done in lemmas about the functions that compute a new table.            *)
(***************************************************************************)
EXTENDS Releases, SequenceTheorems, TLAPS

(* What every environment's table satisfies, with n rows created so far.   *)
ActiveRow(rs, v) == rs[v].status = "active"
CanaryRow(rs, v) == rs[v].status = "canary"

FieldsOK(r) ==
    /\ r.status # "canary" => r.traffic = 0 /\ ~r.targeted /\ r.band = 0
    /\ r.status = "canary" => r.traffic # 0 \/ r.targeted
    /\ r.status \in {"active", "canary"} => ~r.deleted
    /\ r.band # 0 => r.band < Len(Bands) /\ r.traffic = Bands[r.band]

NoneActive(rs) == \A v \in Ids : ~ActiveRow(rs, v)

OneCanaryRow(rs) == \A v, w \in Ids : CanaryRow(rs, v) /\ CanaryRow(rs, w) => v = w

OneOfEach(rs) ==
    /\ \A v, w \in Ids : ActiveRow(rs, v) /\ ActiveRow(rs, w) => v = w
    /\ OneCanaryRow(rs)
    /\ (\E v \in Ids : CanaryRow(rs, v)) => \E v \in Ids : ActiveRow(rs, v)

RowsOK(rs, n) ==
    /\ rs \in [Ids -> Row]
    /\ \A v \in Ids : FieldsOK(rs[v])
    /\ \A v \in Ids : v > n => rs[v].status = "none"

TableOK(rs, n) == RowsOK(rs, n) /\ OneOfEach(rs)

IInv ==
    /\ TypeOK
    /\ \A e \in Envs : TableOK(versions[e], created[e])

(* The bands of a rollout: percentages, of which only the last is 100.     *)
LEMMA BandsFacts ==
    /\ Len(Bands) \in Nat /\ Len(Bands) >= 2
    /\ \A i \in 1..Len(Bands) : Bands[i] \in 1..100
    /\ Bands[Len(Bands)] = 100
    /\ Bands[1] \in 1..99
  <1>1. Len(Bands) \in Nat /\ Len(Bands) >= 2 /\ Bands[Len(Bands)] = 100
    BY BandsAssumption
  <1>2. ASSUME NEW i \in 1..Len(Bands) PROVE Bands[i] \in 1..100
    BY BandsAssumption, ElementOfSeq, Zenon
  <1>3. 1 \in 1..Len(Bands) - 1 /\ 2 \in 1..Len(Bands) /\ 1 \in 1..Len(Bands)
    BY <1>1
  <1>4. Bands[1] < Bands[2]
    <2>1. Bands[1] < Bands[1 + 1]
      BY <1>3, BandsAssumption
    <2> QED
      BY <2>1
  <1>5. Bands[1] \in 1..100 /\ Bands[2] \in 1..100
    BY <1>2, <1>3
  <1>6. Bands[1] \in 1..99
    BY <1>4, <1>5
  <1> QED
    BY <1>1, <1>2, <1>6

LEMMA NoRowFacts == NoRow \in Row /\ FieldsOK(NoRow)
  BY BandsFacts DEF NoRow, Row, Statuses, FieldsOK

LEMMA InitOK == Init => IInv
  <1> SUFFICES ASSUME Init PROVE IInv
    OBVIOUS
  <1>1. TypeOK
    BY NoRowFacts, LimitAssumption DEF Init, TypeOK, FreezeModes
  <1>2. ASSUME NEW e \in Envs PROVE TableOK(versions[e], created[e])
    <2>1. versions[e] = [v \in Ids |-> NoRow]
      BY DEF Init
    <2> QED
      BY <2>1, NoRowFacts DEF TableOK, RowsOK, OneOfEach, OneCanaryRow, ActiveRow, CanaryRow, NoRow
  <1> QED
    BY <1>1, <1>2 DEF IInv

--------------------------------------------------------------------------------
(* Tables.                                                                 *)

LEMMA EndedRow ==
    ASSUME NEW r \in Row, NEW new,
           new = [r EXCEPT !.status = "inactive", !.traffic = 0, !.targeted = FALSE, !.band = 0]
    PROVE  /\ new \in Row /\ new.status = "inactive" /\ new.traffic = 0
           /\ new.targeted = FALSE /\ new.band = 0
  <1>1. 0 \in 0..99 /\ 0 \in 0..Len(Bands)
    BY BandsFacts
  <1> QED
    BY <1>1 DEF Row, Statuses

(* Ending the canary leaves the active version and no canary.              *)
LEMMA EndCanaryOK ==
    ASSUME NEW rs, NEW n \in Nat, TableOK(rs, n)
    PROVE  /\ TableOK(EndCanary(rs), n)
           /\ \A v \in Ids : ~CanaryRow(EndCanary(rs), v)
           /\ \A v \in Ids : ActiveRow(EndCanary(rs), v) <=> ActiveRow(rs, v)
  <1> DEFINE new == EndCanary(rs)
  <1>1. \A v \in Ids : rs[v] \in Row /\ FieldsOK(rs[v])
    BY DEF TableOK, RowsOK
  <1>2. ASSUME NEW v \in Ids
        PROVE  /\ new[v] \in Row /\ FieldsOK(new[v])
               /\ ~CanaryRow(new, v)
               /\ ActiveRow(new, v) <=> ActiveRow(rs, v)
               /\ rs[v].status = "none" => new[v].status = "none"
    <2>1. CASE ~CanaryRow(rs, v)
      <3>1. new[v] = rs[v]
        BY <2>1 DEF EndCanary, CanaryRow
      <3> QED
        BY <1>1, <2>1, <3>1 DEF CanaryRow, ActiveRow
    <2>2. CASE CanaryRow(rs, v)
      <3>1. ~rs[v].deleted
        BY <1>1, <2>2 DEF FieldsOK, CanaryRow
      <3>2. new[v] = [rs[v] EXCEPT !.status = "inactive", !.traffic = 0, !.targeted = FALSE,
                                   !.band = 0]
        BY <2>2, <3>1 DEF EndCanary, CanaryRow
      <3>3. new[v] \in Row /\ new[v].status = "inactive" /\ new[v].traffic = 0
            /\ new[v].targeted = FALSE /\ new[v].band = 0
        BY <1>1, <3>2, EndedRow
      <3> QED
        BY <2>2, <3>3 DEF FieldsOK, CanaryRow, ActiveRow
    <2> QED
      BY <2>1, <2>2
  <1>3. new \in [Ids -> Row]
    BY <1>2 DEF EndCanary
  <1> QED
    BY <1>2, <1>3 DEF TableOK, RowsOK, OneOfEach, OneCanaryRow

(* Deactivating the active version leaves no active version, and the       *)
(* canary as it is.                                                        *)
LEMMA DeactivateActiveOK ==
    ASSUME NEW rs, NEW n \in Nat, RowsOK(rs, n)
    PROVE  /\ RowsOK(DeactivateActive(rs), n)
           /\ \A v \in Ids :
                /\ ~ActiveRow(DeactivateActive(rs), v)
                /\ CanaryRow(DeactivateActive(rs), v) <=> CanaryRow(rs, v)
                /\ ~ActiveRow(rs, v) => DeactivateActive(rs)[v] = rs[v]
  <1> DEFINE new == DeactivateActive(rs)
  <1>1. \A v \in Ids : rs[v] \in Row /\ FieldsOK(rs[v])
    BY DEF RowsOK
  <1>2. ASSUME NEW v \in Ids
        PROVE  /\ new[v] \in Row /\ FieldsOK(new[v])
               /\ ~ActiveRow(new, v)
               /\ CanaryRow(new, v) <=> CanaryRow(rs, v)
               /\ ~ActiveRow(rs, v) => new[v] = rs[v]
               /\ rs[v].status = "none" => new[v].status = "none"
    BY <1>1 DEF DeactivateActive, FieldsOK, Row, Statuses, CanaryRow, ActiveRow
  <1>3. new \in [Ids -> Row]
    BY <1>2 DEF DeactivateActive
  <1> QED
    BY <1>2, <1>3 DEF RowsOK

(* The stable and the canary version of a table, as the contract sees them. *)
Stable(rs) == {v \in Ids : rs[v].status = "active" /\ ~rs[v].deleted}
Canary(rs) == {v \in Ids : rs[v].status = "canary" /\ ~rs[v].deleted}

LEMMA StableRows ==
    ASSUME NEW rs, NEW n \in Nat, RowsOK(rs, n)
    PROVE  /\ Stable(rs) = {v \in Ids : ActiveRow(rs, v)}
           /\ Canary(rs) = {v \in Ids : CanaryRow(rs, v)}
  BY DEF RowsOK, FieldsOK, Stable, Canary, ActiveRow, CanaryRow

LEMMA EndCanaryLive ==
    ASSUME NEW rs, NEW n \in Nat, TableOK(rs, n)
    PROVE  /\ TableOK(EndCanary(rs), n)
           /\ Stable(EndCanary(rs)) = Stable(rs) /\ Canary(EndCanary(rs)) = {}
  <1>1. RowsOK(rs, n) /\ RowsOK(EndCanary(rs), n)
    BY EndCanaryOK DEF TableOK
  <1> QED
    BY <1>1, EndCanaryOK, StableRows

(* Creating a row does not disturb the others.                             *)
LEMMA MoreRows ==
    ASSUME NEW rs, NEW n \in Nat, RowsOK(rs, n)
    PROVE  RowsOK(rs, n + 1) /\ (n + 1 \in Ids => rs[n + 1].status = "none")
  BY LimitAssumption DEF RowsOK, Ids

(* Writing an active row where nothing else is active.                     *)
LEMMA PutActive ==
    ASSUME NEW rs, NEW n \in Nat, RowsOK(rs, n), NoneActive(rs), OneCanaryRow(rs),
           NEW v \in Ids, v <= n,
           NEW r \in Row, FieldsOK(r), r.status = "active"
    PROVE  /\ TableOK([rs EXCEPT ![v] = r], n)
           /\ Stable([rs EXCEPT ![v] = r]) = {v}
           /\ Canary([rs EXCEPT ![v] = r]) = Canary(rs) \ {v}
  <1> DEFINE new == [rs EXCEPT ![v] = r]
  <1>1. new \in [Ids -> Row] /\ new[v] = r /\ \A w \in Ids \ {v} : new[w] = rs[w]
    BY DEF RowsOK
  <1>2. RowsOK(new, n)
    <2>1. ASSUME NEW w \in Ids, w > n PROVE new[w].status = "none"
      BY <1>1, <2>1 DEF RowsOK, Ids
    <2> QED
      BY <1>1, <2>1 DEF RowsOK
  <1>3. \A w \in Ids : ActiveRow(new, w) <=> w = v
    BY <1>1 DEF ActiveRow, NoneActive
  <1>4. \A w \in Ids : CanaryRow(new, w) <=> w # v /\ CanaryRow(rs, w)
    BY <1>1 DEF CanaryRow
  <1>5. OneOfEach(new)
    BY <1>3, <1>4 DEF OneOfEach, OneCanaryRow
  <1> HIDE DEF new
  <1>6. Stable(new) = {v} /\ Canary(new) = Canary(rs) \ {v}
    BY <1>2, <1>3, <1>4, StableRows
  <1> QED
    BY <1>2, <1>5, <1>6 DEF TableOK, new

(* Writing a canary row where there is another active version and no other *)
(* canary.                                                                 *)
LEMMA PutCanary ==
    ASSUME NEW rs, NEW n \in Nat, TableOK(rs, n), Stable(rs) # {},
           NEW v \in Ids, v <= n, v \notin Stable(rs), Canary(rs) \subseteq {v},
           NEW r \in Row, FieldsOK(r), r.status = "canary"
    PROVE  /\ TableOK([rs EXCEPT ![v] = r], n)
           /\ Stable([rs EXCEPT ![v] = r]) = Stable(rs)
           /\ Canary([rs EXCEPT ![v] = r]) = {v}
  <1> DEFINE new == [rs EXCEPT ![v] = r]
  <1>0. RowsOK(rs, n)
    BY DEF TableOK
  <1>1. new \in [Ids -> Row] /\ new[v] = r /\ \A w \in Ids \ {v} : new[w] = rs[w]
    BY <1>0 DEF RowsOK
  <1>2. RowsOK(new, n)
    <2>1. ASSUME NEW w \in Ids, w > n PROVE new[w].status = "none"
      BY <1>0, <1>1, <2>1 DEF RowsOK, Ids
    <2> QED
      BY <1>0, <1>1, <2>1 DEF RowsOK
  <1>3. ~ActiveRow(rs, v) /\ \A w \in Ids : CanaryRow(rs, w) => w = v
    BY <1>0, StableRows
  <1>4. \E w \in Ids : ActiveRow(rs, w)
    BY <1>0, StableRows
  <1>5. \A w \in Ids : ActiveRow(new, w) <=> ActiveRow(rs, w)
    BY <1>1, <1>3 DEF ActiveRow
  <1>6. \A w \in Ids : CanaryRow(new, w) <=> w = v
    BY <1>1, <1>3 DEF CanaryRow
  <1>7. OneOfEach(new)
    BY <1>4, <1>5, <1>6 DEF OneOfEach, OneCanaryRow, TableOK
  <1> HIDE DEF new
  <1>8. Stable(new) = Stable(rs) /\ Canary(new) = {v}
    BY <1>0, <1>2, <1>5, <1>6, StableRows
  <1> QED
    BY <1>2, <1>7, <1>8 DEF TableOK, new

--------------------------------------------------------------------------------
(* What each operation does to a table: it keeps TableOK, and it is one of *)
(* the contract's steps, or none.                                          *)

Same(rs, new) == Stable(new) = Stable(rs) /\ Canary(new) = Canary(rs)

Activates(rs, new) ==
    \E v \in Ids : /\ v \notin Canary(rs)
                  /\ Stable(new) = {v}
                  /\ Canary(new) \in {Canary(rs), {}}

StartsCanary(rs, new) ==
    \E v \in Ids : /\ Stable(rs) # {} /\ v \notin Stable(rs)
                  /\ Stable(new) = Stable(rs)
                  /\ Canary(new) = {v}

EndsCanary(rs, new) == Canary(rs) # {} /\ Canary(new) = {} /\ Stable(new) = Stable(rs)

PromotesCanary(rs, new) == Canary(rs) # {} /\ Stable(new) = Canary(rs) /\ Canary(new) = {}

ContractStep(rs, new) ==
    \/ Same(rs, new) \/ Activates(rs, new) \/ StartsCanary(rs, new)
    \/ EndsCanary(rs, new) \/ PromotesCanary(rs, new)

LEMMA NewRow ==
    ASSUME NEW s \in Statuses, NEW traffic \in 0..99, NEW targeted \in BOOLEAN,
           NEW band \in 0..Len(Bands)
    PROVE  [status |-> s, activated |-> (s = "active"), deleted |-> FALSE,
            traffic |-> traffic, targeted |-> targeted, band |-> band] \in Row
  BY DEF Row

(* Deploy and Promote: a new active version replaces the active one.       *)
LEMMA CreateActiveOK ==
    ASSUME NEW rs, NEW n \in Nat, RowsOK(rs, n), n + 1 \in Ids,
           OneCanaryRow(rs),
           NEW new, new = CreateVersion(DeactivateActive(rs), n + 1, "active", 0, FALSE, 0)
    PROVE  /\ TableOK(new, n + 1)
           /\ Stable(new) = {n + 1} /\ n + 1 \notin Canary(rs)
           /\ Canary(new) = Canary(rs)
  <1> DEFINE base == DeactivateActive(rs)
             row == [status |-> "active", activated |-> ("active" = "active"), deleted |-> FALSE,
                     traffic |-> 0, targeted |-> FALSE, band |-> 0]
             m == n + 1
  <1>1. /\ RowsOK(base, n)
        /\ \A v \in Ids : ~ActiveRow(base, v) /\ (CanaryRow(base, v) <=> CanaryRow(rs, v))
    BY DeactivateActiveOK
  <1>2. new = [base EXCEPT ![m] = row]
    BY DEF CreateVersion
  <1>3. row \in Row /\ FieldsOK(row) /\ row.status = "active"
    <2>1. 0 \in 0..99 /\ 0 \in 0..Len(Bands) /\ "active" \in Statuses
      BY BandsFacts DEF Statuses
    <2>2. row \in Row
      BY <2>1, NewRow
    <2> QED
      BY <2>2 DEF FieldsOK
  <1>4. Canary(base) = Canary(rs)
    BY <1>1, StableRows
  <1> HIDE DEF base, row
  <1>5. NoneActive(base) /\ OneCanaryRow(base)
    BY <1>1 DEF NoneActive, OneCanaryRow
  <1>6. m \in Nat /\ m \in Ids /\ m <= m /\ RowsOK(base, m) /\ rs[m].status = "none"
    BY <1>1, MoreRows
  <1> HIDE DEF m
  <1>7. m \notin Canary(rs)
    BY <1>6 DEF Canary
  <1>8. TableOK(new, m) /\ Stable(new) = {m} /\ Canary(new) = Canary(base) \ {m}
    <2>1. /\ TableOK([base EXCEPT ![m] = row], m)
          /\ Stable([base EXCEPT ![m] = row]) = {m}
          /\ Canary([base EXCEPT ![m] = row]) = Canary(base) \ {m}
      BY <1>1, <1>3, <1>5, <1>6, PutActive
    <2> QED
      BY <1>2, <2>1
  <1> QED
    BY <1>4, <1>7, <1>8 DEF m

LEMMA DeployOK ==
    ASSUME NEW rs, NEW n \in Nat, TableOK(rs, n), n + 1 \in Ids,
           NEW new,
           new = CreateVersion(DeactivateActive(EndCanary(rs)), n + 1, "active", 0, FALSE, 0)
    PROVE  TableOK(new, n + 1) /\ ContractStep(rs, new)
  <1>1. RowsOK(EndCanary(rs), n) /\ OneCanaryRow(EndCanary(rs)) /\ Canary(EndCanary(rs)) = {}
    BY EndCanaryLive DEF TableOK, OneOfEach
  <1>2. TableOK(new, n + 1) /\ Stable(new) = {n + 1} /\ Canary(new) = {}
    BY <1>1, CreateActiveOK
  <1>3. n + 1 \notin Canary(rs)
    BY MoreRows DEF TableOK, Canary
  <1> QED
    BY <1>2, <1>3 DEF ContractStep, Activates

LEMMA PromoteOK ==
    ASSUME NEW rs, NEW n \in Nat, TableOK(rs, n), n + 1 \in Ids,
           NEW new, new = CreateVersion(DeactivateActive(rs), n + 1, "active", 0, FALSE, 0)
    PROVE  TableOK(new, n + 1) /\ ContractStep(rs, new)
  <1>1. RowsOK(rs, n) /\ OneCanaryRow(rs)
    BY DEF TableOK, OneOfEach
  <1>2. /\ TableOK(new, n + 1)
        /\ Stable(new) = {n + 1} /\ n + 1 \notin Canary(rs)
        /\ Canary(new) = Canary(rs)
    BY <1>1, CreateActiveOK
  <1> QED
    BY <1>2 DEF ContractStep, Activates

LEMMA DeployCanaryOK ==
    ASSUME NEW rs, NEW n \in Nat, TableOK(rs, n), n + 1 \in Ids, Stable(rs) # {},
           NEW traffic \in 0..99, NEW targeted \in BOOLEAN, NEW band \in {0, 1},
           traffic # 0 \/ targeted, band = 1 => traffic = Bands[1],
           NEW new,
           new = CreateVersion(EndCanary(rs), n + 1, "canary", traffic, targeted, band)
    PROVE  TableOK(new, n + 1) /\ ContractStep(rs, new)
  <1> DEFINE base == EndCanary(rs)
             row == [status |-> "canary", activated |-> ("canary" = "active"), deleted |-> FALSE,
                     traffic |-> traffic, targeted |-> targeted, band |-> band]
             m == n + 1
  <1>1. TableOK(base, n) /\ Stable(base) = Stable(rs) /\ Canary(base) = {}
    BY EndCanaryLive
  <1>2. new = [base EXCEPT ![m] = row]
    BY DEF CreateVersion
  <1>3. row \in Row
    <2>1. band \in 0..Len(Bands) /\ "canary" \in Statuses
      BY BandsFacts DEF Statuses
    <2> QED
      BY <2>1, NewRow
  <1>4. row.status = "canary" /\ FieldsOK(row)
    BY BandsFacts DEF FieldsOK
  <1> HIDE DEF base, row
  <1>5. m \in Nat /\ m \in Ids /\ m <= m /\ TableOK(base, m) /\ base[m].status = "none"
    BY <1>1, MoreRows DEF TableOK
  <1> HIDE DEF m
  <1>6. m \notin Stable(base)
    BY <1>5 DEF Stable
  <1>7. TableOK(new, m) /\ Stable(new) = Stable(base) /\ Canary(new) = {m}
    BY <1>1, <1>2, <1>3, <1>4, <1>5, <1>6, PutCanary
  <1>8. StartsCanary(rs, new)
    BY <1>1, <1>5, <1>6, <1>7 DEF StartsCanary
  <1> QED
    BY <1>7, <1>8 DEF ContractStep, m

(* A row of the table that exists.                                         *)
LEMMA ExistingRow ==
    ASSUME NEW rs, NEW n \in Nat, TableOK(rs, n), NEW v \in Ids, rs[v].status # "none"
    PROVE  v <= n /\ rs[v] \in Row /\ FieldsOK(rs[v])
  BY LimitAssumption DEF TableOK, RowsOK, Ids

(* The canary of a table is its only one.                                  *)
LEMMA TheCanary ==
    ASSUME NEW rs, NEW n \in Nat, TableOK(rs, n), NEW c \in Canary(rs)
    PROVE  /\ c \in Ids /\ rs[c].status = "canary" /\ ~rs[c].deleted
           /\ Canary(rs) = {c} /\ Stable(rs) # {} /\ c \notin Stable(rs)
  <1>1. c \in Ids /\ rs[c].status = "canary" /\ ~rs[c].deleted /\ c \notin Stable(rs)
    BY DEF Canary, Stable
  <1>2. /\ Stable(rs) = {v \in Ids : ActiveRow(rs, v)}
        /\ Canary(rs) = {v \in Ids : CanaryRow(rs, v)}
    BY StableRows DEF TableOK
  <1>3. Canary(rs) = {c} /\ Stable(rs) # {}
    BY <1>1, <1>2 DEF TableOK, OneOfEach, OneCanaryRow, CanaryRow
  <1> QED
    BY <1>1, <1>3

(* Writing v as the active row of a table whose active row was deactivated. *)
LEMMA ReplaceActive ==
    ASSUME NEW rs, NEW n \in Nat, TableOK(rs, n), NEW v \in Ids, v <= n,
           NEW r \in Row, FieldsOK(r), r.status = "active"
    PROVE  /\ TableOK([DeactivateActive(rs) EXCEPT ![v] = r], n)
           /\ Stable([DeactivateActive(rs) EXCEPT ![v] = r]) = {v}
           /\ Canary([DeactivateActive(rs) EXCEPT ![v] = r]) = Canary(rs) \ {v}
  <1> DEFINE base == DeactivateActive(rs)
  <1>1. RowsOK(rs, n) /\ OneCanaryRow(rs)
    BY DEF TableOK, OneOfEach
  <1>2. /\ RowsOK(base, n)
        /\ \A w \in Ids : ~ActiveRow(base, w) /\ (CanaryRow(base, w) <=> CanaryRow(rs, w))
    BY <1>1, DeactivateActiveOK
  <1>3. NoneActive(base) /\ OneCanaryRow(base)
    BY <1>1, <1>2 DEF NoneActive, OneCanaryRow
  <1>4. Canary(base) = Canary(rs)
    BY <1>1, <1>2, StableRows
  <1> HIDE DEF base
  <1>5. /\ TableOK([base EXCEPT ![v] = r], n)
        /\ Stable([base EXCEPT ![v] = r]) = {v}
        /\ Canary([base EXCEPT ![v] = r]) = Canary(base) \ {v}
    BY <1>2, <1>3, PutActive
  <1> QED
    BY <1>4, <1>5 DEF base

LEMMA ReactivatedRow ==
    ASSUME NEW r \in Row, FieldsOK(r), r.status = "inactive", ~r.deleted,
           NEW new, new = [r EXCEPT !.status = "active", !.activated = TRUE]
    PROVE  new \in Row /\ FieldsOK(new) /\ new.status = "active"
  BY DEF Row, Statuses, FieldsOK

(* Rollback, by a user or an alert.                                        *)
LEMMA ReactivatedOK ==
    ASSUME NEW rs, NEW n \in Nat, TableOK(rs, n), NEW v \in Ids,
           rs[v].status = "inactive", ~rs[v].deleted,
           NEW new, new = Reactivated(rs, v)
    PROVE  TableOK(new, n) /\ ContractStep(rs, new)
  <1> DEFINE row == [rs[v] EXCEPT !.status = "active", !.activated = TRUE]
  <1>1. v <= n /\ rs[v] \in Row /\ FieldsOK(rs[v])
    BY ExistingRow
  <1>2. row \in Row /\ FieldsOK(row) /\ row.status = "active"
    BY <1>1, ReactivatedRow
  <1>3. DeactivateActive(rs)[v] = rs[v]
    BY DEF DeactivateActive
  <1>4. new = [DeactivateActive(rs) EXCEPT ![v] = row]
    BY <1>3 DEF Reactivated, DeactivateActive
  <1> HIDE DEF row
  <1>5. TableOK(new, n) /\ Stable(new) = {v} /\ Canary(new) = Canary(rs) \ {v}
    <2>1. /\ TableOK([DeactivateActive(rs) EXCEPT ![v] = row], n)
          /\ Stable([DeactivateActive(rs) EXCEPT ![v] = row]) = {v}
          /\ Canary([DeactivateActive(rs) EXCEPT ![v] = row]) = Canary(rs) \ {v}
      BY <1>1, <1>2, ReplaceActive
    <2> QED
      BY <1>4, <2>1
  <1>6. v \notin Canary(rs)
    BY DEF Canary
  <1> QED
    BY <1>5, <1>6 DEF ContractStep, Activates

LEMMA PromotedRow ==
    ASSUME NEW r \in Row, ~r.deleted,
           NEW new, new = [r EXCEPT !.status = "active", !.activated = TRUE, !.traffic = 0,
                                    !.targeted = FALSE, !.band = 0]
    PROVE  new \in Row /\ FieldsOK(new) /\ new.status = "active"
  <1>1. 0 \in 0..99 /\ 0 \in 0..Len(Bands)
    BY BandsFacts
  <1>2. new \in Row
    BY <1>1 DEF Row, Statuses
  <1>3. new.status = "active" /\ new.traffic = 0 /\ new.targeted = FALSE /\ new.band = 0
        /\ new.deleted = r.deleted
    BY DEF Row
  <1> QED
    BY <1>2, <1>3 DEF FieldsOK

(* Promotion of the canary, by hand or by its last band.                   *)
LEMMA PromoteCanaryOK ==
    ASSUME NEW rs, NEW n \in Nat, TableOK(rs, n), NEW c \in Canary(rs),
           NEW new, new = MakeActive(DeactivateActive(rs), c)
    PROVE  TableOK(new, n) /\ ContractStep(rs, new)
  <1> DEFINE row == [rs[c] EXCEPT !.status = "active", !.activated = TRUE, !.traffic = 0,
                                  !.targeted = FALSE, !.band = 0]
  <1>1. c \in Ids /\ rs[c].status = "canary" /\ ~rs[c].deleted /\ Canary(rs) = {c}
    BY TheCanary
  <1>2. c <= n /\ rs[c] \in Row
    BY <1>1, ExistingRow
  <1>3. row \in Row /\ FieldsOK(row) /\ row.status = "active"
    BY <1>1, <1>2, PromotedRow
  <1>4. DeactivateActive(rs)[c] = rs[c]
    BY <1>1 DEF DeactivateActive
  <1>5. new = [DeactivateActive(rs) EXCEPT ![c] = row]
    BY <1>1, <1>4 DEF MakeActive, DeactivateActive
  <1> HIDE DEF row
  <1>6. TableOK(new, n) /\ Stable(new) = {c} /\ Canary(new) = Canary(rs) \ {c}
    <2>1. /\ TableOK([DeactivateActive(rs) EXCEPT ![c] = row], n)
          /\ Stable([DeactivateActive(rs) EXCEPT ![c] = row]) = {c}
          /\ Canary([DeactivateActive(rs) EXCEPT ![c] = row]) = Canary(rs) \ {c}
      BY <1>1, <1>2, <1>3, ReplaceActive, ZenonT(40)
    <2> QED
      BY <1>5, <2>1
  <1> QED
    BY <1>1, <1>6 DEF ContractStep, PromotesCanary

LEMMA StartedRow ==
    ASSUME NEW r \in Row, ~r.deleted, NEW traffic \in 0..99, NEW targeted \in BOOLEAN,
           traffic # 0 \/ targeted,
           NEW new, new = [r EXCEPT !.status = "canary", !.traffic = traffic,
                                    !.targeted = targeted, !.band = 0]
    PROVE  new \in Row /\ FieldsOK(new) /\ new.status = "canary"
  <1>1. 0 \in 0..Len(Bands)
    BY BandsFacts
  <1>2. new \in Row
    BY <1>1 DEF Row, Statuses
  <1>3. new.status = "canary" /\ new.traffic = traffic /\ new.targeted = targeted
        /\ new.band = 0 /\ new.deleted = r.deleted
    BY DEF Row
  <1> QED
    BY <1>2, <1>3 DEF FieldsOK

LEMMA StartCanaryOK ==
    ASSUME NEW rs, NEW n \in Nat, TableOK(rs, n), Stable(rs) # {},
           NEW v \in Ids, rs[v].status = "inactive", ~rs[v].deleted,
           NEW traffic \in 0..99, NEW targeted \in BOOLEAN, traffic # 0 \/ targeted,
           NEW new,
           new = [EndCanary(rs) EXCEPT
                    ![v] = [@ EXCEPT !.status = "canary", !.traffic = traffic,
                                     !.targeted = targeted, !.band = 0]]
    PROVE  TableOK(new, n) /\ ContractStep(rs, new)
  <1> DEFINE base == EndCanary(rs)
             row == [rs[v] EXCEPT !.status = "canary", !.traffic = traffic,
                                  !.targeted = targeted, !.band = 0]
  <1>1. TableOK(base, n) /\ Stable(base) = Stable(rs) /\ Canary(base) = {}
    BY EndCanaryLive
  <1>2. v <= n /\ rs[v] \in Row
    BY ExistingRow
  <1>3. row \in Row /\ FieldsOK(row) /\ row.status = "canary"
    BY <1>2, StartedRow, ZenonT(40)
  <1>4. Stable(base) # {} /\ v \notin Stable(base) /\ Canary(base) \subseteq {v}
    BY <1>1 DEF Stable
  <1>5. base[v] = rs[v]
    BY DEF EndCanary
  <1>6. new = [base EXCEPT ![v] = row]
    BY <1>5 DEF EndCanary
  <1>7. v \notin Stable(rs)
    BY DEF Stable
  <1> HIDE DEF base, row
  <1>8. /\ TableOK([base EXCEPT ![v] = row], n)
        /\ Stable([base EXCEPT ![v] = row]) = Stable(base)
        /\ Canary([base EXCEPT ![v] = row]) = {v}
    BY <1>1, <1>2, <1>3, <1>4, PutCanary, ZenonT(40)
  <1>9. StartsCanary(rs, new)
    BY <1>1, <1>6, <1>7, <1>8 DEF StartsCanary
  <1> QED
    BY <1>6, <1>8, <1>9 DEF ContractStep

(* Traffic, targeting or band of the running canary.                       *)
LEMMA AdjustOK ==
    ASSUME NEW rs, NEW n \in Nat, TableOK(rs, n), NEW c \in Canary(rs),
           NEW row \in Row, FieldsOK(row), row.status = "canary",
           NEW new, new = [rs EXCEPT ![c] = row]
    PROVE  TableOK(new, n) /\ ContractStep(rs, new)
  <1>1. /\ c \in Ids /\ rs[c].status = "canary" /\ Canary(rs) = {c}
        /\ Stable(rs) # {} /\ c \notin Stable(rs)
    BY TheCanary
  <1>2. c <= n
    BY <1>1, ExistingRow
  <1>3. /\ TableOK([rs EXCEPT ![c] = row], n)
        /\ Stable([rs EXCEPT ![c] = row]) = Stable(rs)
        /\ Canary([rs EXCEPT ![c] = row]) = {c}
    BY <1>1, <1>2, PutCanary
  <1> QED
    BY <1>1, <1>3 DEF ContractStep, Same

LEMMA SetTrafficOK ==
    ASSUME NEW rs, NEW n \in Nat, TableOK(rs, n), NEW c \in Canary(rs),
           NEW traffic \in 0..99, NEW targeted \in BOOLEAN, traffic # 0 \/ targeted,
           NEW new,
           new = [rs EXCEPT ![c] = [@ EXCEPT !.traffic = traffic, !.targeted = targeted,
                                             !.band = 0]]
    PROVE  TableOK(new, n) /\ ContractStep(rs, new)
  <1> DEFINE row == [rs[c] EXCEPT !.traffic = traffic, !.targeted = targeted, !.band = 0]
  <1>1. c \in Ids /\ rs[c].status = "canary" /\ ~rs[c].deleted
    BY TheCanary
  <1>2. rs[c] \in Row
    BY <1>1, ExistingRow
  <1>3. row \in Row
    <2>1. 0 \in 0..Len(Bands)
      BY BandsFacts
    <2> QED
      BY <1>2, <2>1 DEF Row
  <1>4. row.status = "canary" /\ row.deleted = rs[c].deleted /\ row.traffic = traffic
        /\ row.targeted = targeted /\ row.band = 0
    BY <1>1, <1>2 DEF Row
  <1>5. FieldsOK(row)
    BY <1>1, <1>4 DEF FieldsOK
  <1>6. new = [rs EXCEPT ![c] = row]
    BY <1>1, <1>2 DEF TableOK, RowsOK
  <1> HIDE DEF row
  <1>7. row.status = "canary"
    BY <1>4
  <1> QED
    BY <1>3, <1>5, <1>6, <1>7, AdjustOK

LEMMA SetTargetingOK ==
    ASSUME NEW rs, NEW n \in Nat, TableOK(rs, n), NEW c \in Canary(rs),
           NEW targeted \in BOOLEAN, rs[c].traffic # 0 \/ targeted,
           NEW new, new = [rs EXCEPT ![c] = [@ EXCEPT !.targeted = targeted]]
    PROVE  TableOK(new, n) /\ ContractStep(rs, new)
  <1> DEFINE row == [rs[c] EXCEPT !.targeted = targeted]
  <1>1. c \in Ids /\ rs[c].status = "canary" /\ ~rs[c].deleted
    BY TheCanary
  <1>2. rs[c] \in Row /\ FieldsOK(rs[c])
    BY <1>1, ExistingRow
  <1>3. row \in Row
    BY <1>2 DEF Row
  <1>4. row.status = "canary" /\ row.deleted = rs[c].deleted /\ row.traffic = rs[c].traffic
        /\ row.targeted = targeted /\ row.band = rs[c].band
    BY <1>1, <1>2 DEF Row
  <1>5. FieldsOK(row)
    BY <1>1, <1>2, <1>4 DEF FieldsOK
  <1>6. new = [rs EXCEPT ![c] = row]
    BY <1>1, <1>2 DEF TableOK, RowsOK
  <1> HIDE DEF row
  <1>7. row.status = "canary"
    BY <1>4
  <1> QED
    BY <1>3, <1>5, <1>6, <1>7, AdjustOK

(* A staged canary always has a next band (rollout.ts reads it without     *)
(* checking), and a band that is not 100% is a canary's percentage.        *)
LEMMA NextBand ==
    ASSUME NEW r \in Row, FieldsOK(r), r.status = "canary", r.band # 0
    PROVE  /\ r.band + 1 \in 1..Len(Bands)
           /\ Bands[r.band + 1] # 100 => /\ Bands[r.band + 1] \in 0..99 /\ Bands[r.band + 1] # 0
                                         /\ r.band + 1 < Len(Bands)
  <1>1. r.band \in 0..Len(Bands) /\ r.band < Len(Bands)
    BY DEF FieldsOK, Row
  <1>2. r.band + 1 \in 1..Len(Bands)
    BY <1>1, BandsFacts
  <1>3. Bands[r.band + 1] \in 1..100
    BY <1>2, BandsFacts
  <1>4. Bands[r.band + 1] # 100 => r.band + 1 # Len(Bands)
    BY BandsFacts
  <1>5. ASSUME Bands[r.band + 1] # 100
        PROVE  Bands[r.band + 1] \in 0..99 /\ Bands[r.band + 1] # 0
    <2>1. \A t \in 1..100 : t # 100 => t \in 0..99 /\ t # 0
      OBVIOUS
    <2> QED
      BY <1>3, <1>5, <2>1, Zenon
  <1>6. Bands[r.band + 1] # 100 => r.band + 1 < Len(Bands)
    BY <1>2, <1>4, BandsFacts
  <1> QED
    BY <1>2, <1>5, <1>6

LEMMA AdvancedRow ==
    ASSUME NEW r \in Row, r.status = "canary", ~r.deleted,
           NEW traffic \in 0..99, traffic # 0, NEW band \in 1..Len(Bands), band < Len(Bands),
           traffic = Bands[band],
           NEW new, new = [r EXCEPT !.traffic = traffic, !.band = band]
    PROVE  new \in Row /\ FieldsOK(new) /\ new.status = "canary"
  <1>1. band \in 0..Len(Bands)
    BY BandsFacts
  <1>2. new \in Row
    BY <1>1 DEF Row
  <1>3. new.status = "canary" /\ new.traffic = traffic /\ new.band = band
        /\ new.deleted = r.deleted
    BY DEF Row
  <1>4. new.traffic # 0 /\ new.band < Len(Bands) /\ new.traffic = Bands[new.band]
    BY <1>1, <1>3
  <1> QED
    BY <1>2, <1>3, <1>4 DEF FieldsOK

LEMMA AdvancedOK ==
    ASSUME NEW rs, NEW n \in Nat, TableOK(rs, n), NEW c \in Canary(rs), rs[c].band # 0,
           NEW new, new = Advanced(rs, c)
    PROVE  TableOK(new, n) /\ ContractStep(rs, new)
  <1> DEFINE next == rs[c].band + 1
             row == [rs[c] EXCEPT !.traffic = Bands[next], !.band = next]
  <1>1. c \in Ids /\ rs[c].status = "canary" /\ ~rs[c].deleted
    BY TheCanary
  <1>2. rs[c] \in Row /\ FieldsOK(rs[c])
    BY <1>1, ExistingRow
  <1>3. /\ next \in 1..Len(Bands)
        /\ Bands[next] # 100 => Bands[next] \in 0..99 /\ Bands[next] # 0 /\ next < Len(Bands)
    BY <1>1, <1>2, NextBand
  <1>4. CASE Bands[next] = 100
    <2>1. new = MakeActive(DeactivateActive(rs), c)
      BY <1>4 DEF Advanced
    <2> QED
      BY <2>1, PromoteCanaryOK
  <1>5. CASE Bands[next] # 100
    <2>1. new = [rs EXCEPT ![c] = row]
      BY <1>1, <1>2, <1>5 DEF Advanced, TableOK, RowsOK
    <2>2. row \in Row /\ FieldsOK(row) /\ row.status = "canary"
      BY <1>1, <1>2, <1>3, <1>5, AdvancedRow, ZenonT(40)
    <2> HIDE DEF row
    <2> QED
      BY <2>1, <2>2, AdjustOK, Zenon
  <1> QED
    BY <1>4, <1>5

(* Abort, by hand, by the job or by an alert.                              *)
LEMMA AbortOK ==
    ASSUME NEW rs, NEW n \in Nat, TableOK(rs, n), Canary(rs) # {}
    PROVE  TableOK(EndCanary(rs), n) /\ ContractStep(rs, EndCanary(rs))
  BY EndCanaryLive DEF ContractStep, EndsCanary

(* Garbage collection, of rows that are neither active nor the canary.     *)
LEMMA SoftDeleteOK ==
    ASSUME NEW rs, NEW n \in Nat, TableOK(rs, n), NEW S,
           \A v \in S : rs[v].status = "inactive",
           NEW new, new = [v \in Ids |-> [rs[v] EXCEPT !.deleted = @ \/ v \in S]]
    PROVE  TableOK(new, n) /\ ContractStep(rs, new)
  <1>1. \A v \in Ids : rs[v] \in Row /\ FieldsOK(rs[v])
    BY DEF TableOK, RowsOK
  <1>2. ASSUME NEW v \in Ids
        PROVE  /\ new[v] \in Row /\ FieldsOK(new[v])
               /\ new[v].status = rs[v].status
               /\ rs[v].status # "inactive" => new[v].deleted = rs[v].deleted
    <2>1. CASE v \notin S
      <3>1. new[v] = rs[v]
        BY <1>1, <2>1 DEF Row
      <3> QED
        BY <1>1, <3>1
    <2>2. CASE v \in S
      <3>1. new[v] = [rs[v] EXCEPT !.deleted = TRUE]
        BY <1>1, <2>2 DEF Row
      <3>2. new[v] \in Row /\ new[v].status = rs[v].status /\ rs[v].status = "inactive"
            /\ new[v].traffic = rs[v].traffic /\ new[v].targeted = rs[v].targeted
            /\ new[v].band = rs[v].band
        BY <1>1, <2>2, <3>1 DEF Row
      <3> QED
        BY <1>1, <3>2 DEF FieldsOK
    <2> QED
      BY <2>1, <2>2
  <1>3. new \in [Ids -> Row]
    BY <1>2
  <1>4. TableOK(new, n)
    <2>1. RowsOK(new, n)
      BY <1>2, <1>3 DEF TableOK, RowsOK
    <2>2. \A v \in Ids : (ActiveRow(new, v) <=> ActiveRow(rs, v))
                         /\ (CanaryRow(new, v) <=> CanaryRow(rs, v))
      BY <1>2 DEF ActiveRow, CanaryRow
    <2>3. OneOfEach(new)
      BY <2>2 DEF TableOK, OneOfEach, OneCanaryRow
    <2> QED
      BY <2>1, <2>3 DEF TableOK
  <1>5. Same(rs, new)
    BY <1>2 DEF Same, Stable, Canary
  <1> QED
    BY <1>4, <1>5 DEF ContractStep

LEMMA HardDeleteOK ==
    ASSUME NEW rs, NEW n \in Nat, TableOK(rs, n), NEW v \in Ids,
           rs[v].status \notin {"active", "canary"},
           NEW new, new = [rs EXCEPT ![v] = NoRow]
    PROVE  TableOK(new, n) /\ ContractStep(rs, new)
  <1>1. rs \in [Ids -> Row]
    BY DEF TableOK, RowsOK
  <1>2. \A w \in Ids : new[w] = IF w = v THEN NoRow ELSE rs[w]
    BY <1>1
  <1>3. NoRow.status = "none"
    BY DEF NoRow
  <1>4. new \in [Ids -> Row] /\ \A w \in Ids : FieldsOK(new[w])
    BY <1>1, <1>2, NoRowFacts DEF TableOK, RowsOK
  <1>5. TableOK(new, n)
    BY <1>2, <1>3, <1>4 DEF TableOK, RowsOK, OneOfEach, OneCanaryRow, ActiveRow, CanaryRow
  <1>6. Same(rs, new)
    BY <1>2, <1>3 DEF Same, Stable, Canary
  <1> QED
    BY <1>5, <1>6 DEF ContractStep

--------------------------------------------------------------------------------
(* Steps of the system: each rewrites at most one table, by one of the     *)
(* functions above.                                                        *)

TableStep(e) ==
    /\ versions' = [versions EXCEPT ![e] = versions'[e]]
    /\ created' = [created EXCEPT ![e] = created'[e]]
    /\ created'[e] \in 0..MaxVersions
    /\ TableOK(versions'[e], created'[e])
    /\ ContractStep(versions[e], versions'[e])

LEMMA Tables ==
    ASSUME IInv, NEW e \in Envs
    PROVE  /\ TableOK(versions[e], created[e]) /\ created[e] \in Nat
           /\ Active(e) = Stable(versions[e]) /\ Canaries(e) = Canary(versions[e])
  BY LimitAssumption DEF IInv, TypeOK, Active, Canaries, Listed, Stable, Canary

LEMMA Mutated ==
    ASSUME IInv, NEW e \in Envs, NEW override, NEW new, Mutate(e, override, new)
    PROVE  versions'[e] = new /\ versions' = [versions EXCEPT ![e] = versions'[e]]
  BY DEF IInv, TypeOK, Mutate

LEMMA CreatedOne ==
    ASSUME IInv, NEW e \in Envs, created[e] < Limit[e],
           created' = [created EXCEPT ![e] = created[e] + 1]
    PROVE  /\ created'[e] = created[e] + 1
           /\ created' = [created EXCEPT ![e] = created'[e]]
           /\ created'[e] \in 0..MaxVersions /\ created[e] + 1 \in Ids
  <1>1. created \in [Envs -> 0..MaxVersions]
    BY DEF IInv, TypeOK
  <1>2. created'[e] = created[e] + 1
    BY <1>1
  <1>3. created[e] \in 0..MaxVersions /\ Limit[e] \in 0..MaxVersions /\ MaxVersions \in Nat
    BY <1>1, LimitAssumption
  <1>4. \A m \in Nat : \A i, j \in 0..m : i < j => i + 1 \in 1..m /\ i + 1 \in 0..m
    OBVIOUS
  <1>5. created[e] + 1 \in 1..MaxVersions /\ created[e] + 1 \in 0..MaxVersions
    BY <1>3, <1>4
  <1>6. created' = [created EXCEPT ![e] = created'[e]]
    BY <1>2
  <1>7. created'[e] \in 0..MaxVersions /\ created[e] + 1 \in Ids
    BY <1>2, <1>5 DEF Ids
  <1> QED
    BY <1>2, <1>6, <1>7

LEMMA CreatedNone ==
    ASSUME IInv, NEW e \in Envs, UNCHANGED created
    PROVE  /\ created'[e] = created[e]
           /\ created' = [created EXCEPT ![e] = created'[e]]
           /\ created'[e] \in 0..MaxVersions
  BY DEF IInv, TypeOK

(* One step of an operation that keeps the number of rows.                 *)
LEMMA Rewritten ==
    ASSUME IInv, NEW e \in Envs, UNCHANGED created,
           versions' = [versions EXCEPT ![e] = versions'[e]],
           TableOK(versions'[e], created[e]), ContractStep(versions[e], versions'[e])
    PROVE  TableStep(e)
  BY CreatedNone DEF TableStep

(* One step of an operation that creates a row.                            *)
LEMMA Extended ==
    ASSUME IInv, NEW e \in Envs, created[e] < Limit[e],
           created' = [created EXCEPT ![e] = created[e] + 1],
           versions' = [versions EXCEPT ![e] = versions'[e]],
           TableOK(versions'[e], created[e] + 1), ContractStep(versions[e], versions'[e])
    PROVE  TableStep(e)
  BY CreatedOne DEF TableStep

LEMMA DeployStep ==
    ASSUME IInv, NEW e \in Envs, NEW override, Deploy(e, override)
    PROVE  TableStep(e)
  <1> DEFINE id == created[e] + 1
             new == CreateVersion(DeactivateActive(EndCanary(versions[e])), id, "active", 0,
                                  FALSE, 0)
  <1>1. created[e] < Limit[e] /\ Mutate(e, override, new)
        /\ created' = [created EXCEPT ![e] = id]
    BY DEF Deploy
  <1>2. versions'[e] = new /\ versions' = [versions EXCEPT ![e] = versions'[e]]
    BY <1>1, Mutated
  <1>3. TableOK(versions[e], created[e]) /\ created[e] \in Nat /\ created[e] + 1 \in Ids
    BY <1>1, Tables, CreatedOne
  <1>4. TableOK(versions'[e], created[e] + 1) /\ ContractStep(versions[e], versions'[e])
    BY <1>2, <1>3, DeployOK
  <1> QED
    BY <1>1, <1>2, <1>4, Extended

LEMMA PromoteStep ==
    ASSUME IInv, NEW from \in Envs, NEW e \in Envs, NEW override, NEW v,
           Promote(from, e, override, v)
    PROVE  TableStep(e)
  <1> DEFINE id == created[e] + 1
             new == CreateVersion(DeactivateActive(versions[e]), id, "active", 0, FALSE, 0)
  <1>1. created[e] < Limit[e] /\ Mutate(e, override, new)
        /\ created' = [created EXCEPT ![e] = id]
    BY DEF Promote
  <1>2. versions'[e] = new /\ versions' = [versions EXCEPT ![e] = versions'[e]]
    BY <1>1, Mutated
  <1>3. TableOK(versions[e], created[e]) /\ created[e] \in Nat /\ created[e] + 1 \in Ids
    BY <1>1, Tables, CreatedOne
  <1>4. TableOK(versions'[e], created[e] + 1) /\ ContractStep(versions[e], versions'[e])
    BY <1>2, <1>3, PromoteOK
  <1> QED
    BY <1>1, <1>2, <1>4, Extended

LEMMA PlanFacts ==
    ASSUME NEW plan \in CanaryPlans
    PROVE  /\ plan.traffic \in 0..99 /\ plan.band \in {0, 1}
           /\ plan.band = 1 => plan.traffic = Bands[1]
  <1>1. CASE plan \in {[traffic |-> p, band |-> 0] : p \in Percents}
    BY <1>1, PercentAssumption
  <1>2. CASE plan = [traffic |-> Bands[1], band |-> 1]
    <2>1. Bands[1] \in 0..99
      BY BandsFacts, \A t \in 1..99 : t \in 0..99
    <2> QED
      BY <1>2, <2>1
  <1> QED
    BY <1>1, <1>2 DEF CanaryPlans

LEMMA DeployCanaryStep ==
    ASSUME IInv, NEW e \in Envs, NEW override, NEW plan \in CanaryPlans,
           NEW targeted \in BOOLEAN,
           DeployCanary(e, override, plan.traffic, targeted, plan.band)
    PROVE  TableStep(e)
  <1> DEFINE id == created[e] + 1
             traffic == plan.traffic
             band == plan.band
             new == CreateVersion(EndCanary(versions[e]), id, "canary", traffic, targeted, band)
  <1>1. created[e] < Limit[e] /\ Mutate(e, override, new) /\ Active(e) # {}
        /\ (traffic # 0 \/ targeted) /\ created' = [created EXCEPT ![e] = id]
    BY DEF DeployCanary
  <1>2. versions'[e] = new /\ versions' = [versions EXCEPT ![e] = versions'[e]]
    BY <1>1, Mutated
  <1>3. TableOK(versions[e], created[e]) /\ created[e] \in Nat /\ created[e] + 1 \in Ids
        /\ Stable(versions[e]) # {}
    BY <1>1, Tables, CreatedOne
  <1>4. traffic \in 0..99 /\ band \in {0, 1} /\ (band = 1 => traffic = Bands[1])
    BY PlanFacts
  <1> HIDE DEF traffic, band
  <1>5. TableOK(versions'[e], created[e] + 1) /\ ContractStep(versions[e], versions'[e])
    BY <1>1, <1>2, <1>3, <1>4, DeployCanaryOK, ZenonT(40)
  <1> QED
    BY <1>1, <1>2, <1>5, Extended

(* One step of an operation that writes the table new and creates no row.  *)
LEMMA Written ==
    ASSUME IInv, NEW e \in Envs, NEW override, NEW new, Mutate(e, override, new),
           UNCHANGED created, TableOK(new, created[e]), ContractStep(versions[e], new)
    PROVE  TableStep(e)
  <1>1. versions'[e] = new /\ versions' = [versions EXCEPT ![e] = versions'[e]]
    BY Mutated
  <1> QED
    BY <1>1, Rewritten

(* Rolling back, by hand or by an alert.                                   *)
LEMMA ReactivateStep ==
    ASSUME IInv, NEW e \in Envs, NEW override, NEW v \in Listed(e, "inactive"),
           UNCHANGED created, Mutate(e, override, Reactivated(versions[e], v))
    PROVE  TableStep(e)
  <1> DEFINE new == Reactivated(versions[e], v)
  <1>1. Mutate(e, override, new)
        /\ v \in Ids /\ versions[e][v].status = "inactive" /\ ~versions[e][v].deleted
    BY DEF Listed
  <1>2. TableOK(new, created[e]) /\ ContractStep(versions[e], new)
    BY <1>1, Tables, ReactivatedOK
  <1> HIDE DEF new
  <1> QED
    BY <1>1, <1>2, Written

LEMMA StartCanaryStep ==
    ASSUME IInv, NEW e \in Envs, NEW override, NEW v, NEW traffic \in Percents,
           NEW targeted \in BOOLEAN, StartCanary(e, override, v, traffic, targeted)
    PROVE  TableStep(e)
  <1> DEFINE rs == versions[e]
             n == created[e]
             new == [EndCanary(rs) EXCEPT
                        ![v] = [@ EXCEPT !.status = "canary", !.traffic = traffic,
                                         !.targeted = targeted, !.band = 0]]
  <1>1. Mutate(e, override, new) /\ UNCHANGED created
    BY DEF StartCanary
  <1>2. /\ v \in Ids /\ versions[e][v].status = "inactive" /\ ~versions[e][v].deleted
        /\ Active(e) # {} /\ (traffic # 0 \/ targeted)
    BY DEF StartCanary, Listed
  <1>3. /\ n \in Nat /\ TableOK(rs, n) /\ Stable(rs) # {}
        /\ v \in Ids /\ rs[v].status = "inactive" /\ ~rs[v].deleted
        /\ traffic \in 0..99 /\ (traffic # 0 \/ targeted)
        /\ new = [EndCanary(rs) EXCEPT
                    ![v] = [@ EXCEPT !.status = "canary", !.traffic = traffic,
                                     !.targeted = targeted, !.band = 0]]
    BY <1>2, Tables, PercentAssumption
  <1> HIDE DEF new, rs, n
  <1>4. TableOK(new, n) /\ ContractStep(rs, new)
    BY <1>3, StartCanaryOK, Zenon
  <1> QED
    BY <1>1, <1>4, Written DEF rs, n

LEMMA SetTrafficStep ==
    ASSUME IInv, NEW e \in Envs, NEW override, NEW v, NEW traffic \in Percents,
           NEW targeted \in BOOLEAN, SetTraffic(e, override, v, traffic, targeted)
    PROVE  TableStep(e)
  <1> DEFINE rs == versions[e]
             n == created[e]
             new == [rs EXCEPT ![v] = [@ EXCEPT !.traffic = traffic, !.targeted = targeted,
                                                !.band = 0]]
  <1>1. Mutate(e, override, new) /\ UNCHANGED created
    BY DEF SetTraffic
  <1>2. /\ n \in Nat /\ TableOK(rs, n) /\ v \in Canary(rs)
        /\ traffic \in 0..99 /\ (traffic # 0 \/ targeted)
        /\ new = [rs EXCEPT ![v] = [@ EXCEPT !.traffic = traffic, !.targeted = targeted,
                                             !.band = 0]]
    BY Tables, PercentAssumption DEF SetTraffic
  <1> HIDE DEF new, rs, n
  <1>3. TableOK(new, n) /\ ContractStep(rs, new)
    BY <1>2, SetTrafficOK, Zenon
  <1> QED
    BY <1>1, <1>3, Written DEF rs, n

LEMMA SetTargetingStep ==
    ASSUME IInv, NEW e \in Envs, NEW override, NEW v, NEW targeted \in BOOLEAN,
           SetTargeting(e, override, v, targeted)
    PROVE  TableStep(e)
  <1> DEFINE new == [versions[e] EXCEPT ![v] = [@ EXCEPT !.targeted = targeted]]
  <1>1. Mutate(e, override, new) /\ UNCHANGED created
    BY DEF SetTargeting
  <1>2. v \in Canary(versions[e]) /\ (versions[e][v].traffic # 0 \/ targeted)
        /\ TableOK(versions[e], created[e]) /\ created[e] \in Nat
    BY Tables DEF SetTargeting
  <1>3. TableOK(new, created[e]) /\ ContractStep(versions[e], new)
    BY <1>2, SetTargetingOK
  <1> HIDE DEF new
  <1> QED
    BY <1>1, <1>3, Written

LEMMA PromoteCanaryStep ==
    ASSUME IInv, NEW e \in Envs, NEW override, NEW v, PromoteCanary(e, override, v)
    PROVE  TableStep(e)
  <1> DEFINE new == MakeActive(DeactivateActive(versions[e]), v)
  <1>1. Mutate(e, override, new) /\ UNCHANGED created /\ v \in Canary(versions[e])
        /\ TableOK(versions[e], created[e]) /\ created[e] \in Nat
    BY Tables DEF PromoteCanary
  <1>2. TableOK(new, created[e]) /\ ContractStep(versions[e], new)
    BY <1>1, PromoteCanaryOK
  <1> HIDE DEF new
  <1> QED
    BY <1>1, <1>2, Written

(* Ending the canary, by whoever does it.                                  *)
LEMMA AbortStep ==
    ASSUME IInv, NEW e \in Envs, NEW override, Canaries(e) # {}, UNCHANGED created,
           Mutate(e, override, EndCanary(versions[e]))
    PROVE  TableStep(e)
  <1> DEFINE new == EndCanary(versions[e])
  <1>1. TableOK(versions[e], created[e]) /\ created[e] \in Nat /\ Canary(versions[e]) # {}
    BY Tables
  <1>2. TableOK(new, created[e]) /\ ContractStep(versions[e], new)
    BY <1>1, AbortOK
  <1>3. Mutate(e, override, new)
    OBVIOUS
  <1> HIDE DEF new
  <1> QED
    BY <1>2, <1>3, Written

(* Moving a staged rollout, by hand or by the job.                         *)
LEMMA AdvanceStep ==
    ASSUME IInv, NEW e \in Envs, NEW override, NEW c \in Canaries(e),
           versions[e][c].band # 0, UNCHANGED created,
           Mutate(e, override, Advanced(versions[e], c))
    PROVE  TableStep(e)
  <1> DEFINE new == Advanced(versions[e], c)
  <1>1. TableOK(versions[e], created[e]) /\ created[e] \in Nat /\ c \in Canary(versions[e])
    BY Tables
  <1>2. TableOK(new, created[e]) /\ ContractStep(versions[e], new)
    BY <1>1, AdvancedOK
  <1>3. Mutate(e, override, new)
    OBVIOUS
  <1> HIDE DEF new
  <1> QED
    BY <1>2, <1>3, Written

LEMMA SoftDeleteStep ==
    ASSUME IInv, NEW e \in Envs, NEW cutoff, SoftDelete(e, cutoff)
    PROVE  TableStep(e)
  <1> DEFINE S == SoftDeletable(e, cutoff)
             new == [v \in Ids |-> [versions[e][v] EXCEPT !.deleted = @ \/ v \in S]]
  <1>1. versions' = [versions EXCEPT ![e] = new] /\ UNCHANGED created
    BY DEF SoftDelete
  <1>2. \A v \in S : versions[e][v].status = "inactive"
    BY DEF SoftDeletable, Listed
  <1>3. TableOK(versions[e], created[e]) /\ created[e] \in Nat
    BY Tables
  <1> HIDE DEF S
  <1>4. TableOK(new, created[e]) /\ ContractStep(versions[e], new)
    BY <1>2, <1>3, SoftDeleteOK
  <1> HIDE DEF new
  <1>5. versions'[e] = new /\ versions' = [versions EXCEPT ![e] = versions'[e]]
    BY <1>1 DEF IInv, TypeOK
  <1> QED
    BY <1>1, <1>4, <1>5, Rewritten

LEMMA HardDeleteStep ==
    ASSUME IInv, NEW e \in Envs, NEW v \in Ids, HardDelete(e, v)
    PROVE  TableStep(e)
  <1> DEFINE new == [versions[e] EXCEPT ![v] = NoRow]
  <1>1. versions' = [versions EXCEPT ![e] = new] /\ UNCHANGED created
        /\ versions[e][v].status \notin {"active", "canary"}
    BY DEF HardDelete
  <1>2. TableOK(new, created[e]) /\ ContractStep(versions[e], new)
    BY <1>1, Tables, HardDeleteOK
  <1> HIDE DEF new
  <1>3. versions'[e] = new /\ versions' = [versions EXCEPT ![e] = versions'[e]]
    BY <1>1 DEF IInv, TypeOK
  <1> QED
    BY <1>1, <1>2, <1>3, Rewritten

--------------------------------------------------------------------------------
(* Every step.                                                             *)

Quiet == UNCHANGED <<versions, created>>

(* A change made by a job, which never overrides a freeze.                 *)
JobStep(e) == e \in Envs /\ TableStep(e) /\ ~Locked(e, FALSE)

(* A change made by an operator's request.                                *)
RequestStep(e, override) ==
    TableStep(e) /\ ~Locked(e, override) /\ UNCHANGED <<freeze, job, alert>>

LEMMA OperatorStep ==
    ASSUME IInv, NEW e \in Envs, NEW override, Operator(e, override)
    PROVE  RequestStep(e, override)
  <1>1. CASE Deploy(e, override)
    BY <1>1, DeployStep DEF Deploy, RequestStep, Mutate
  <1>2. CASE \E plan \in CanaryPlans, targeted \in BOOLEAN :
                DeployCanary(e, override, plan.traffic, targeted, plan.band)
    BY <1>2, DeployCanaryStep DEF DeployCanary, RequestStep, Mutate
  <1>3. CASE RollbackToPrevious(e, override)
    BY <1>3, ReactivateStep DEF RollbackToPrevious, RollbackTo, RequestStep, Mutate
  <1>4. CASE AbortCanary(e, override)
    BY <1>4, AbortStep DEF AbortCanary, RequestStep, Mutate
  <1>5. ASSUME NEW v \in Ids, RollbackTo(e, override, v)
        PROVE  RequestStep(e, override)
    BY <1>5, ReactivateStep DEF RollbackTo, RequestStep, Mutate
  <1>6. ASSUME NEW v \in Ids, NEW from \in Envs, Promote(from, e, override, v)
        PROVE  RequestStep(e, override)
    BY <1>6, PromoteStep DEF Promote, RequestStep, Mutate
  <1>7. ASSUME NEW v \in Ids, PromoteCanary(e, override, v)
        PROVE  RequestStep(e, override)
    BY <1>7, PromoteCanaryStep DEF PromoteCanary, RequestStep, Mutate
  <1>8. ASSUME NEW v \in Ids, AdvanceByHand(e, override, v)
        PROVE  RequestStep(e, override)
    BY <1>8, AdvanceStep DEF AdvanceByHand, RequestStep, Mutate
  <1>9. ASSUME NEW v \in Ids, NEW targeted \in BOOLEAN, SetTargeting(e, override, v, targeted)
        PROVE  RequestStep(e, override)
    BY <1>9, SetTargetingStep DEF SetTargeting, RequestStep, Mutate
  <1>10. ASSUME NEW v \in Ids, NEW targeted \in BOOLEAN, NEW traffic \in Percents,
                StartCanary(e, override, v, traffic, targeted)
         PROVE  RequestStep(e, override)
    BY <1>10, StartCanaryStep DEF StartCanary, RequestStep, Mutate
  <1>11. ASSUME NEW v \in Ids, NEW targeted \in BOOLEAN, NEW traffic \in Percents,
                SetTraffic(e, override, v, traffic, targeted)
         PROVE  RequestStep(e, override)
    BY <1>11, SetTrafficStep DEF SetTraffic, RequestStep, Mutate
  <1> QED
    BY <1>1, <1>2, <1>3, <1>4, <1>5, <1>6, <1>7, <1>8, <1>9, <1>10, <1>11 DEF Operator

LEMMA RolloutJobStep ==
    ASSUME IInv, RolloutJob
    PROVE  /\ Quiet \/ JobStep(job.env)
           /\ UNCHANGED <<freeze, alert>> /\ job' \in JobTasks \cup {Idle}
  <1>0. job # Idle => job.env \in Envs /\ job.band # 0
    <2>1. job # Idle => job.env \in Envs /\ job.band \in 1..Len(Bands)
      BY DEF IInv, TypeOK, JobTasks
    <2> QED
      BY <2>1, BandsFacts
  <1>1. ASSUME NEW e \in Envs, NEW v \in Ids, NEW verdict \in {"pass", "fail"},
               RolloutJudges(e, v, verdict)
        PROVE  Quiet /\ UNCHANGED <<freeze, alert>> /\ job' \in JobTasks
    <2>1. versions[e][v] \in Row /\ FieldsOK(versions[e][v]) /\ versions[e][v].band # 0
      BY <1>1 DEF IInv, TableOK, RowsOK, RolloutJudges
    <2>2. versions[e][v].band \in 0..Len(Bands) /\ Len(Bands) \in Nat
      BY <2>1, BandsFacts DEF Row
    <2>3. versions[e][v].band \in 1..Len(Bands)
      BY <2>1, <2>2
    <2> QED
      BY <1>1, <2>3 DEF RolloutJudges, Quiet, JobTasks
  <1>2. ASSUME NEW c \in Ids, RolloutAdvances(c)
        PROVE  JobStep(job.env)
    <2>1. job.env \in Envs /\ job.band # 0
      BY <1>0, <1>2 DEF RolloutAdvances
    <2> QED
      BY <1>2, <2>1, AdvanceStep DEF RolloutAdvances, JobStep, Mutate
  <1>3. ASSUME RolloutFails PROVE JobStep(job.env)
    <2>1. job.env \in Envs /\ Canaries(job.env) # {}
      BY <1>0, <1>3 DEF RolloutFails
    <2> QED
      BY <1>3, <2>1, AbortStep DEF RolloutFails, JobStep, Mutate
  <1>4. ASSUME (\E c \in Ids : RolloutAdvances(c)) \/ RolloutFails \/ RolloutGivesUp
        PROVE  UNCHANGED <<freeze, alert>> /\ job' = Idle
    BY <1>4 DEF RolloutAdvances, RolloutFails, RolloutGivesUp
  <1>5. ASSUME RolloutGivesUp PROVE Quiet
    BY <1>5 DEF RolloutGivesUp, Quiet
  <1> QED
    BY <1>1, <1>2, <1>3, <1>4, <1>5 DEF RolloutJob

LEMMA AlertJobStep ==
    ASSUME IInv, AlertJob
    PROVE  /\ Quiet \/ JobStep(alert.env)
           /\ UNCHANGED <<freeze, job>> /\ alert' \in AlertTasks \cup {Idle}
  <1>0. alert # Idle => alert.env \in Envs
    BY DEF IInv, TypeOK, AlertTasks
  <1>1. ASSUME NEW e \in Envs, NEW scope \in {"canary", "module"}, AlertFires(e, scope)
        PROVE  Quiet /\ UNCHANGED <<freeze, job>> /\ alert' \in AlertTasks
    BY <1>1 DEF AlertFires, Quiet, AlertTasks
  <1>2. ASSUME AlertAbortsCanary PROVE JobStep(alert.env)
    BY <1>0, <1>2, AbortStep DEF AlertAbortsCanary, JobStep, Mutate
  <1>3. ASSUME NEW v \in Ids, AlertRollsBack(v)
        PROVE  JobStep(alert.env)
    <2>1. /\ alert.env \in Envs /\ UNCHANGED created /\ v \in Listed(alert.env, "inactive")
          /\ Mutate(alert.env, FALSE, Reactivated(versions[alert.env], v))
      BY <1>0, <1>3 DEF AlertRollsBack, Previous, PreviousCandidates
    <2> QED
      BY <2>1, ReactivateStep DEF JobStep, Mutate
  <1>4. ASSUME AlertAbortsCanary \/ (\E v \in Ids : AlertRollsBack(v)) \/ AlertGivesUp
        PROVE  UNCHANGED <<freeze, job>> /\ alert' = Idle
    BY <1>4 DEF AlertAbortsCanary, AlertRollsBack, AlertGivesUp
  <1>5. ASSUME AlertGivesUp PROVE Quiet
    BY <1>5 DEF AlertGivesUp, Quiet
  <1> QED
    BY <1>1, <1>2, <1>3, <1>4, <1>5 DEF AlertJob

LEMMA NextStep ==
    ASSUME IInv, Next
    PROVE  /\ Quiet \/ \E e \in Envs : TableStep(e)
           /\ freeze' \in [Envs -> FreezeModes]
           /\ job' \in JobTasks \cup {Idle}
           /\ alert' \in AlertTasks \cup {Idle}
  <1>0. /\ freeze \in [Envs -> FreezeModes]
        /\ job \in JobTasks \cup {Idle}
        /\ alert \in AlertTasks \cup {Idle}
    BY DEF IInv, TypeOK
  <1>1. ASSUME NEW e \in Envs, NEW override \in BOOLEAN, Operator(e, override)
        PROVE  TableStep(e) /\ UNCHANGED <<freeze, job, alert>>
    BY <1>1, OperatorStep DEF RequestStep
  <1>2. ASSUME NEW e \in Envs, NEW mode \in Freezes[e], SetFreeze(e, mode)
        PROVE  Quiet /\ UNCHANGED <<job, alert>> /\ freeze' \in [Envs -> FreezeModes]
    <2>1. mode \in FreezeModes
      BY FreezeAssumption
    <2> QED
      BY <1>0, <1>2, <2>1 DEF SetFreeze, Quiet
  <1>3. ASSUME NEW e \in Envs, NEW v \in Ids, SoftDelete(e, v) \/ HardDelete(e, v)
        PROVE  TableStep(e) /\ UNCHANGED <<freeze, job, alert>>
    BY <1>3, SoftDeleteStep, HardDeleteStep DEF SoftDelete, HardDelete
  <1>4. CASE RolloutJob
    BY <1>0, <1>4, RolloutJobStep DEF JobStep
  <1>5. CASE AlertJob
    BY <1>0, <1>5, AlertJobStep DEF JobStep
  <1>6. CASE \E e \in Envs, override \in BOOLEAN : Operator(e, override)
    BY <1>0, <1>1, <1>6
  <1>7. CASE \E e \in Envs : \E mode \in Freezes[e] : SetFreeze(e, mode)
    BY <1>0, <1>2, <1>7
  <1>8. CASE \E e \in Envs, v \in Ids : SoftDelete(e, v) \/ HardDelete(e, v)
    BY <1>0, <1>3, <1>8
  <1> QED
    BY <1>4, <1>5, <1>6, <1>7, <1>8 DEF Next

(* A step of one table keeps the types and every table in order.           *)
LEMMA TableStepKeeps ==
    ASSUME IInv, NEW e \in Envs, TableStep(e)
    PROVE  /\ versions' \in [Envs -> [Ids -> Row]]
           /\ created' \in [Envs -> 0..MaxVersions]
           /\ \A f \in Envs : TableOK(versions'[f], created'[f])
  <1>1. versions \in [Envs -> [Ids -> Row]] /\ created \in [Envs -> 0..MaxVersions]
        /\ \A f \in Envs : TableOK(versions[f], created[f])
    BY DEF IInv, TypeOK
  <1>2. /\ versions' = [versions EXCEPT ![e] = versions'[e]]
        /\ created' = [created EXCEPT ![e] = created'[e]]
        /\ created'[e] \in 0..MaxVersions /\ TableOK(versions'[e], created'[e])
    BY DEF TableStep
  <1>3. versions'[e] \in [Ids -> Row]
    BY <1>2 DEF TableOK, RowsOK
  <1>4. \A f \in Envs : f # e => versions'[f] = versions[f] /\ created'[f] = created[f]
    BY <1>1, <1>2
  <1>5. versions' \in [Envs -> [Ids -> Row]]
    BY <1>1, <1>2, <1>3
  <1>6. created' \in [Envs -> 0..MaxVersions]
    BY <1>1, <1>2
  <1>7. ASSUME NEW f \in Envs PROVE TableOK(versions'[f], created'[f])
    BY <1>1, <1>2, <1>4
  <1> QED
    BY <1>5, <1>6, <1>7

LEMMA Inductive == IInv /\ [Next]_vars => IInv'
  <1> SUFFICES ASSUME IInv, [Next]_vars PROVE IInv'
    OBVIOUS
  <1>1. CASE UNCHANGED vars
    BY <1>1 DEF IInv, TypeOK, vars
  <1>2. CASE Next
    <2>1. /\ Quiet \/ \E e \in Envs : TableStep(e)
          /\ freeze' \in [Envs -> FreezeModes]
          /\ job' \in JobTasks \cup {Idle} /\ alert' \in AlertTasks \cup {Idle}
      BY <1>2, NextStep
    <2>2. /\ versions' \in [Envs -> [Ids -> Row]] /\ created' \in [Envs -> 0..MaxVersions]
          /\ \A e \in Envs : TableOK(versions'[e], created'[e])
      <3>1. CASE Quiet
        BY <3>1 DEF Quiet, IInv, TypeOK
      <3>2. CASE \E e \in Envs : TableStep(e)
        BY <3>2, TableStepKeeps, Zenon
      <3> QED
        BY <2>1, <3>1, <3>2
    <2>3. TypeOK'
      BY <2>1, <2>2, Zenon DEF TypeOK
    <2> QED
      BY <2>2, <2>3, Zenon DEF IInv
  <1> QED
    BY <1>1, <1>2

LEMMA Invariant == Spec => []IInv
  BY InitOK, Inductive, PTL DEF Spec

--------------------------------------------------------------------------------
(* The theorems.                                                           *)

(* Every variable keeps its type, whatever the operators and jobs do.      *)
THEOREM TypeCorrect == Spec => []TypeOK
  <1>1. IInv => TypeOK
    BY DEF IInv
  <1> QED
    BY <1>1, Invariant, PTL

(* VER-03, CAN-01: one active version and one canary at most, a canary     *)
(* next to an active version, and neither garbage collected.               *)
THEOREM OneVersion == Spec => []OneVersionEach
  <1>1. IInv => OneVersionEach
    <2> SUFFICES ASSUME IInv PROVE OneVersionEach
      OBVIOUS
    <2>1. \A e \in Envs : TableOK(versions[e], created[e])
          /\ Active(e) = Stable(versions[e]) /\ Canaries(e) = Canary(versions[e])
      BY Tables
    <2>2. OneActive /\ OneCanary
      BY <2>1 DEF OneActive, OneCanary, TableOK, OneOfEach, OneCanaryRow, ActiveRow, CanaryRow
    <2>3. LiveIsKept
      BY <2>1 DEF LiveIsKept, TableOK, RowsOK, FieldsOK
    <2>4. CanaryNextToActive
      BY <2>1, <2>3 DEF CanaryNextToActive, LiveIsKept, TableOK, OneOfEach, ActiveRow,
                       CanaryRow, Stable, Canary
    <2> QED
      BY <2>2, <2>3, <2>4 DEF OneVersionEach
  <1> QED
    BY <1>1, Invariant, PTL

(* The canary's traffic, targeting and rollout are coherent after every    *)
(* way a canary starts, changes and ends.                                  *)
THEOREM WellFormed == Spec => []CanaryWellFormed
  <1>1. IInv => CanaryWellFormed
    BY DEF IInv, CanaryWellFormed, TableOK, RowsOK, FieldsOK
  <1> QED
    BY <1>1, Invariant, PTL

(* Freezes.  A step that a freeze may not stop: nothing locks e for the     *)
(* operator, or nothing but an overridden freeze of the environment.       *)
Unlocked(e) ==
    /\ freeze[e] # "org"
    /\ freeze[e] = "frozen" => UNCHANGED <<job, alert>>

LEMMA SameServed ==
    ASSUME NEW f, versions'[f] = versions[f]
    PROVE  Served(f)' = Served(f)
  BY DEF Served, Active, Canaries, Listed

LEMMA OthersServed ==
    ASSUME IInv, NEW e \in Envs, TableStep(e)
    PROVE  \A f \in Envs : f = e \/ (UNCHANGED versions[f] /\ Served(f)' = Served(f))
  <1>1. versions = [f \in Envs |-> versions[f]]
    BY DEF IInv, TypeOK
  <1>2. PICK new : versions' = [versions EXCEPT ![e] = new]
    BY DEF TableStep
  <1>3. \A f \in Envs : f = e \/ versions'[f] = versions[f]
    BY <1>1, <1>2, Zenon
  <1> QED
    BY <1>3 DEF Served, Active, Canaries, Listed

(* Garbage collection touches nothing that is served.                      *)
LEMMA SoftDeleteServed ==
    ASSUME IInv, NEW e \in Envs, NEW cutoff, SoftDelete(e, cutoff)
    PROVE  Served(e)' = Served(e)
  <1> DEFINE S == SoftDeletable(e, cutoff)
  <1>1. versions \in [Envs -> [Ids -> Row]]
    BY DEF IInv, TypeOK
  <1>2. \A v \in S : versions[e][v].status = "inactive"
    BY DEF SoftDeletable, Listed
  <1>3. versions'[e] = [v \in Ids |-> [versions[e][v] EXCEPT !.deleted = @ \/ v \in S]]
    BY <1>1 DEF SoftDelete
  <1> HIDE DEF S
  <1>4. ASSUME NEW v \in Ids
        PROVE  /\ versions[e][v].status # "inactive" => versions'[e][v] = versions[e][v]
               /\ versions'[e][v].status = versions[e][v].status
    <2>1. versions[e][v] \in Row
      BY <1>1
    <2>2. versions'[e][v] = [versions[e][v] EXCEPT !.deleted = @ \/ v \in S]
      BY <1>3
    <2>3. versions'[e][v].status = versions[e][v].status
      BY <2>1, <2>2 DEF Row
    <2>4. ASSUME v \notin S PROVE versions'[e][v] = versions[e][v]
      BY <2>1, <2>2, <2>4 DEF Row
    <2> QED
      BY <1>2, <2>3, <2>4
  <1> QED
    BY <1>4 DEF Served, Active, Canaries, Listed

LEMMA HardDeleteServed ==
    ASSUME IInv, NEW e \in Envs, NEW v \in Ids, HardDelete(e, v)
    PROVE  Served(e)' = Served(e)
  <1>1. versions \in [Envs -> [Ids -> Row]]
    BY DEF IInv, TypeOK
  <1>2. /\ versions[e][v].status \notin {"active", "canary"}
        /\ versions' = [versions EXCEPT ![e][v] = NoRow]
    BY DEF HardDelete
  <1>3. \A w \in Ids : versions'[e][w] = IF w = v THEN NoRow ELSE versions[e][w]
    BY <1>1, <1>2
  <1>4. NoRow.status = "none"
    BY DEF NoRow
  <1> QED
    BY <1>2, <1>3, <1>4 DEF Served, Active, Canaries, Listed

LEMMA FreezeStep ==
    ASSUME IInv, Next, NEW f \in Envs
    PROVE  Unlocked(f) \/ Served(f)' = Served(f)
  <1>1. ASSUME Quiet PROVE Served(f)' = Served(f)
    BY <1>1, SameServed DEF Quiet
  <1>2. ASSUME NEW e \in Envs, NEW override \in BOOLEAN, Operator(e, override)
        PROVE  Unlocked(f) \/ Served(f)' = Served(f)
    <2>1. TableStep(e) /\ ~Locked(e, override) /\ UNCHANGED <<freeze, job, alert>>
      BY <1>2, OperatorStep DEF RequestStep
    <2>2. CASE f # e
      BY <2>1, <2>2, OthersServed
    <2>3. CASE f = e
      BY <2>1, <2>3 DEF Locked, Unlocked
    <2> QED
      BY <2>2, <2>3
  <1>3. ASSUME NEW e \in Envs, NEW mode \in Freezes[e], SetFreeze(e, mode) PROVE Quiet
    BY <1>3 DEF SetFreeze, Quiet
  <1>4. ASSUME NEW e \in Envs, NEW v \in Ids, SoftDelete(e, v) \/ HardDelete(e, v)
        PROVE  Served(f)' = Served(f)
    BY <1>4, SoftDeleteStep, HardDeleteStep, OthersServed, SoftDeleteServed, HardDeleteServed
  <1>5. ASSUME NEW e, JobStep(e) PROVE Unlocked(f) \/ Served(f)' = Served(f)
    <2>1. CASE f # e
      BY <1>5, <2>1, OthersServed DEF JobStep
    <2>2. CASE f = e
      BY <1>5, <2>2 DEF JobStep, Locked, Unlocked
    <2> QED
      BY <2>1, <2>2
  <1>6. CASE RolloutJob
    BY <1>1, <1>5, <1>6, RolloutJobStep
  <1>7. CASE AlertJob
    BY <1>1, <1>5, <1>7, AlertJobStep
  <1> QED
    BY <1>1, <1>2, <1>3, <1>4, <1>6, <1>7 DEF Next

(* ENV-FRZ-01, POL-05: an organization's freeze stops every change of what *)
(* is served, an environment's stops the two jobs, whatever they had       *)
(* decided before it.                                                      *)
THEOREM Freeze == Spec => FreezeHolds
  <1>1. IInv /\ [Next]_vars =>
            [\A e \in Envs :
                \/ freeze[e] = "org"
                \/ freeze[e] = "frozen" /\ (job' # job \/ alert' # alert)
                => Served(e)' = Served(e)]_vars
    BY FreezeStep DEF Unlocked
  <1> QED
    BY <1>1, Invariant, PTL DEF Spec, FreezeHolds

--------------------------------------------------------------------------------
(* Refinement.                                                             *)

LEMMA ContractTableStep ==
    ASSUME IInv, NEW e \in Envs, TableStep(e)
    PROVE  [Contract!ContractNext]_(Contract!contractVars)
  <1> DEFINE st == [f \in Envs |-> Active(f)]
             ca == [f \in Envs |-> Canaries(f)]
  <1>1. /\ Active(e) = Stable(versions[e]) /\ Canaries(e) = Canary(versions[e])
        /\ Active(e)' = Stable(versions'[e]) /\ Canaries(e)' = Canary(versions'[e])
    BY DEF Active, Canaries, Listed, Stable, Canary
  <1>2. \A f \in Envs : f # e => Active(f)' = Active(f) /\ Canaries(f)' = Canaries(f)
    BY OthersServed DEF Active, Canaries, Listed
  <1>3. st' = [st EXCEPT ![e] = Stable(versions'[e])]
    BY <1>1, <1>2
  <1>4. ca' = [ca EXCEPT ![e] = Canary(versions'[e])]
    BY <1>1, <1>2
  <1>5. st[e] = Stable(versions[e]) /\ ca[e] = Canary(versions[e])
    BY <1>1
  <1>6. ContractStep(versions[e], versions'[e])
    BY DEF TableStep
  <1>7. CASE Same(versions[e], versions'[e])
    <2>1. st' = st /\ ca' = ca
      BY <1>3, <1>4, <1>5, <1>7 DEF Same
    <2> QED
      BY <2>1 DEF Contract!contractVars
  <1>8. CASE Activates(versions[e], versions'[e])
    <2>1. PICK v \in Ids : /\ v \notin Canary(versions[e])
                          /\ Stable(versions'[e]) = {v}
                          /\ Canary(versions'[e]) \in {Canary(versions[e]), {}}
      BY <1>8 DEF Activates
    <2>2. ca' \in {ca, [ca EXCEPT ![e] = {}]}
      BY <1>4, <1>5, <2>1
    <2>3. Contract!Activate(e, v)
      BY <1>3, <1>5, <2>1, <2>2 DEF Contract!Activate
    <2> QED
      BY <2>3 DEF Contract!ContractNext
  <1>9. CASE StartsCanary(versions[e], versions'[e])
    <2>1. PICK v \in Ids : /\ Stable(versions[e]) # {} /\ v \notin Stable(versions[e])
                          /\ Stable(versions'[e]) = Stable(versions[e])
                          /\ Canary(versions'[e]) = {v}
      BY <1>9 DEF StartsCanary
    <2>2. st' = st
      BY <1>3, <1>5, <2>1
    <2>3. Contract!StartCanary(e, v)
      BY <1>4, <1>5, <2>1, <2>2 DEF Contract!StartCanary
    <2> QED
      BY <2>3 DEF Contract!ContractNext
  <1>10. CASE EndsCanary(versions[e], versions'[e])
    <2>1. st' = st
      BY <1>3, <1>5, <1>10 DEF EndsCanary
    <2>2. Contract!EndCanary(e)
      BY <1>4, <1>5, <1>10, <2>1 DEF EndsCanary, Contract!EndCanary
    <2> QED
      BY <2>2 DEF Contract!ContractNext
  <1>11. CASE PromotesCanary(versions[e], versions'[e])
    <2>1. Contract!PromoteCanary(e)
      BY <1>3, <1>4, <1>5, <1>11 DEF PromotesCanary, Contract!PromoteCanary
    <2> QED
      BY <2>1 DEF Contract!ContractNext
  <1> QED
    BY <1>6, <1>7, <1>8, <1>9, <1>10, <1>11 DEF ContractStep

(* The operations, the jobs and the garbage collection, in any order, are  *)
(* steps of ReleaseContract: an environment never loses its stable version *)
(* and a canary only runs next to one.                                     *)
THEOREM Refinement == Spec => ImplementsContract
  <1>1. Init => Contract!ContractInit
    <2> SUFFICES ASSUME Init PROVE Contract!ContractInit
      OBVIOUS
    <2>1. \A e \in Envs : Active(e) = {} /\ Canaries(e) = {}
      BY DEF Init, Active, Canaries, Listed, NoRow
    <2> QED
      BY <2>1 DEF Contract!ContractInit
  <1>2. IInv /\ [Next]_vars => [Contract!ContractNext]_(Contract!contractVars)
    <2> SUFFICES ASSUME IInv, [Next]_vars
                 PROVE  [Contract!ContractNext]_(Contract!contractVars)
      OBVIOUS
    <2>1. ASSUME UNCHANGED versions PROVE UNCHANGED Contract!contractVars
      BY <2>1 DEF Contract!contractVars, Active, Canaries, Listed
    <2>2. CASE UNCHANGED vars
      BY <2>1, <2>2 DEF vars
    <2>3. CASE Next
      <3>1. Quiet \/ \E e \in Envs : TableStep(e)
        BY <2>3, NextStep
      <3> QED
        BY <2>1, <3>1, ContractTableStep DEF Quiet
    <2> QED
      BY <2>2, <2>3
  <1> QED
    BY <1>1, <1>2, Invariant, PTL DEF Spec, ImplementsContract, Contract!ContractSpec

================================================================================
