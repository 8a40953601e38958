-------------------------- MODULE Membership_proofs --------------------------
(* Proofs about Membership, for all users, roles and requests.             *)
EXTENDS Membership, FiniteSetTheorems, TLAPS

\* The levels order the roles: only owners are at least owners, and only they and
\* administrators are at least administrators.
LEMMA RoleOrder ==
  /\ \A a \in DOMAIN RoleLevels : AtLeast(a, "admin") => a \in {"admin", "owner"}
  /\ \A a \in DOMAIN RoleLevels : AtLeast(a, "owner") => a = "owner"
<1>1. DOMAIN RoleLevels = {"viewer", "evaluator", "admin", "owner"}
  BY DEF RoleLevels
<1>2. /\ RoleLevels["viewer"] = 10 /\ RoleLevels["evaluator"] = 20
      /\ RoleLevels["admin"] = 30 /\ RoleLevels["owner"] = 40
  BY DEF RoleLevels
<1>3. ~ AtLeast("viewer", "admin") /\ ~ AtLeast("evaluator", "admin")
  BY <1>2 DEF AtLeast
<1>4. ~ AtLeast("viewer", "owner") /\ ~ AtLeast("evaluator", "owner") /\ ~ AtLeast("admin", "owner")
  BY <1>2 DEF AtLeast
<1> QED BY <1>1, <1>3, <1>4

\* Type correctness.
THEOREM TypeCorrect == Spec => []TypeOK
<1> USE MembershipAssumption
<1>1. Init => TypeOK
  BY DEF Init, TypeOK
<1>2. TypeOK /\ [Next]_vars => TypeOK'
  <2> SUFFICES ASSUME TypeOK, [Next]_vars PROVE TypeOK'
    OBVIOUS
  <2> USE DEF TypeOK, At, Kind, Updating, Answer, Idle, Request
  <2>1. ASSUME NEW r \in Requests, Begin(r) PROVE TypeOK'
    <3>1. PICK kind \in Kinds, as \in PrincipalRoles, target \in Users, to \in Roles \cup {None} :
            /\ AtLeast(as, "admin")
            /\ req' = [req EXCEPT ![r] = [step |-> "read", kind |-> kind, as |-> as,
                                          target |-> target, to |-> to, seen |-> None]]
      BY <2>1 DEF Begin
    <3>2. as \in Roles
      BY DEF PrincipalRoles
    <3>3. as \in {"admin", "owner"}
      BY <3>1, <3>2, RoleOrder, MembershipAssumption
    <3>4. role' = role
      BY <2>1 DEF Begin
    <3> QED BY <3>1, <3>3, <3>4 DEF Kinds
  <2>2. ASSUME NEW r \in Requests, ReadAbsent(r) PROVE TypeOK'
    BY <2>2 DEF ReadAbsent, Proceed
  <2>3. ASSUME NEW r \in Requests, ReadMember(r) PROVE TypeOK'
    <3>1. CASE req' = [req EXCEPT ![r] = Idle]
      BY <2>3, <3>1 DEF ReadMember
    <3>2. CASE \E step \in {"count", "write"} : ProceedHaving(r, step)
      BY <2>3, <3>2 DEF ReadMember, ProceedHaving
    <3> QED BY <2>3, <3>1, <3>2 DEF ReadMember
  <2>4. ASSUME NEW r \in Requests, CountOwners(r) PROVE TypeOK'
    BY <2>4 DEF CountOwners, Proceed
  <2>5. ASSUME NEW r \in Requests, Insert(r) PROVE TypeOK'
    BY <2>5 DEF Insert, Kinds
  <2>6. ASSUME NEW r \in Requests, Update(r) PROVE TypeOK'
    BY <2>6 DEF Update, Kinds
  <2>7. ASSUME NEW r \in Requests, Delete(r) PROVE TypeOK'
    BY <2>7 DEF Delete
  <2>8. CASE UNCHANGED vars
    BY <2>8 DEF vars
  <2> QED BY <2>1, <2>2, <2>3, <2>4, <2>5, <2>6, <2>7, <2>8 DEF Next
<1> QED BY <1>1, <1>2, PTL DEF Spec

-----------------------------------------------------------------------------
(* Grants                                                                  *)

\* A request that may write has passed the role checks: one that adds an owner
\* from the start, one that updates or removes once it has read the target.
Privileged(r) ==
  /\ Kind(r, {"add"}) /\ req[r].to = "owner" => req[r].as = "owner"
  /\ Updating(r) /\ ~ At(r, "read") /\ "owner" \in {req[r].seen, req[r].to} => req[r].as = "owner"

PrivilegeInv == \A r \in Requests : Privileged(r)

LEMMA PrivilegeStep == TypeOK /\ PrivilegeInv /\ [Next]_vars => PrivilegeInv'
<1> SUFFICES ASSUME TypeOK, PrivilegeInv, [Next]_vars PROVE PrivilegeInv'
  OBVIOUS
<1> USE DEF TypeOK, PrivilegeInv, Privileged, At, Kind, Updating, Answer, Idle, Request
<1>1. ASSUME NEW r \in Requests, Begin(r) PROVE PrivilegeInv'
  <2>1. PICK kind \in Kinds, as \in PrincipalRoles, target \in Users, to \in Roles \cup {None} :
          /\ kind = "add" /\ to = "owner" => AtLeast(as, "owner")
          /\ req' = [req EXCEPT ![r] = [step |-> "read", kind |-> kind, as |-> as,
                                        target |-> target, to |-> to, seen |-> None]]
    BY <1>1 DEF Begin
  <2>2. as \in DOMAIN RoleLevels
    BY MembershipAssumption DEF PrincipalRoles
  <2>3. kind = "add" /\ to = "owner" => as = "owner"
    BY <2>1, <2>2, RoleOrder
  <2> QED BY <2>1, <2>3
<1>2. ASSUME NEW r \in Requests, ReadAbsent(r) PROVE PrivilegeInv'
  BY <1>2 DEF ReadAbsent, Proceed
<1>3. ASSUME NEW r \in Requests, ReadMember(r) PROVE PrivilegeInv'
  <2>1. CASE req' = [req EXCEPT ![r] = Idle]
    BY <2>1
  <2>2. CASE /\ ~ ("owner" \in {role[req[r].target], req[r].to} /\ ~ AtLeast(req[r].as, "owner"))
             /\ \E step \in {"count", "write"} : ProceedHaving(r, step)
    <3>1. req[r].as \in DOMAIN RoleLevels
      BY <1>3 DEF ReadMember, RoleLevels
    <3>2. "owner" \in {role[req[r].target], req[r].to} => req[r].as = "owner"
      BY <2>2, <3>1, RoleOrder
    <3> QED BY <1>3, <2>2, <3>2 DEF ReadMember, ProceedHaving
  <2> QED BY <1>3, <2>1, <2>2 DEF ReadMember
<1>4. ASSUME NEW r \in Requests, CountOwners(r) PROVE PrivilegeInv'
  BY <1>4 DEF CountOwners, Proceed
<1>5. ASSUME NEW r \in Requests, Insert(r) \/ Update(r) \/ Delete(r) PROVE PrivilegeInv'
  BY <1>5 DEF Insert, Update, Delete
<1>6. CASE UNCHANGED vars
  BY <1>6 DEF vars
<1> QED BY <1>1, <1>2, <1>3, <1>4, <1>5, <1>6 DEF Next

THEOREM PrivilegeChecked == Spec => []PrivilegeInv
<1>1. Init => PrivilegeInv
  BY DEF Init, PrivilegeInv, Privileged, Kind, Updating, At, Idle
<1> QED BY <1>1, PrivilegeStep, TypeCorrect, PTL DEF Spec

\* The three writes, and that no other step changes a role.
LEMMA WhoWrites ==
  [Next]_vars => \/ role' = role
                 \/ \E r \in Requests : Insert(r) \/ Update(r) \/ Delete(r)
BY DEF Next, vars, Begin, ReadAbsent, ReadMember, CountOwners

\* Only owners make owners, however many requests run concurrently.
THEOREM OwnersMakeOwners == Spec => GrantsByOwners
<1> DEFINE Granted == \A u \in Users : role[u] # "owner" /\ role'[u] = "owner" =>
              \E r \in Requests : At(r, "write") /\ req[r].target = u /\ req[r].as = "owner"
<1>1. TypeOK /\ PrivilegeInv /\ [Next]_vars => [Granted]_vars
  <2> SUFFICES ASSUME TypeOK, PrivilegeInv, [Next]_vars,
                      NEW u \in Users, role[u] # "owner", role'[u] = "owner"
               PROVE  \E r \in Requests : At(r, "write") /\ req[r].target = u /\ req[r].as = "owner"
    OBVIOUS
  <2>1. PICK r \in Requests : Insert(r) \/ Update(r) \/ Delete(r)
    BY WhoWrites
  <2>2. role'[u] = req[r].to /\ req[r].target = u /\ At(r, "write") /\ ~ Kind(r, {"remove"})
    BY <2>1, MembershipAssumption DEF TypeOK, Insert, Update, Delete, Kind, At, RoleLevels
  <2>3. Kind(r, {"add"}) \/ Updating(r)
    BY <2>1 DEF Insert, Update, Delete, Kind, Updating
  <2>4. req[r].as = "owner"
    BY <2>2, <2>3 DEF PrivilegeInv, Privileged, At
  <2> QED BY <2>2, <2>4
<1> QED BY <1>1, TypeCorrect, PrivilegeChecked, PTL DEF Spec, GrantsByOwners
-----------------------------------------------------------------------------
(* Updates and removals served one at a time                               *)

\* An update past its reads still has the role it read, which is a member's;
\* past the count, one that takes an owner's role leaves another owner.
ReadHolds(r) ==
  Updating(r) /\ ~ At(r, "read") => role[req[r].target] = req[r].seen /\ req[r].seen # None
LeavesAnOwner(r) ==
  Updating(r) /\ At(r, "write") /\ req[r].seen = "owner" /\ req[r].to # "owner"
    => \E v \in Users \ {req[r].target} : role[v] = "owner"

SerialInv ==
  /\ \A r, s \in Requests : Updating(r) /\ Updating(s) => r = s
  /\ \A r \in Requests : /\ Kind(r, {"remove"}) => req[r].to = None
                         /\ ReadHolds(r)
                         /\ LeavesAnOwner(r)
  /\ OwnerRetained

\* More than one owner: one besides any user.
LEMMA AnotherOwner ==
  ASSUME NEW t \in Users, Cardinality(Owners) > 1
  PROVE  \E v \in Users \ {t} : role[v] = "owner"
<1> SUFFICES ASSUME Owners \subseteq {t} PROVE FALSE
  BY DEF Owners
<1>1. IsFiniteSet({t}) /\ Cardinality({t}) = 1
  BY FS_Singleton
<1>2. Cardinality(Owners) <= 1
  BY <1>1, FS_Subset
<1>3. Cardinality(Owners) \in Nat
  BY <1>1, FS_Subset, FS_CardinalityType
<1> QED BY <1>2, <1>3

\* What a request that begins is.
LEMMA BeginShape ==
  ASSUME NEW r \in Requests, Begin(r)
  PROVE  \E kind \in Kinds, as \in PrincipalRoles, target \in Users, to \in Roles \cup {None} :
           /\ kind = "remove" => to = None
           /\ kind # "add" => Cardinality(UpdatingRequests) < MaxUpdates
           /\ req' = [req EXCEPT ![r] = [step |-> "read", kind |-> kind, as |-> as,
                                         target |-> target, to |-> to, seen |-> None]]
BY Zenon DEF Begin

LEMMA SerialStep ==
  ASSUME MaxUpdates = 1, TypeOK, SerialInv, [Next]_vars
  PROVE  SerialInv'
<1> USE DEF TypeOK, SerialInv, ReadHolds, LeavesAnOwner, OwnerRetained, Owners,
            At, Kind, Updating, Answer, Idle, Request
<1>1. ASSUME NEW r \in Requests, Begin(r) PROVE SerialInv'
  <2> HIDE DEF At, Kind, Updating, Idle, Request
  <2>1. PICK kind \in Kinds, as \in PrincipalRoles, target \in Users, to \in Roles \cup {None} :
          /\ kind = "remove" => to = None
          /\ kind # "add" => Cardinality(UpdatingRequests) < MaxUpdates
          /\ req' = [req EXCEPT ![r] = [step |-> "read", kind |-> kind, as |-> as,
                                        target |-> target, to |-> to, seen |-> None]]
    BY <1>1, BeginShape
  <2>2. role' = role
    BY <1>1 DEF Begin
  <2>3. kind # "add" => \A s \in Requests : ~ Updating(s)
    <3> SUFFICES ASSUME kind # "add" PROVE UpdatingRequests = {}
      BY DEF UpdatingRequests
    <3>1. IsFiniteSet(UpdatingRequests)
      BY FS_Subset, MembershipAssumption DEF UpdatingRequests
    <3>2. Cardinality(UpdatingRequests) \in Nat /\ Cardinality(UpdatingRequests) < 1
      BY <2>1, <3>1, FS_CardinalityType
    <3>3. Cardinality(UpdatingRequests) = 0
      BY <3>2
    <3> QED BY <3>1, <3>3, FS_EmptySet
  <2>4. \A s \in Requests : Updating(s)' => IF s = r THEN kind # "add" ELSE Updating(s)
    BY <2>1 DEF Kinds, Updating, Kind, At
  <2> QED BY <2>1, <2>2, <2>3, <2>4 DEF At, Kind, Updating
<1>2. ASSUME NEW r \in Requests, ReadAbsent(r) PROVE SerialInv'
  BY <1>2 DEF ReadAbsent, Proceed
<1>3. ASSUME NEW r \in Requests, ReadMember(r) PROVE SerialInv'
  <2>1. CASE req' = [req EXCEPT ![r] = Idle]
    BY <1>3, <2>1 DEF ReadMember
  <2>2. CASE /\ role[req[r].target] # None
             /\ ProceedHaving(r, IF role[req[r].target] = "owner" /\ req[r].to # "owner"
                                   THEN "count" ELSE "write")
    BY <1>3, <2>2 DEF ReadMember, ProceedHaving
  <2> QED BY <1>3, <2>1, <2>2 DEF ReadMember
<1>4. ASSUME NEW r \in Requests, CountOwners(r) PROVE SerialInv'
  <2>1. CASE req' = [req EXCEPT ![r] = Idle]
    BY <1>4, <2>1 DEF CountOwners
  <2>2. CASE Cardinality(Owners) > 1 /\ Proceed(r, "write")
    <3>1. req[r].target \in Users
      BY <1>4 DEF CountOwners
    <3>2. \E v \in Users \ {req[r].target} : role[v] = "owner"
      BY <2>2, <3>1, AnotherOwner
    <3> QED BY <1>4, <2>2, <3>2 DEF CountOwners, Proceed
  <2> QED BY <1>4, <2>1, <2>2 DEF CountOwners
<1>5. ASSUME NEW r \in Requests, Insert(r) PROVE SerialInv'
  <2>1. \A u \in Users : role[u] # None => role'[u] = role[u]
    BY <1>5 DEF Insert
  <2>2. \A s \in Requests : s # r => req'[s] = req[s]
    BY <1>5 DEF Insert
  <2>3. req'[r] = Idle
    BY <1>5 DEF Insert
  <2>4. None # "owner"
    BY MembershipAssumption DEF RoleLevels
  <2> QED BY <2>1, <2>2, <2>3, <2>4
<1>6. ASSUME NEW r \in Requests, Update(r) \/ Delete(r) PROVE SerialInv'
  <2>1. req' = [req EXCEPT ![r] = Idle]
    BY <1>6 DEF Update, Delete
  <2>2. \A s \in Requests : ~ Updating(s)'
    BY <1>6, <2>1 DEF Update, Delete
  <2>3. \E v \in Users : role'[v] = "owner"
    <3>1. \/ role' = role
          \/ role' = [role EXCEPT ![req[r].target] = req[r].to]
      BY <1>6 DEF Update, Delete
    <3>2. CASE role' = role
      BY <3>2
    <3>3. CASE role' = [role EXCEPT ![req[r].target] = "owner"]
      BY <1>6, <3>3 DEF Update, Delete
    <3>4. CASE req[r].to # "owner" /\ role' = [role EXCEPT ![req[r].target] = req[r].to]
      <4>1. \E v \in Users \ {req[r].target} : role[v] = "owner"
        <5>1. CASE req[r].seen = "owner"
          BY <1>6, <3>4, <5>1 DEF Update, Delete
        <5>2. CASE req[r].seen # "owner"
          <6>1. role[req[r].target] # "owner"
            BY <1>6, <5>2 DEF Update, Delete
          <6> QED BY <6>1
        <5> QED BY <5>1, <5>2
      <4>2. PICK v \in Users \ {req[r].target} : role[v] = "owner"
        BY <4>1
      <4>3. role'[v] = role[v]
        BY <3>4, <4>2
      <4> QED BY <4>2, <4>3
    <3> QED BY <3>1, <3>2, <3>3, <3>4
  <2> QED BY <2>1, <2>2, <2>3
<1>7. CASE UNCHANGED vars
  BY <1>7 DEF vars
<1> QED BY <1>1, <1>2, <1>3, <1>4, <1>5, <1>6, <1>7 DEF Next

\* The check of _ensure_not_last_owner is enough when one update or removal is
\* served at a time, whatever additions run beside it.
THEOREM LastOwnerRetained == MaxUpdates = 1 => (Spec => []OwnerRetained)
<1> SUFFICES ASSUME MaxUpdates = 1 PROVE Spec => []OwnerRetained
  OBVIOUS
<1>1. Init => SerialInv
  BY MembershipAssumption
     DEF Init, SerialInv, ReadHolds, LeavesAnOwner, OwnerRetained, Owners, Kind, Updating, At, Idle
<1>2. TypeOK /\ SerialInv /\ [Next]_vars => SerialInv'
  BY SerialStep
<1>3. SerialInv => OwnerRetained
  BY DEF SerialInv
<1> QED BY <1>1, <1>2, <1>3, TypeCorrect, PTL DEF Spec

\* While updates and removals are served one at a time, an owner is unseated only
\* by an owner's request: the role ReadMember checked is still the target's when
\* the write is made.
THEOREM OwnersUnseatOwners == MaxUpdates = 1 => (Spec => OwnersUnseatedByOwners)
<1> SUFFICES ASSUME MaxUpdates = 1 PROVE Spec => OwnersUnseatedByOwners
  OBVIOUS
<1> DEFINE Unseated == \A u \in Users : role[u] = "owner" /\ role'[u] # "owner" =>
              \E r \in Requests : At(r, "write") /\ req[r].target = u /\ req[r].as = "owner"
<1>1. TypeOK /\ PrivilegeInv /\ SerialInv /\ [Next]_vars => [Unseated]_vars
  <2> SUFFICES ASSUME TypeOK, PrivilegeInv, SerialInv, [Next]_vars,
                      NEW u \in Users, role[u] = "owner", role'[u] # "owner"
               PROVE  \E r \in Requests : At(r, "write") /\ req[r].target = u /\ req[r].as = "owner"
    OBVIOUS
  <2>1. PICK r \in Requests : Insert(r) \/ Update(r) \/ Delete(r)
    BY WhoWrites
  <2>2. None # "owner"
    BY MembershipAssumption DEF RoleLevels
  <2>3. Updating(r) /\ At(r, "write") /\ req[r].target = u
    BY <2>1, <2>2 DEF TypeOK, Insert, Update, Delete, Updating, Kind, At
  <2>4. req[r].seen = "owner"
    BY <2>3 DEF SerialInv, ReadHolds, At
  <2>5. req[r].as = "owner"
    BY <2>3, <2>4 DEF PrivilegeInv, Privileged, At
  <2> QED BY <2>3, <2>5
<1>2. Init => SerialInv
  BY MembershipAssumption
     DEF Init, SerialInv, ReadHolds, LeavesAnOwner, OwnerRetained, Owners, Kind, Updating, At, Idle
<1>3. TypeOK /\ SerialInv /\ [Next]_vars => SerialInv'
  BY SerialStep
<1> QED BY <1>1, <1>2, <1>3, TypeCorrect, PrivilegeChecked, PTL DEF Spec, OwnersUnseatedByOwners
=============================================================================
