----------------------------- MODULE Membership -----------------------------
(***************************************************************************)
(* The members of one organisation: api/organizations.py add_member,       *)
(* update_member and remove_member, each a sequence of unlocked reads      *)
(* (PostgreSQL, READ COMMITTED) followed by one write, by concurrent       *)
(* requests.                                                               *)
(***************************************************************************)
EXTENDS Naturals, FiniteSets

CONSTANTS Users,
          Founder,     \* the owner that bootstrap or create_organization adds
          Roles,       \* the roles used, of those in RoleLevels
          Requests,    \* requests served concurrently
          MaxUpdates,  \* bound on the updates and removals among them
          None         \* no membership

\* core/tenancy.py
RoleLevels == [viewer |-> 10, evaluator |-> 20, admin |-> 30, owner |-> 40]
AtLeast(r, minimum) == RoleLevels[r] >= RoleLevels[minimum]

ASSUME MembershipAssumption ==
  /\ IsFiniteSet(Users) /\ Founder \in Users
  /\ IsFiniteSet(Requests)
  /\ Roles \subseteq DOMAIN RoleLevels /\ {"admin", "owner"} \subseteq Roles
  /\ MaxUpdates \in Nat
  /\ None \notin DOMAIN RoleLevels

VARIABLES role,  \* Membership.role of each user, None without a row
          req    \* the request each slot is serving

vars == <<role, req>>

Kinds == {"add", "update", "remove"}
Request == [step : {"read", "count", "write"}, kind : Kinds,
            as : {"admin", "owner"},       \* the principal's role, read once
            target : Users,
            to : Roles \cup {None},        \* None for a removal
            seen : Roles \cup {None}]      \* the target's role when read
Idle == [step |-> "idle"]

TypeOK ==
  /\ role \in [Users -> Roles \cup {None}]
  /\ req \in [Requests -> Request \cup {Idle}]

Init ==
  /\ role = [u \in Users |-> IF u = Founder THEN "owner" ELSE None]
  /\ req = [r \in Requests |-> Idle]
-----------------------------------------------------------------------------
Owners == {u \in Users : role[u] = "owner"}

At(r, step) == req[r].step = step
Kind(r, K) == ~ At(r, "idle") /\ req[r].kind \in K
Updating(r) == Kind(r, {"update", "remove"})
UpdatingRequests == {r \in Requests : Updating(r)}

Answer(r) == req' = [req EXCEPT ![r] = Idle]
Proceed(r, step) == req' = [req EXCEPT ![r].step = step]
ProceedHaving(r, step) == req' = [req EXCEPT ![r].step = step, ![r].seen = role[req[r].target]]

\* The role the principal is authenticated with: a member's, or owner for the
\* system API key and the development mode.
PrincipalRoles == {"owner"} \cup {role[u] : u \in {v \in Users : role[v] # None}}

\* Variant: anyone who may manage members may add an owner.
BeginAnyGrant(r) ==
  /\ At(r, "idle")
  /\ \E kind \in Kinds, as \in PrincipalRoles, target \in Users, to \in Roles \cup {None} :
       /\ AtLeast(as, "admin")
       /\ kind = "remove" <=> to = None
       /\ kind # "add" => Cardinality(UpdatingRequests) < MaxUpdates
       /\ req' = [req EXCEPT ![r] = [step |-> "read", kind |-> kind, as |-> as,
                                     target |-> target, to |-> to, seen |-> None]]
  /\ UNCHANGED role

\* get_current_principal and the role checks that need nothing else.
Begin(r) ==
  /\ At(r, "idle")
  /\ \E kind \in Kinds, as \in PrincipalRoles, target \in Users, to \in Roles \cup {None} :
       /\ AtLeast(as, "admin")
       /\ kind = "remove" <=> to = None
       /\ kind = "add" /\ to = "owner" => AtLeast(as, "owner")
       /\ kind # "add" => Cardinality(UpdatingRequests) < MaxUpdates
       /\ req' = [req EXCEPT ![r] = [step |-> "read", kind |-> kind, as |-> as,
                                     target |-> target, to |-> to, seen |-> None]]
  /\ UNCHANGED role

\* add_member: 409 when the membership exists.
ReadAbsent(r) ==
  /\ At(r, "read") /\ Kind(r, {"add"})
  /\ IF role[req[r].target] = None THEN Proceed(r, "write") ELSE Answer(r)
  /\ UNCHANGED role

\* Variant: an administrator may change an owner.
ReadMemberAnyRole(r) ==
  /\ At(r, "read") /\ Updating(r)
  /\ LET q == req[r]
         seen == role[q.target]
     IN  IF seen = None THEN Answer(r)
         ELSE ProceedHaving(r, IF seen = "owner" /\ q.to # "owner" THEN "count" ELSE "write")
  /\ UNCHANGED role

\* update_member, remove_member: 404 without a membership, 403 when an owner is
\* involved and the principal is none.
ReadMember(r) ==
  /\ At(r, "read") /\ Updating(r)
  /\ LET q == req[r]
         seen == role[q.target]
         owning == "owner" \in {seen, q.to}
     IN  IF seen = None \/ (owning /\ ~ AtLeast(q.as, "owner")) THEN Answer(r)
         ELSE ProceedHaving(r, IF seen = "owner" /\ q.to # "owner" THEN "count" ELSE "write")
  /\ UNCHANGED role

\* Variant: off by one.
CountAnyOwner(r) ==
  /\ At(r, "count")
  /\ IF Cardinality(Owners) > 0 THEN Proceed(r, "write") ELSE Answer(r)
  /\ UNCHANGED role

\* _ensure_not_last_owner: 409 for the last owner.
CountOwners(r) ==
  /\ At(r, "count")
  /\ IF Cardinality(Owners) > 1 THEN Proceed(r, "write") ELSE Answer(r)
  /\ UNCHANGED role

\* The primary key rejects a membership that appeared meanwhile.
Insert(r) ==
  /\ At(r, "write") /\ Kind(r, {"add"})
  /\ role' = IF role[req[r].target] = None THEN [role EXCEPT ![req[r].target] = req[r].to] ELSE role
  /\ Answer(r)

\* An UPDATE, only when the role differs from the one read; of no row when the
\* membership is gone, which is an error.
Update(r) ==
  /\ At(r, "write") /\ Kind(r, {"update"})
  /\ role' = IF req[r].to # req[r].seen /\ role[req[r].target] # None
               THEN [role EXCEPT ![req[r].target] = req[r].to] ELSE role
  /\ Answer(r)

Delete(r) ==
  /\ At(r, "write") /\ Kind(r, {"remove"})
  /\ role' = [role EXCEPT ![req[r].target] = None]
  /\ Answer(r)

Next == \E r \in Requests :
  Begin(r) \/ ReadAbsent(r) \/ ReadMember(r) \/ CountOwners(r) \/ Insert(r) \/ Update(r) \/ Delete(r)

Spec == Init /\ [][Next]_vars
-----------------------------------------------------------------------------
(* Properties                                                              *)

\* docs/authentication.md: an organisation cannot lose its last owner.  The
\* check is enough when updates and removals are not served concurrently.
OwnerRetained == Owners # {}

\* Whatever runs concurrently, someone becomes an owner only through a request
\* whose principal was one.
GrantsByOwners ==
  [][\A u \in Users : role[u] # "owner" /\ role'[u] = "owner" =>
       \E r \in Requests : At(r, "write") /\ req[r].target = u /\ req[r].as = "owner"]_vars

\* ... and, without concurrent updates, ceases to be one only through such a
\* request: the role that was checked is the role that is changed.
OwnersUnseatedByOwners ==
  [][\A u \in Users : role[u] = "owner" /\ role'[u] # "owner" =>
       \E r \in Requests : At(r, "write") /\ req[r].target = u /\ req[r].as = "owner"]_vars
=============================================================================
