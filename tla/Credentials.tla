----------------------------- MODULE Credentials -----------------------------
(***************************************************************************)
(* The credentials of one user: api/auth.py login, change_password,        *)
(* switch_organization, logout, create_api_key and revoke_api_key, as      *)
(* concurrent requests over PostgreSQL (READ COMMITTED).                   *)
(*                                                                         *)
(* login reads the user row FOR UPDATE and holds it until it commits.      *)
(* change_password reads it without a lock; the pending UPDATE of the row  *)
(* is flushed, and so locks it, before the query for the other sessions.   *)
(* A row inserted with a foreign key to the user waits for login's lock    *)
(* but not for change_password's.                                          *)
(***************************************************************************)
EXTENDS Naturals, FiniteSets

CONSTANTS Passwords,
          FirstPassword,
          Tokens,      \* session tokens that may be issued
          KeyNames,    \* names of personal API keys
          Requests,    \* requests served concurrently
          Kinds,       \* kinds of authenticated request, of AllKinds
          MaxFailed,   \* MAX_FAILED_LOGIN_ATTEMPTS
          None

AllKinds == {"change", "switch", "logout", "create_key", "revoke_key"}

ASSUME CredentialsAssumption ==
  /\ FirstPassword \in Passwords
  /\ Kinds \subseteq AllKinds
  /\ MaxFailed \in Nat \ {0}
  /\ Tokens \cap KeyNames = {}
  /\ None \notin Tokens \cup KeyNames \cup Requests

VARIABLES account,   \* the User row
          session,   \* the AuthSession row of each token
          key,       \* the PersonalApiKey row of each name
          holder,    \* the request that holds the lock of the User row
          req,       \* what each request is doing
          wrong      \* history: wrong passwords answered in this period

vars == <<account, session, key, holder, req, wrong>>

Account == [password : Passwords, failures : 0 .. MaxFailed, lock : {"none", "until", "past"}]
CredentialStates == {"none", "active", "expired", "revoked"}

Idle == [step |-> "idle"]
Login == [step : {"login"}, seen : Account, password : Passwords,
          member : BOOLEAN, token : Tokens]
Authenticated == [step : {"read", "act"}, kind : AllKinds, by : Tokens \cup KeyNames,
                  token : Tokens \cup {None}, name : KeyNames \cup {None}]
Changing == [step : {"change"}, by : Tokens \cup KeyNames, others : SUBSET Tokens]

TypeOK ==
  /\ account \in Account
  /\ session \in [Tokens -> [state : CredentialStates, from : {"login", "switch", None}]]
  /\ key \in [KeyNames -> CredentialStates]
  /\ holder \in Requests \cup {None}
  /\ req \in [Requests -> {Idle} \cup Login \cup Authenticated \cup Changing]
  /\ wrong \in Nat

\* After bootstrap or add_member.
Init ==
  /\ account = [password |-> FirstPassword, failures |-> 0, lock |-> "none"]
  /\ session = [t \in Tokens |-> [state |-> "none", from |-> None]]
  /\ key = [n \in KeyNames |-> "none"]
  /\ holder = None
  /\ req = [r \in Requests |-> Idle]
  /\ wrong = 0
-----------------------------------------------------------------------------
At(r, step) == req[r].step = step
Usable == {t \in Tokens : session[t].state = "active"} \cup {n \in KeyNames : key[n] = "active"}

\* A token no session has and no request has drawn.
Fresh(t) ==
  /\ session[t].state = "none"
  /\ \A r \in Requests : req[r].step \in {"login", "act"} => req[r].token # t

Answer(r) == req' = [req EXCEPT ![r] = Idle]
Issue(t, from) == session' = [session EXCEPT ![t] = [state |-> "active", from |-> from]]
Revoked(S) == [t \in Tokens |-> IF t \in S THEN [session[t] EXCEPT !.state = "revoked"] ELSE session[t]]

\* Inserting a row that references the user needs a share of its lock.
MayReference == \A r \in Requests : At(r, "login") => holder # r
-----------------------------------------------------------------------------
(* Login                                                                   *)

\* Variant: the user is read without FOR UPDATE.
LoginReadUnlocked(r) ==
  /\ At(r, "idle")
  /\ \E p \in Passwords, member \in BOOLEAN, t \in Tokens :
       /\ Fresh(t)
       /\ req' = [req EXCEPT ![r] = [step |-> "login", seen |-> account, password |-> p,
                                     member |-> member, token |-> t]]
  /\ UNCHANGED <<account, session, key, holder, wrong>>

\* SELECT ... FOR UPDATE.  member: the user belongs to the organisation asked for.
LoginRead(r) ==
  /\ At(r, "idle") /\ holder = None
  /\ holder' = r
  /\ \E p \in Passwords, member \in BOOLEAN, t \in Tokens :
       /\ Fresh(t)
       /\ req' = [req EXCEPT ![r] = [step |-> "login", seen |-> account, password |-> p,
                                     member |-> member, token |-> t]]
  /\ UNCHANGED <<account, session, key, wrong>>

\* The attempts made, counted again from 0 when a lock has run out.
Attempts(r) == IF req[r].seen.lock = "none" THEN req[r].seen.failures ELSE 0
Right(r) == req[r].password = req[r].seen.password
Locked(r) == req[r].seen.lock = "until" /\ account.lock = "until"

FinishLogin(r) ==
  /\ holder' = IF holder = r THEN None ELSE holder
  /\ Answer(r)

\* While the lock lasts, right and wrong passwords are answered alike.
LoginLocked(r) ==
  /\ At(r, "login") /\ Locked(r)
  /\ FinishLogin(r)
  /\ UNCHANGED <<account, session, key, wrong>>

LoginWrong(r) ==
  /\ At(r, "login") /\ ~ Locked(r) /\ ~ Right(r)
  /\ account' = [account EXCEPT
                   !.failures = Attempts(r) + 1,
                   !.lock = IF Attempts(r) + 1 >= MaxFailed THEN "until" ELSE "none"]
  /\ wrong' = wrong + 1
  /\ FinishLogin(r)
  /\ UNCHANGED <<session, key>>

LoginRight(r) ==
  /\ At(r, "login") /\ ~ Locked(r) /\ Right(r)
  /\ account' = [account EXCEPT !.failures = 0, !.lock = "none"]
  /\ wrong' = 0
  /\ IF req[r].member THEN Issue(req[r].token, "login") ELSE UNCHANGED session
  /\ FinishLogin(r)
  /\ UNCHANGED key
-----------------------------------------------------------------------------
(* Requests that present a session or a personal API key                   *)

\* get_current_principal.
Authenticate(r) ==
  /\ At(r, "idle")
  /\ \E kind \in Kinds, c \in Usable,
        t \in Tokens \cup {None}, n \in KeyNames \cup {None} :
       /\ IF kind = "switch" THEN t # None /\ Fresh(t) ELSE t = None
       /\ kind \in {"create_key", "revoke_key"} <=> n # None
       /\ req' = [req EXCEPT ![r] =
                    [step |-> IF kind \in {"change", "create_key"} THEN "read" ELSE "act",
                     kind |-> kind, by |-> c, token |-> t, name |-> n]]
  /\ UNCHANGED <<account, session, key, holder, wrong>>

\* change_password verifies the current password it is given.
ChangeRead(r) ==
  /\ At(r, "read") /\ req[r].kind = "change"
  /\ \E p \in Passwords :
       IF p = account.password THEN req' = [req EXCEPT ![r].step = "act"] ELSE Answer(r)
  /\ UNCHANGED <<account, session, key, holder, wrong>>

\* Sessions not revoked yet, but for the caller's.
OtherSessions(r) == {t \in Tokens \ {req[r].by} : session[t].state \in {"active", "expired"}}

\* Variant: the sessions are selected before the row is locked.
ChangeLockLate(r) ==
  /\ At(r, "act") /\ req[r].kind = "change"
  /\ holder' = r
  /\ req' = [req EXCEPT ![r] = [step |-> "change", by |-> req[r].by, others |-> OtherSessions(r)]]
  /\ UNCHANGED <<account, session, key, wrong>>

\* The UPDATE of the user row is flushed, then the other sessions are selected.
ChangeLock(r) ==
  /\ At(r, "act") /\ req[r].kind = "change"
  /\ holder = None
  /\ holder' = r
  /\ req' = [req EXCEPT ![r] = [step |-> "change", by |-> req[r].by, others |-> OtherSessions(r)]]
  /\ UNCHANGED <<account, session, key, wrong>>

ChangeCommit(r) ==
  /\ At(r, "change")
  /\ \E p \in Passwords : account' = [account EXCEPT !.password = p]
  /\ session' = Revoked(req[r].others)
  /\ holder' = None
  /\ Answer(r)
  /\ UNCHANGED <<key, wrong>>

\* switch_organization: 404 when the user does not belong to the other one.
Switch(r) ==
  /\ At(r, "act") /\ req[r].kind = "switch"
  /\ \/ MayReference /\ Issue(req[r].token, "switch")
     \/ UNCHANGED session
  /\ Answer(r)
  /\ UNCHANGED <<account, key, holder, wrong>>

Logout(r) ==
  /\ At(r, "act") /\ req[r].kind = "logout"
  /\ session' = Revoked({req[r].by} \cap Tokens)
  /\ Answer(r)
  /\ UNCHANGED <<account, key, holder, wrong>>

\* create_api_key: 409 when a key, revoked or not, has the name.
CheckKeyName(r) ==
  /\ At(r, "read") /\ req[r].kind = "create_key"
  /\ IF key[req[r].name] = "none" THEN req' = [req EXCEPT ![r].step = "act"] ELSE Answer(r)
  /\ UNCHANGED <<account, session, key, holder, wrong>>

\* Variant: without the unique constraint, a second row revives the name.
InsertKeyAnyway(r) ==
  /\ At(r, "act") /\ req[r].kind = "create_key" /\ MayReference
  /\ key' = [key EXCEPT ![req[r].name] = "active"]
  /\ Answer(r)
  /\ UNCHANGED <<account, session, holder, wrong>>

\* The unique constraint rejects a name taken meanwhile.
InsertKey(r) ==
  /\ At(r, "act") /\ req[r].kind = "create_key" /\ MayReference
  /\ key' = IF key[req[r].name] = "none" THEN [key EXCEPT ![req[r].name] = "active"] ELSE key
  /\ Answer(r)
  /\ UNCHANGED <<account, session, holder, wrong>>

RevokeKey(r) ==
  /\ At(r, "act") /\ req[r].kind = "revoke_key"
  /\ key' = IF key[req[r].name] = "none" THEN key ELSE [key EXCEPT ![req[r].name] = "revoked"]
  /\ Answer(r)
  /\ UNCHANGED <<account, session, holder, wrong>>
-----------------------------------------------------------------------------
\* The request fails or its client goes: the transaction is rolled back.
Abandon(r) ==
  /\ ~ At(r, "idle")
  /\ FinishLogin(r)
  /\ UNCHANGED <<account, session, key, wrong>>

\* Time passes: the lock runs out and starts a new period, credentials expire.
LockRunsOut ==
  /\ account.lock = "until"
  /\ account' = [account EXCEPT !.lock = "past"]
  /\ wrong' = 0
  /\ UNCHANGED <<session, key, holder, req>>

ExpireSession(t) ==
  /\ session[t].state = "active"
  /\ session' = [session EXCEPT ![t].state = "expired"]
  /\ UNCHANGED <<account, key, holder, req, wrong>>

ExpireKey(n) ==
  /\ key[n] = "active"
  /\ key' = [key EXCEPT ![n] = "expired"]
  /\ UNCHANGED <<account, session, holder, req, wrong>>

Next ==
  \/ \E r \in Requests :
       \/ LoginRead(r) \/ LoginLocked(r) \/ LoginWrong(r) \/ LoginRight(r)
       \/ Authenticate(r) \/ ChangeRead(r) \/ ChangeLock(r) \/ ChangeCommit(r)
       \/ Switch(r) \/ Logout(r) \/ CheckKeyName(r) \/ InsertKey(r) \/ RevokeKey(r)
       \/ Abandon(r)
  \/ LockRunsOut
  \/ \E t \in Tokens : ExpireSession(t)
  \/ \E n \in KeyNames : ExpireKey(n)

Spec == Init /\ [][Next]_vars
-----------------------------------------------------------------------------
(* Properties                                                              *)

\* docs/authentication.md: five failed attempts lock the account.  However many
\* logins run at once, none of them goes uncounted.
AttemptsCounted ==
  /\ wrong <= MaxFailed
  /\ wrong = MaxFailed => account.lock = "until"
  /\ account.lock # "past" => account.failures = wrong

\* A login issues a session only for the password in force when it commits, and
\* never while the account is locked.
LoginsAreCurrent ==
  [][\A r \in Requests, t \in Tokens :
       At(r, "login") /\ req[r].token = t /\ session[t].state = "none" /\ session'[t].state = "active"
         => req[r].password = account.password /\ account.lock # "until"]_vars

\* docs/authentication.md: a password change revokes the user's other login
\* sessions, those of logins that ran beside it included.
ChangeRevokesLogins ==
  [][\A r \in Requests :
       At(r, "change") /\ account'.password # account.password =>
         \A t \in Tokens \ {req[r].by} :
           session[t].state = "active" /\ session[t].from = "login" => session'[t].state = "revoked"]_vars

\* What was revoked, or has expired, authenticates nobody again.
CredentialsEndForGood ==
  [][/\ \A t \in Tokens : session[t].state \in {"expired", "revoked"} => session'[t].state # "active"
     /\ \A n \in KeyNames : key[n] \in {"expired", "revoked"} => key'[n] # "active"]_vars
=============================================================================
