-------------------------- MODULE Credentials_proofs --------------------------
(* Proofs about Credentials, for all passwords, tokens, keys and requests. *)
EXTENDS Credentials, TLAPS

\* The inductive invariant.  The row is held by the login or password change under
\* way, and a login has read what the row still says.
Holds ==
  /\ \A r \in Requests : At(r, "login") \/ At(r, "change") <=> holder = r
  /\ \A r \in Requests : At(r, "login") =>
       /\ req[r].seen.password = account.password
       /\ req[r].seen.failures = account.failures
       /\ \/ req[r].seen.lock = account.lock
          \/ req[r].seen.lock = "until" /\ account.lock = "past"

\* The type needs it: the counter is MaxFailed only while the account is locked.
Counted == AttemptsCounted /\ (account.lock = "past" => wrong = 0)

\* What each request draws is its own, and still unissued.
Draws(r) == At(r, "login") \/ (At(r, "act") /\ req[r].kind = "switch")
Drawn ==
  /\ \A r \in Requests : Draws(r) => req[r].token \in Tokens /\ session[req[r].token].state = "none"
  /\ \A r, q \in Requests : Draws(r) /\ Draws(q) /\ req[r].token = req[q].token => r = q

\* While a password change holds the row it has selected every login session.
Selected ==
  \A r \in Requests : At(r, "change") =>
    \A t \in Tokens \ {req[r].by} :
      session[t].state = "active" /\ session[t].from = "login" => t \in req[r].others

\* The sessions a request was authenticated with, or is to revoke, were issued.
Issued ==
  \A r \in Requests :
    /\ At(r, "read") \/ At(r, "act") => \A t \in Tokens : t = req[r].by => session[t].state # "none"
    /\ At(r, "change") => \A t \in req[r].others : session[t].state # "none"

CredInv == TypeOK /\ Holds /\ Counted /\ Drawn /\ Issued /\ Selected

LEMMA InitInv == Init => CredInv
BY CredentialsAssumption
   DEF Init, CredInv, TypeOK, Account, CredentialStates, Holds, Counted, AttemptsCounted,
       Drawn, Draws, Issued, Selected, At, Idle

\* The step of a request tells what it is.
LEMMA Shapes ==
  ASSUME TypeOK, NEW r \in Requests
  PROVE  /\ At(r, "login") => req[r] \in Login
         /\ At(r, "read") \/ At(r, "act") => req[r] \in Authenticated
         /\ At(r, "change") => req[r] \in Changing
<1>1. req[r] \in {Idle} \cup Login \cup Authenticated \cup Changing
  BY DEF TypeOK
<1>2. /\ Idle.step = "idle"
      /\ \A q \in Login : q.step = "login"
      /\ \A q \in Authenticated : q.step \in {"read", "act"}
      /\ \A q \in Changing : q.step = "change"
  BY DEF Idle, Login, Authenticated, Changing
<1> QED BY <1>1, <1>2 DEF At

\* Another wrong password is one more than those counted, and within the limit.
LEMMA NextAttempt ==
  ASSUME CredInv, NEW r \in Requests, At(r, "login"), ~ Locked(r)
  PROVE  Attempts(r) = wrong /\ wrong \in Nat /\ wrong < MaxFailed
<1> USE DEF CredInv
<1>1. account.failures \in Nat /\ account.failures <= MaxFailed /\ MaxFailed \in Nat \ {0}
  BY CredentialsAssumption DEF TypeOK, Account
<1>2. wrong \in Nat /\ wrong <= MaxFailed /\ (wrong = MaxFailed => account.lock = "until")
  BY DEF TypeOK, Counted, AttemptsCounted
<1>3. CASE req[r].seen.lock = "none"
  <2>1. account.lock = "none" /\ req[r].seen.failures = account.failures
    BY <1>3 DEF Holds
  <2>2. account.failures = wrong
    BY <2>1 DEF Counted, AttemptsCounted
  <2> QED BY <1>1, <1>2, <1>3, <2>1, <2>2 DEF Attempts
<1>4. CASE req[r].seen.lock # "none"
  <2>1. req[r].seen.lock = account.lock \/ account.lock = "past"
    BY DEF Holds
  <2>2. account.lock \in {"none", "until", "past"}
    BY DEF TypeOK, Account
  <2>3. account.lock = "past"
    BY <1>4, <2>1, <2>2 DEF Locked
  <2>4. wrong = 0
    BY <2>3 DEF Counted
  <2> QED BY <1>1, <1>4, <2>4 DEF Attempts
<1> QED BY <1>3, <1>4

\* What a request is once it is authenticated.
LEMMA AuthenticateShape ==
  ASSUME NEW r \in Requests, Authenticate(r)
  PROVE  \E kind \in Kinds, c \in Usable,
            t \in Tokens \cup {None}, n \in KeyNames \cup {None} :
           req' = [req EXCEPT ![r] =
                     [step |-> IF kind \in {"change", "create_key"} THEN "read" ELSE "act",
                      kind |-> kind, by |-> c, token |-> t, name |-> n]]
BY Zenon DEF Authenticate

LEMMA TypeStep == CredInv /\ [Next]_vars => TypeOK'
<1> SUFFICES ASSUME CredInv, [Next]_vars PROVE TypeOK'
  OBVIOUS
<1> USE CredentialsAssumption DEF CredInv, TypeOK, At, Answer
<1>1. ASSUME NEW r \in Requests, LoginRead(r) PROVE TypeOK'
  BY <1>1 DEF LoginRead, Login
<1>2. ASSUME NEW r \in Requests, LoginLocked(r) \/ Abandon(r) PROVE TypeOK'
  BY <1>2 DEF LoginLocked, Abandon, FinishLogin
<1>3. ASSUME NEW r \in Requests, LoginWrong(r) PROVE TypeOK'
  <2> DEFINE n == Attempts(r) + 1
             l == IF n >= MaxFailed THEN "until" ELSE "none"
  <2>1. n \in 0 .. MaxFailed
    BY <1>3, NextAttempt DEF LoginWrong
  <2>2. account' = [account EXCEPT !.failures = n, !.lock = l]
    BY <1>3 DEF LoginWrong
  <2>3. l \in {"none", "until", "past"}
    OBVIOUS
  <2> HIDE DEF n, l
  <2>4. account' \in Account
    BY <2>1, <2>2, <2>3 DEF Account
  <2> QED BY <1>3, <2>4 DEF LoginWrong, FinishLogin
<1>4. ASSUME NEW r \in Requests, LoginRight(r) PROVE TypeOK'
  <2>1. req[r].token \in Tokens
    BY <1>4, Shapes DEF LoginRight, Login
  <2>2. account' \in Account
    <3>1. 0 \in 0 .. MaxFailed
      OBVIOUS
    <3>2. account' = [account EXCEPT !.failures = 0, !.lock = "none"]
      BY <1>4 DEF LoginRight
    <3> QED BY <3>1, <3>2 DEF Account
  <2>3. session' \in [Tokens -> [state : CredentialStates, from : {"login", "switch", None}]]
    BY <1>4, <2>1 DEF LoginRight, Issue, CredentialStates
  <2> QED BY <1>4, <2>2, <2>3 DEF LoginRight, FinishLogin
<1>5. ASSUME NEW r \in Requests, Authenticate(r) PROVE TypeOK'
  <2>1. PICK kind \in Kinds, c \in Usable, t \in Tokens \cup {None}, n \in KeyNames \cup {None} :
          req' = [req EXCEPT ![r] =
                    [step |-> IF kind \in {"change", "create_key"} THEN "read" ELSE "act",
                     kind |-> kind, by |-> c, token |-> t, name |-> n]]
    BY <1>5, AuthenticateShape
  <2>2. kind \in AllKinds /\ c \in Tokens \cup KeyNames
    BY DEF Usable
  <2>3. UNCHANGED <<account, session, key, holder, wrong>>
    BY <1>5 DEF Authenticate
  <2> QED BY <2>1, <2>2, <2>3 DEF Authenticated
<1>6. ASSUME NEW r \in Requests, ChangeRead(r) \/ CheckKeyName(r) PROVE TypeOK'
  <2>1. req[r] \in Authenticated
    BY <1>6, Shapes DEF ChangeRead, CheckKeyName
  <2>2. [req[r] EXCEPT !.step = "act"] \in Authenticated
    BY <2>1 DEF Authenticated
  <2> QED BY <1>6, <2>2 DEF ChangeRead, CheckKeyName
<1>7. ASSUME NEW r \in Requests, ChangeLock(r) PROVE TypeOK'
  <2>1. req[r].by \in Tokens \cup KeyNames
    BY <1>7, Shapes DEF ChangeLock, Authenticated
  <2> QED BY <1>7, <2>1 DEF ChangeLock, OtherSessions, Changing
<1>8. ASSUME NEW r \in Requests, ChangeCommit(r) PROVE TypeOK'
  BY <1>8 DEF ChangeCommit, Revoked, Account, CredentialStates
<1>9. ASSUME NEW r \in Requests, Switch(r) PROVE TypeOK'
  BY <1>9 DEF Switch, Issue, CredentialStates
<1>10. ASSUME NEW r \in Requests, Logout(r) PROVE TypeOK'
  BY <1>10 DEF Logout, Revoked, CredentialStates
<1>11. ASSUME NEW r \in Requests, InsertKey(r) \/ RevokeKey(r) PROVE TypeOK'
  BY <1>11 DEF InsertKey, RevokeKey, CredentialStates
<1>12. CASE LockRunsOut
  BY <1>12 DEF LockRunsOut, Account
<1>13. CASE \E t \in Tokens : ExpireSession(t)
  BY <1>13 DEF ExpireSession, CredentialStates
<1>14. CASE \E n \in KeyNames : ExpireKey(n)
  BY <1>14 DEF ExpireKey, CredentialStates
<1>15. CASE UNCHANGED vars
  BY <1>15 DEF vars
<1> QED BY <1>1, <1>2, <1>3, <1>4, <1>5, <1>6, <1>7, <1>8, <1>9, <1>10, <1>11, <1>12, <1>13,
           <1>14, <1>15 DEF Next
\* What the first read of a request leaves it with.
LEMMA ReadStep ==
  ASSUME CredInv, NEW r \in Requests, ChangeRead(r) \/ CheckKeyName(r)
  PROVE  /\ req[r] \in Authenticated /\ req[r].kind \in {"change", "create_key"}
         /\ \/ req' = [req EXCEPT ![r] = Idle]
            \/ req' = [req EXCEPT ![r] = [req[r] EXCEPT !.step = "act"]]
<1>1. req[r] \in Authenticated
  BY Shapes DEF ChangeRead, CheckKeyName, CredInv
<1>2. req[r].kind \in {"change", "create_key"}
  BY DEF ChangeRead, CheckKeyName
<1> QED BY <1>1, <1>2 DEF ChangeRead, CheckKeyName, Answer

LEMMA CountedStep == CredInv /\ [Next]_vars => Counted'
<1> SUFFICES ASSUME CredInv, [Next]_vars PROVE Counted'
  OBVIOUS
<1> USE DEF Counted, AttemptsCounted
<1>1. ASSUME NEW r \in Requests, LoginWrong(r) PROVE Counted'
  <2>1. Attempts(r) = wrong /\ wrong \in Nat /\ wrong < MaxFailed
    BY <1>1, NextAttempt DEF LoginWrong
  <2>2. /\ account'.failures = wrong + 1
        /\ account'.lock = IF wrong + 1 >= MaxFailed THEN "until" ELSE "none"
    BY <1>1, <2>1 DEF LoginWrong, CredInv, TypeOK, Account
  <2>3. wrong' = wrong + 1
    BY <1>1 DEF LoginWrong
  <2> QED BY <2>1, <2>2, <2>3, CredentialsAssumption
<1>2. ASSUME NEW r \in Requests, LoginRight(r) PROVE Counted'
  BY <1>2, CredentialsAssumption DEF LoginRight, CredInv, TypeOK, Account
<1>3. ASSUME NEW r \in Requests, ChangeCommit(r) PROVE Counted'
  BY <1>3 DEF ChangeCommit, CredInv, TypeOK, Account
<1>4. CASE LockRunsOut
  BY <1>4, CredentialsAssumption DEF LockRunsOut, CredInv, TypeOK, Account
<1>5. CASE UNCHANGED <<account, wrong>>
  BY <1>5 DEF CredInv
<1> QED BY <1>1, <1>2, <1>3, <1>4, <1>5
        DEF Next, vars, LoginRead, LoginLocked, Authenticate, ChangeRead, ChangeLock, Switch, Logout,
            CheckKeyName, InsertKey, RevokeKey, Abandon, ExpireSession, ExpireKey

LEMMA HoldsStep == CredInv /\ [Next]_vars => Holds'
<1> SUFFICES ASSUME CredInv, [Next]_vars PROVE Holds'
  OBVIOUS
<1> USE CredentialsAssumption DEF CredInv, TypeOK, Holds, At, Answer, Idle
<1>1. ASSUME NEW r \in Requests, LoginRead(r) PROVE Holds'
  BY <1>1 DEF LoginRead
<1>2. ASSUME NEW r \in Requests, LoginLocked(r) \/ Abandon(r) PROVE Holds'
  BY <1>2 DEF LoginLocked, Abandon, FinishLogin
<1>3. ASSUME NEW r \in Requests, LoginWrong(r) \/ LoginRight(r) PROVE Holds'
  BY <1>3 DEF LoginWrong, LoginRight, FinishLogin
<1>4. ASSUME NEW r \in Requests, Authenticate(r) PROVE Holds'
  BY <1>4 DEF Authenticate
<1>5. ASSUME NEW r \in Requests, ChangeRead(r) \/ CheckKeyName(r) PROVE Holds'
  <2>1. At(r, "read") /\ UNCHANGED <<account, holder>>
    BY <1>5 DEF ChangeRead, CheckKeyName
  <2>2. req[r] \in Authenticated
    BY <1>5, ReadStep
  <2>3. CASE req' = [req EXCEPT ![r] = Idle]
    BY <2>1, <2>3
  <2>4. CASE req' = [req EXCEPT ![r] = [req[r] EXCEPT !.step = "act"]]
    <3>1. req'[r].step = "act"
      BY <2>2, <2>4 DEF Authenticated
    <3>2. \A q \in Requests : q # r => req'[q] = req[q]
      BY <2>4
    <3> QED BY <2>1, <3>1, <3>2
  <2> QED BY <1>5, <2>3, <2>4, ReadStep
<1>6. ASSUME NEW r \in Requests, ChangeLock(r) PROVE Holds'
  BY <1>6 DEF ChangeLock
<1>7. ASSUME NEW r \in Requests, ChangeCommit(r) PROVE Holds'
  BY <1>7 DEF ChangeCommit
<1>8. ASSUME NEW r \in Requests, Switch(r) \/ Logout(r) \/ InsertKey(r) \/ RevokeKey(r) PROVE Holds'
  BY <1>8 DEF Switch, Logout, InsertKey, RevokeKey
<1>9. CASE LockRunsOut
  BY <1>9 DEF LockRunsOut, Account
<1>10. CASE UNCHANGED <<account, holder, req>>
  BY <1>10
<1> QED BY <1>1, <1>2, <1>3, <1>4, <1>5, <1>6, <1>7, <1>8, <1>9, <1>10
        DEF Next, vars, ExpireSession, ExpireKey

\* Draws are kept by a step that adds none and issues none of them.
LEMMA DrawnKept ==
  ASSUME Drawn,
         \A q \in Requests : Draws(q)' =>
           /\ Draws(q) /\ req'[q].token = req[q].token
           /\ session'[req[q].token].state = "none"
  PROVE  Drawn'
BY DEF Drawn

LEMMA DrawnStep == CredInv /\ [Next]_vars => Drawn'
<1> SUFFICES ASSUME CredInv, [Next]_vars PROVE Drawn'
  OBVIOUS
<1> USE CredentialsAssumption DEF CredInv, TypeOK, Drawn, Draws, At, Answer, Idle
<1>1. ASSUME NEW r \in Requests, LoginRead(r) PROVE Drawn'
  BY <1>1 DEF LoginRead, Fresh
<1>2. ASSUME NEW r \in Requests, LoginLocked(r) \/ Abandon(r) PROVE Drawn'
  BY <1>2 DEF LoginLocked, Abandon, FinishLogin
<1>3. ASSUME NEW r \in Requests, LoginWrong(r) PROVE Drawn'
  BY <1>3 DEF LoginWrong, FinishLogin
<1>4. ASSUME NEW r \in Requests, LoginRight(r) \/ Switch(r) PROVE Drawn'
  <2>1. Draws(r)
    BY <1>4 DEF LoginRight, Switch
  <2>2. req' = [req EXCEPT ![r] = Idle]
    BY <1>4 DEF LoginRight, Switch, FinishLogin
  <2>3. \A t \in Tokens : t # req[r].token => session'[t] = session[t]
    BY <1>4 DEF LoginRight, Switch, Issue
  <2> QED BY <2>1, <2>2, <2>3, DrawnKept
<1>5. ASSUME NEW r \in Requests, Authenticate(r) PROVE Drawn'
  BY <1>5 DEF Authenticate, Fresh
<1>6. ASSUME NEW r \in Requests, ChangeRead(r) \/ CheckKeyName(r) PROVE Drawn'
  <2>1. At(r, "read") /\ UNCHANGED session
    BY <1>6 DEF ChangeRead, CheckKeyName
  <2>2. req[r] \in Authenticated /\ req[r].kind # "switch"
    BY <1>6, ReadStep
  <2>3. CASE req' = [req EXCEPT ![r] = Idle]
    BY <2>1, <2>3
  <2>4. CASE req' = [req EXCEPT ![r] = [req[r] EXCEPT !.step = "act"]]
    <3>1. req'[r].step = "act" /\ req'[r].kind # "switch"
      BY <2>2, <2>4 DEF Authenticated
    <3>2. \A q \in Requests : q # r => req'[q] = req[q]
      BY <2>4
    <3> QED BY <2>1, <3>1, <3>2
  <2> QED BY <1>6, <2>3, <2>4, ReadStep
<1>7. ASSUME NEW r \in Requests, ChangeLock(r) PROVE Drawn'
  BY <1>7 DEF ChangeLock
<1>8. ASSUME NEW r \in Requests, ChangeCommit(r) \/ Logout(r) PROVE Drawn'
  <2>1. req' = [req EXCEPT ![r] = Idle]
    BY <1>8 DEF ChangeCommit, Logout
  <2>2. \A t \in Tokens : session[t].state = "none" => session'[t] = session[t]
    BY <1>8 DEF ChangeCommit, Logout, Revoked, Issued
  <2> QED BY <2>1, <2>2
<1>9. ASSUME NEW r \in Requests, InsertKey(r) \/ RevokeKey(r) PROVE Drawn'
  BY <1>9 DEF InsertKey, RevokeKey
<1>10. ASSUME NEW t \in Tokens, ExpireSession(t) PROVE Drawn'
  BY <1>10 DEF ExpireSession
<1>11. CASE UNCHANGED <<session, req>>
  BY <1>11
<1> QED BY <1>1, <1>2, <1>3, <1>4, <1>5, <1>6, <1>7, <1>8, <1>9, <1>10, <1>11
        DEF Next, vars, LockRunsOut, ExpireKey

\* An issued session stays issued.
LEMMA StaysIssued ==
  ASSUME CredInv, [Next]_vars, NEW t \in Tokens, session[t].state # "none"
  PROVE  session'[t].state # "none"
<1> USE DEF CredInv, TypeOK
<1>1. ASSUME NEW r \in Requests, LoginRight(r) \/ Switch(r) PROVE session'[t].state # "none"
  BY <1>1 DEF LoginRight, Switch, Issue
<1>2. ASSUME NEW r \in Requests, ChangeCommit(r) \/ Logout(r) PROVE session'[t].state # "none"
  BY <1>2 DEF ChangeCommit, Logout, Revoked
<1>3. ASSUME NEW u \in Tokens, ExpireSession(u) PROVE session'[t].state # "none"
  BY <1>3 DEF ExpireSession
<1>4. CASE UNCHANGED session
  BY <1>4
<1> QED BY <1>1, <1>2, <1>3, <1>4
        DEF Next, vars, LoginRead, LoginLocked, LoginWrong, Authenticate, ChangeRead, ChangeLock,
            CheckKeyName, InsertKey, RevokeKey, Abandon, LockRunsOut, ExpireKey

\* Requests that a step leaves alone or ends.
LEMMA IssuedKept ==
  ASSUME CredInv, [Next]_vars,
         \A q \in Requests : req'[q] = req[q] \/ req'[q] = Idle
  PROVE  Issued'
<1>1. \A t \in Tokens : session[t].state # "none" => session'[t].state # "none"
  BY StaysIssued
<1>2. \A q \in Requests : At(q, "change") => req[q].others \subseteq Tokens
  BY Shapes DEF CredInv, Changing
<1> QED BY <1>1, <1>2 DEF CredInv, Issued, At, Idle

LEMMA IssuedStep == CredInv /\ [Next]_vars => Issued'
<1> SUFFICES ASSUME CredInv, [Next]_vars PROVE Issued'
  OBVIOUS
<1> USE DEF CredInv, TypeOK
<1>1. ASSUME NEW r \in Requests, LoginRead(r) PROVE Issued'
  BY <1>1 DEF LoginRead, Issued, At
<1>2. ASSUME NEW r \in Requests, Authenticate(r) PROVE Issued'
  <2>1. PICK kind \in Kinds, c \in Usable,
             t \in Tokens \cup {None}, n \in KeyNames \cup {None} :
          req' = [req EXCEPT ![r] =
                    [step |-> IF kind \in {"change", "create_key"} THEN "read" ELSE "act",
                     kind |-> kind, by |-> c, token |-> t, name |-> n]]
    BY <1>2, AuthenticateShape
  <2>2. c \in Tokens => session[c].state = "active"
    BY CredentialsAssumption DEF Usable
  <2>3. session' = session
    BY <1>2 DEF Authenticate
  <2>4. req'[r].step # "change" /\ req'[r].by = c
    BY <2>1
  <2>5. \A q \in Requests : q # r => req'[q] = req[q]
    BY <2>1
  <2> QED BY <2>2, <2>3, <2>4, <2>5 DEF Issued, At
<1>3. ASSUME NEW r \in Requests, ChangeRead(r) \/ CheckKeyName(r) PROVE Issued'
  <2>1. At(r, "read") /\ session' = session
    BY <1>3 DEF ChangeRead, CheckKeyName
  <2>2. CASE req' = [req EXCEPT ![r] = [req[r] EXCEPT !.step = "act"]]
    <3>1. req'[r].step = "act" /\ req'[r].by = req[r].by
      BY <1>3, <2>2, ReadStep DEF Authenticated
    <3>2. \A q \in Requests : q # r => req'[q] = req[q]
      BY <2>2
    <3> QED BY <2>1, <3>1, <3>2 DEF Issued, At
  <2>3. CASE req' = [req EXCEPT ![r] = Idle]
    BY <2>3, IssuedKept
  <2> QED BY <1>3, <2>2, <2>3, ReadStep
<1>4. ASSUME NEW r \in Requests, ChangeLock(r) PROVE Issued'
  BY <1>4 DEF ChangeLock, OtherSessions, Issued, At
<1>5. CASE \A q \in Requests : req'[q] = req[q] \/ req'[q] = Idle
  BY <1>5, IssuedKept
<1> QED BY <1>1, <1>2, <1>3, <1>4, <1>5
        DEF Next, vars, LoginLocked, LoginWrong, LoginRight, FinishLogin, Answer, ChangeCommit, Switch,
            Logout, InsertKey, RevokeKey, Abandon, LockRunsOut, ExpireSession, ExpireKey

LEMMA SelectedStep == CredInv /\ [Next]_vars => Selected'
<1> SUFFICES ASSUME CredInv, [Next]_vars PROVE Selected'
  OBVIOUS
<1> USE DEF CredInv, TypeOK, Selected, At, Answer, Idle
<1>1. ASSUME NEW r \in Requests, LoginRead(r) PROVE Selected'
  BY <1>1 DEF LoginRead
<1>2. ASSUME NEW r \in Requests, LoginRight(r) PROVE Selected'
  <2>1. \A q \in Requests : ~ At(q, "change")'
    BY <1>2 DEF LoginRight, FinishLogin, Holds
  <2> QED BY <2>1
<1>3. ASSUME NEW r \in Requests, Authenticate(r) PROVE Selected'
  BY <1>3 DEF Authenticate
<1>4. ASSUME NEW r \in Requests, ChangeRead(r) \/ CheckKeyName(r) PROVE Selected'
  <2>1. CASE req' = [req EXCEPT ![r] = [req[r] EXCEPT !.step = "act"]]
    <3>1. req'[r].step = "act"
      BY <1>4, <2>1, ReadStep DEF Authenticated
    <3>2. \A q \in Requests : q # r => req'[q] = req[q]
      BY <2>1
    <3>3. session' = session
      BY <1>4 DEF ChangeRead, CheckKeyName
    <3> QED BY <3>1, <3>2, <3>3
  <2>2. CASE req' = [req EXCEPT ![r] = Idle]
    BY <1>4, <2>2 DEF ChangeRead, CheckKeyName
  <2> QED BY <1>4, <2>1, <2>2, ReadStep
<1>5. ASSUME NEW r \in Requests, ChangeLock(r) PROVE Selected'
  BY <1>5 DEF ChangeLock, OtherSessions
<1>6. ASSUME NEW r \in Requests, ChangeCommit(r) \/ Logout(r) PROVE Selected'
  <2>1. \A t \in Tokens : session'[t] = session[t] \/ session'[t].state = "revoked"
    BY <1>6 DEF ChangeCommit, Logout, Revoked
  <2>2. req' = [req EXCEPT ![r] = Idle]
    BY <1>6 DEF ChangeCommit, Logout
  <2> QED BY <2>1, <2>2
<1>7. ASSUME NEW r \in Requests, Switch(r) PROVE Selected'
  <2>1. \A t \in Tokens : session'[t] = session[t] \/ session'[t].from = "switch"
    BY <1>7 DEF Switch, Issue
  <2>2. req' = [req EXCEPT ![r] = Idle]
    BY <1>7 DEF Switch
  <2> QED BY <2>1, <2>2
<1>8. ASSUME NEW r \in Requests, LoginLocked(r) \/ LoginWrong(r) \/ Abandon(r) PROVE Selected'
  BY <1>8 DEF LoginLocked, LoginWrong, Abandon, FinishLogin
<1>9. ASSUME NEW r \in Requests, InsertKey(r) \/ RevokeKey(r) PROVE Selected'
  BY <1>9 DEF InsertKey, RevokeKey
<1>10. ASSUME NEW t \in Tokens, ExpireSession(t) PROVE Selected'
  BY <1>10 DEF ExpireSession
<1>11. CASE UNCHANGED <<session, req>>
  BY <1>11
<1> QED BY <1>1, <1>2, <1>3, <1>4, <1>5, <1>6, <1>7, <1>8, <1>9, <1>10, <1>11
        DEF Next, vars, LockRunsOut, ExpireKey

LEMMA CredInvariant == Spec => []CredInv
<1>1. CredInv /\ [Next]_vars => CredInv'
  BY TypeStep, HoldsStep, CountedStep, DrawnStep, IssuedStep, SelectedStep DEF CredInv
<1> QED BY InitInv, <1>1, PTL DEF Spec
-----------------------------------------------------------------------------
(* What follows                                                            *)

\* Type correctness; in particular the counter never passes MaxFailed.
THEOREM TypeCorrect == Spec => []TypeOK
<1>1. CredInv => TypeOK
  BY DEF CredInv
<1> QED BY <1>1, CredInvariant, PTL

\* No wrong password goes uncounted, however many logins run at once.
THEOREM AttemptsAreCounted == Spec => []AttemptsCounted
<1>1. CredInv => AttemptsCounted
  BY DEF CredInv, Counted
<1> QED BY <1>1, CredInvariant, PTL

\* Sessions are issued to the requests that drew them.
LEMMA WhoIssues ==
  ASSUME TypeOK, [Next]_vars, NEW t \in Tokens,
         session[t].state = "none", session'[t].state = "active"
  PROVE  \E q \in Requests : (LoginRight(q) \/ Switch(q)) /\ req[q].token = t
<1> USE DEF TypeOK
<1>1. ASSUME NEW q \in Requests, LoginRight(q) \/ Switch(q) PROVE req[q].token = t
  BY <1>1 DEF LoginRight, Switch, Issue
<1>2. ASSUME NEW q \in Requests, ChangeCommit(q) \/ Logout(q) PROVE FALSE
  BY <1>2 DEF ChangeCommit, Logout, Revoked
<1>3. ASSUME NEW u \in Tokens, ExpireSession(u) PROVE FALSE
  BY <1>3 DEF ExpireSession
<1>4. CASE UNCHANGED session
  BY <1>4
<1> QED BY <1>1, <1>2, <1>3, <1>4
        DEF Next, vars, LoginRead, LoginLocked, LoginWrong, Authenticate, ChangeRead, ChangeLock,
            CheckKeyName, InsertKey, RevokeKey, Abandon, LockRunsOut, ExpireKey

\* A login's session is for the password in force, on an account not locked.
THEOREM LoginsUseCurrentPassword == Spec => LoginsAreCurrent
<1> DEFINE Current ==
      \A r \in Requests, t \in Tokens :
        At(r, "login") /\ req[r].token = t /\ session[t].state = "none" /\ session'[t].state = "active"
          => req[r].password = account.password /\ account.lock # "until"
<1>1. CredInv /\ [Next]_vars => [Current]_vars
  <2> SUFFICES ASSUME CredInv, [Next]_vars, NEW r \in Requests, NEW t \in Tokens,
                      At(r, "login"), req[r].token = t, session[t].state = "none",
                      session'[t].state = "active"
               PROVE  req[r].password = account.password /\ account.lock # "until"
    OBVIOUS
  <2>1. \E q \in Requests : (LoginRight(q) \/ Switch(q)) /\ req[q].token = t
    BY WhoIssues DEF CredInv
  <2>2. LoginRight(r)
    BY <2>1 DEF CredInv, Drawn, Draws, LoginRight, Switch, At
  <2> QED BY <2>2 DEF LoginRight, Right, Locked, CredInv, Holds, At
<1> QED BY <1>1, CredInvariant, PTL DEF Spec, LoginsAreCurrent

\* A password change revokes every other session a login issued before it.
THEOREM ChangesRevokeLogins == Spec => ChangeRevokesLogins
<1> DEFINE Revokes ==
      \A r \in Requests :
        At(r, "change") /\ account'.password # account.password =>
          \A t \in Tokens \ {req[r].by} :
            session[t].state = "active" /\ session[t].from = "login" => session'[t].state = "revoked"
<1>1. CredInv /\ [Next]_vars => [Revokes]_vars
  <2> SUFFICES ASSUME CredInv, [Next]_vars, NEW r \in Requests, At(r, "change"),
                      account'.password # account.password, NEW t \in Tokens \ {req[r].by},
                      session[t].state = "active", session[t].from = "login"
               PROVE  session'[t].state = "revoked"
    OBVIOUS
  <2>1. PICK q \in Requests : ChangeCommit(q)
    BY DEF Next, vars, CredInv, TypeOK, Account, LoginRead, LoginLocked, LoginWrong, LoginRight,
           Authenticate, ChangeRead, ChangeLock, Switch, Logout, CheckKeyName, InsertKey, RevokeKey,
           Abandon, LockRunsOut, ExpireSession, ExpireKey
  <2>2. q = r
    BY <2>1 DEF CredInv, Holds, ChangeCommit, At
  <2>3. t \in req[r].others
    BY DEF CredInv, Selected
  <2> QED BY <2>1, <2>2, <2>3 DEF ChangeCommit, Revoked, CredInv, TypeOK
<1> QED BY <1>1, CredInvariant, PTL DEF Spec, ChangeRevokesLogins

\* A session that has ended is none a request has drawn, so no step issues it again.
LEMMA EndedSessions ==
  ASSUME CredInv, [Next]_vars, NEW t \in Tokens, session[t].state \in {"expired", "revoked"}
  PROVE  session'[t].state # "active"
<1> USE DEF CredInv, TypeOK
<1>1. ASSUME NEW r \in Requests, LoginRight(r) \/ Switch(r) PROVE session'[t].state # "active"
  <2>1. Draws(r)
    BY <1>1 DEF LoginRight, Switch, Draws
  <2>2. req[r].token # t
    BY <2>1 DEF Drawn
  <2> QED BY <1>1, <2>2 DEF LoginRight, Switch, Issue
<1>2. ASSUME NEW r \in Requests, ChangeCommit(r) \/ Logout(r) PROVE session'[t].state # "active"
  BY <1>2 DEF ChangeCommit, Logout, Revoked
<1>3. ASSUME NEW u \in Tokens, ExpireSession(u) PROVE session'[t].state # "active"
  BY <1>3 DEF ExpireSession
<1>4. CASE UNCHANGED session
  BY <1>4
<1> QED BY <1>1, <1>2, <1>3, <1>4
        DEF Next, vars, LoginRead, LoginLocked, LoginWrong, Authenticate, ChangeRead, ChangeLock,
            CheckKeyName, InsertKey, RevokeKey, Abandon, LockRunsOut, ExpireKey

\* The unique constraint of the name keeps a key that has ended from being replaced.
LEMMA EndedKeys ==
  ASSUME CredInv, [Next]_vars, NEW n \in KeyNames, key[n] \in {"expired", "revoked"}
  PROVE  key'[n] # "active"
<1> USE DEF CredInv, TypeOK
<1>1. ASSUME NEW r \in Requests, InsertKey(r) \/ RevokeKey(r) PROVE key'[n] # "active"
  BY <1>1 DEF InsertKey, RevokeKey
<1>2. ASSUME NEW m \in KeyNames, ExpireKey(m) PROVE key'[n] # "active"
  BY <1>2 DEF ExpireKey
<1>3. CASE UNCHANGED key
  BY <1>3
<1> QED BY <1>1, <1>2, <1>3
        DEF Next, vars, LoginRead, LoginLocked, LoginWrong, LoginRight, Authenticate, ChangeRead,
            ChangeLock, ChangeCommit, Switch, Logout, CheckKeyName, Abandon, LockRunsOut, ExpireSession

\* Sessions and keys that were revoked or have expired never authenticate again.
THEOREM EndedCredentialsStayEnded == Spec => CredentialsEndForGood
<1> DEFINE Ended ==
      /\ \A t \in Tokens : session[t].state \in {"expired", "revoked"} => session'[t].state # "active"
      /\ \A n \in KeyNames : key[n] \in {"expired", "revoked"} => key'[n] # "active"
<1>1. CredInv /\ [Next]_vars => [Ended]_vars
  BY EndedSessions, EndedKeys
<1> QED BY <1>1, CredInvariant, PTL DEF Spec, CredentialsEndForGood
=============================================================================
