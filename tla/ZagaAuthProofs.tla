--------------------------- MODULE ZagaAuthProofs ---------------------------
(***************************************************************************)
(* Theorems about ZagaAuth, for every set of users and of requests and     *)
(* every limit.                                                            *)
(***************************************************************************)
EXTENDS ZagaAuth, FiniteSetTheorems, TLAPS

LEMMA InitIInv == Init => IInv
  <1> SUFFICES ASSUME Init PROVE IInv
    OBVIOUS
  <1>1. TypeOK /\ LoginsOK /\ LogoutsOK
    BY DEF Init, TypeOK, LoginAt, LogoutAt, LoginsOK, LogoutsOK
  <1>2. FailuresLock
    BY ZagaAuthAssumption DEF Init, FailuresLock
  <1>3. NoFailureIsLost
    <2>1. \A u \in Users : {l \in Logins : login[l].user = u /\ Counted(l)} = {}
      BY DEF Init, Counted
    <2> QED
      BY <2>1, FS_EmptySet DEF Init, NoFailureIsLost
  <1>4. RevokedOnce
    BY DEF Init, RevokedOnce, Revoker
  <1> QED
    BY <1>1, <1>2, <1>3, <1>4 DEF IInv

\* A request of one kind moves itself only.
LEMMA StepEffect ==
  ASSUME TypeOK, NEW l \in Logins, NEW from, NEW to \in LoginAt, Step(l, from, to)
  PROVE  /\ login' \in [Logins -> [at : LoginAt, user : Users \union {NoUser}]]
         /\ login[l].at = from /\ login'[l].at = to /\ login'[l].user = login[l].user
         /\ \A m \in Logins \ {l} : login'[m] = login[m]
  BY DEF TypeOK, Step

LEMMA StepOutEffect ==
  ASSUME TypeOK, NEW o \in Logouts, NEW from, NEW to \in LogoutAt, StepOut(o, from, to)
  PROVE  /\ logout' \in [Logouts -> [at : LogoutAt, session : Logins \union {NoSession}]]
         /\ logout[o].at = from /\ logout'[o].at = to
         /\ logout'[o].session = logout[o].session
         /\ \A p \in Logouts \ {o} : logout'[p] = logout[p]
  BY DEF TypeOK, StepOut

\* Where a login stands and what it has done to its user and its session.
LEMMA LoginEffect ==
  ASSUME TypeOK, LoginsOK, NEW l \in Logins, Login(l)
  PROVE  /\ login' \in [Logins -> [at : LoginAt, user : Users \union {NoUser}]]
         /\ \A m \in Logins \ {l} : login'[m] = login[m]
         /\ UNCHANGED <<isActive, logout, lost>>
         /\ \A r \in audit' \ audit : r.action \in {"LOGIN_SUCCESS", "LOGIN_FAILED"} /\ r.by = l
         /\ audit \subseteq audit'
         /\ \/ FindByEmail(l)
            \/ /\ login'[l].user = login[l].user
               /\ \/ Compare(l) \/ IncrementFailedAttempts(l) \/ ReadAttempts(l)
                  \/ SetLockedUntil(l) \/ AuditFailed(l) \/ ResetAttemptsAndUnlocked(l)
                  \/ CreateSession(l) \/ AuditSuccess(l)
  <1> USE DEF LoginAt
  <1>1. CASE FindByEmail(l)
    <2>1. PICK u \in Users \union {NoUser}, at \in {"auditRefused", "compare"} :
            login' = [login EXCEPT ![l] = [at |-> at, user |-> u]]
      BY <1>1 DEF FindByEmail
    <2> QED
      BY <1>1, <2>1 DEF FindByEmail, TypeOK, users
  <1>2. CASE Compare(l) \/ IncrementFailedAttempts(l)
    BY <1>2, StepEffect DEF Compare, IncrementFailedAttempts, users
  <1>5. CASE ReadAttempts(l)
    <2>1. PICK to \in {"lock", "auditDenied"} : Step(l, "read", to)
      BY <1>5 DEF ReadAttempts
    <2> QED
      BY <1>5, <2>1, StepEffect DEF ReadAttempts, users
  <1>6. CASE SetLockedUntil(l)
    BY <1>6, StepEffect DEF SetLockedUntil, users
  <1>3. CASE AuditFailed(l) \/ AuditSuccess(l)
    BY <1>3, StepEffect DEF AuditFailed, AuditSuccess, Audit, users
  <1>4. CASE ResetAttemptsAndUnlocked(l) \/ CreateSession(l)
    BY <1>4, StepEffect DEF ResetAttemptsAndUnlocked, CreateSession, users
  <1> QED
    BY <1>1, <1>2, <1>3, <1>4, <1>5, <1>6 DEF Login

\* The step of a logout, and what it leaves alone.
LEMMA LogoutEffect ==
  ASSUME TypeOK, NEW o \in Logouts, Logout(o)
  PROVE  /\ logout' \in [Logouts -> [at : LogoutAt, session : Logins \union {NoSession}]]
         /\ \A p \in Logouts \ {o} : logout'[p] = logout[p]
         /\ UNCHANGED <<isActive, attempts, lockedUntil, login, lost>>
  <1> USE DEF LogoutAt
  <1>1. CASE CanActivate(o)
    BY <1>1 DEF CanActivate, TypeOK, users
  <1>2. CASE RevokeSession(o)
    BY <1>2, StepOutEffect DEF RevokeSession, users
  <1>3. CASE AuditRevoked(o) \/ AuditLogout(o)
    BY <1>3, StepOutEffect DEF AuditRevoked, AuditLogout, users
  <1> QED
    BY <1>1, <1>2, <1>3 DEF Logout

LEMMA NextTypeOK ==
  ASSUME TypeOK, LoginsOK, LogoutsOK, [Next]_vars
  PROVE  TypeOK'
  <1>1. ASSUME NEW l \in Logins, Login(l) PROVE TypeOK'
    <2>1. login' \in [Logins -> [at : LoginAt, user : Users \union {NoUser}]]
      BY <1>1, LoginEffect
    <2>2. audit' \subseteq [action : AuditAction, by : Logins \union Logouts]
      <3>1. \/ audit' = audit
            \/ Audit("LOGIN_FAILED", l)
            \/ Audit("LOGIN_SUCCESS", l)
        BY <1>1 DEF Login, FindByEmail, Compare, IncrementFailedAttempts, ReadAttempts,
           SetLockedUntil, AuditFailed, ResetAttemptsAndUnlocked, CreateSession, AuditSuccess
      <3> QED
        BY <3>1 DEF Audit, AuditAction, TypeOK
    <2>3. /\ attempts' \in [Users -> Nat]
          /\ lockedUntil' \in [Users -> {"null", "future", "past"}]
          /\ session' \in [Logins -> {"none", "live", "expired", "revoked"}]
      BY <1>1 DEF TypeOK, Login, FindByEmail, Compare, IncrementFailedAttempts, ReadAttempts,
         SetLockedUntil, AuditFailed, ResetAttemptsAndUnlocked, CreateSession, AuditSuccess, users
    <2> QED
      BY <1>1, <2>1, <2>2, <2>3, LoginEffect DEF TypeOK
  <1>2. ASSUME NEW o \in Logouts, Logout(o) PROVE TypeOK'
    <2>1. audit' \subseteq [action : AuditAction, by : Logins \union Logouts]
      <3>1. \/ audit' = audit
            \/ Audit("SESSION_REVOKED", o)
            \/ Audit("LOGOUT", o)
        BY <1>2 DEF Logout, CanActivate, RevokeSession, AuditRevoked, AuditLogout
      <3> QED
        BY <3>1 DEF Audit, AuditAction, TypeOK
    <2>2. session' \in [Logins -> {"none", "live", "expired", "revoked"}]
      BY <1>2 DEF TypeOK, Logout, CanActivate, RevokeSession, AuditRevoked, AuditLogout
    <2> QED
      BY <1>2, <2>1, <2>2, LogoutEffect DEF TypeOK
  <1>3. ASSUME \/ \E u \in Users : LockPasses(u) \/ SetActive(u)
               \/ \E l \in Logins : SessionExpires(l)
               \/ \E r \in Logins \union Logouts : Lose(r)
               \/ UNCHANGED vars
        PROVE  TypeOK'
    BY <1>3 DEF TypeOK, LockPasses, SetActive, SessionExpires, Lose, vars, users
  <1> QED
    BY <1>1, <1>2, <1>3 DEF Next

LEMMA NextLoginsOK ==
  ASSUME TypeOK, LoginsOK, LogoutsOK, [Next]_vars
  PROVE  LoginsOK'
  <1>1. ASSUME NEW l \in Logins, Login(l) PROVE LoginsOK'
    <2>1. /\ \A m \in Logins \ {l} : login'[m] = login[m] /\ session'[m] = session[m]
          /\ login'[l].at \notin {"idle", "auditRefused", "refused"} => login'[l].user \in Users
      <3>1. CASE FindByEmail(l)
        BY <1>1, <3>1, LoginEffect DEF FindByEmail, TypeOK
      <3>2. CASE ~FindByEmail(l)
        <4>1. login[l].at \notin {"idle", "auditRefused", "refused"} \/ Step(l, "auditRefused", "refused")
          BY <1>1, <3>2 DEF Login, Step, Compare, IncrementFailedAttempts, ReadAttempts,
             SetLockedUntil, AuditFailed, ResetAttemptsAndUnlocked, CreateSession, AuditSuccess
        <4>2. login'[l].user = login[l].user
          BY <1>1, <3>2, LoginEffect
        <4>3. \A m \in Logins \ {l} : session'[m] = session[m]
          BY <1>1, <3>2 DEF TypeOK, Login, Compare, IncrementFailedAttempts, ReadAttempts,
             SetLockedUntil, AuditFailed, ResetAttemptsAndUnlocked, CreateSession, AuditSuccess
        <4>4. ASSUME Step(l, "auditRefused", "refused") PROVE login'[l].at = "refused"
          BY <4>4, StepEffect DEF LoginAt
        <4> QED
          BY <1>1, <4>1, <4>2, <4>3, <4>4, LoginEffect DEF LoginsOK
      <3> QED
        BY <3>1, <3>2
    <2>2. session'[l] # "none" <=> login'[l].at \in {"auditIn", "in"}
      <3>1. CASE FindByEmail(l)
        BY <3>1 DEF FindByEmail, TypeOK, LoginsOK
      <3>2. CASE Compare(l) \/ IncrementFailedAttempts(l) \/ ResetAttemptsAndUnlocked(l)
                 \/ SetLockedUntil(l) \/ AuditFailed(l)
        BY <3>2, StepEffect DEF Compare, IncrementFailedAttempts, ResetAttemptsAndUnlocked,
           SetLockedUntil, AuditFailed, LoginsOK, LoginAt
      <3>3. CASE ReadAttempts(l)
        <4>1. PICK to \in {"lock", "auditDenied"} : Step(l, "read", to)
          BY <3>3 DEF ReadAttempts
        <4> QED
          BY <3>3, <4>1, StepEffect DEF ReadAttempts, LoginsOK, LoginAt
      <3>4. CASE CreateSession(l)
        BY <3>4, StepEffect DEF CreateSession, LoginAt, TypeOK
      <3>5. CASE AuditSuccess(l)
        BY <3>5, StepEffect DEF AuditSuccess, LoginsOK, LoginAt
      <3> QED
        BY <1>1, <3>1, <3>2, <3>3, <3>4, <3>5 DEF Login
    <2> QED
      BY <2>1, <2>2 DEF LoginsOK
  <1>2. ASSUME NEW o \in Logouts, Logout(o) PROVE LoginsOK'
    <2>1. \/ session' = session
          \/ /\ logout[o].session \in Logins
             /\ session' = [session EXCEPT ![logout[o].session] = "revoked"]
             /\ session[logout[o].session] # "none"
      BY <1>2 DEF Logout, CanActivate, RevokeSession, AuditRevoked, AuditLogout, StepOut, LogoutsOK
    <2> QED
      BY <1>2, <2>1, LogoutEffect DEF LoginsOK, TypeOK
  <1>3. ASSUME \/ \E u \in Users : LockPasses(u) \/ SetActive(u)
               \/ \E l \in Logins : SessionExpires(l)
               \/ \E r \in Logins \union Logouts : Lose(r)
               \/ UNCHANGED vars
        PROVE  LoginsOK'
    BY <1>3 DEF TypeOK, LoginsOK, LockPasses, SetActive, SessionExpires, Lose, vars, users
  <1> QED
    BY <1>1, <1>2, <1>3 DEF Next

LEMMA NextLogoutsOK ==
  ASSUME TypeOK, LoginsOK, LogoutsOK, [Next]_vars
  PROVE  LogoutsOK'
  <1>1. ASSUME NEW l \in Logins, Login(l) PROVE LogoutsOK'
    <2>1. \A s \in Logins : session'[s] = session[s] \/ (session[s] = "none" /\ session'[s] = "live")
      BY <1>1 DEF TypeOK, LoginsOK, Login, FindByEmail, Compare, IncrementFailedAttempts,
         ReadAttempts, SetLockedUntil, AuditFailed, ResetAttemptsAndUnlocked, CreateSession,
         AuditSuccess, Step
    <2>2. \A o \in Logouts, a \in {"SESSION_REVOKED", "LOGOUT"} :
            [action |-> a, by |-> o] \in audit' => [action |-> a, by |-> o] \in audit
      BY <1>1, LoginEffect
    <2>3. logout' = logout
      BY <1>1, LoginEffect
    <2> QED
      BY <2>1, <2>2, <2>3 DEF LogoutsOK
  <1>2. ASSUME NEW o \in Logouts, Logout(o) PROVE LogoutsOK'
    <2>1. \A p \in Logouts \ {o} : logout'[p] = logout[p]
      BY <1>2, LogoutEffect
    <2>2. \A s \in Logins : session'[s] = session[s] \/ (session[s] # "none" /\ session'[s] = "revoked")
      BY <1>2 DEF TypeOK, LogoutsOK, Logout, CanActivate, RevokeSession, AuditRevoked,
         AuditLogout, StepOut
    <2>3. \A p \in Logouts \ {o}, a \in {"SESSION_REVOKED", "LOGOUT"} :
            [action |-> a, by |-> p] \in audit' => [action |-> a, by |-> p] \in audit
      BY <1>2 DEF Logout, CanActivate, RevokeSession, AuditRevoked, AuditLogout, Audit
    <2>4. ASSUME NEW p \in Logouts, p # o
          PROVE  /\ logout'[p].at # "idle"
                      => logout'[p].session \in Logins /\ session'[logout'[p].session] # "none"
                 /\ logout'[p].at \in {"auditRevoked", "auditLogout", "out"}
                      => session'[logout'[p].session] = "revoked"
                 /\ [action |-> "SESSION_REVOKED", by |-> p] \in audit'
                      => logout'[p].at \in {"auditLogout", "out"}
                 /\ [action |-> "LOGOUT", by |-> p] \in audit' => logout'[p].at = "out"
      BY <2>1, <2>2, <2>3, <2>4 DEF LogoutsOK
    <2>5. /\ logout'[o].at # "idle"
               => logout'[o].session \in Logins /\ session'[logout'[o].session] # "none"
          /\ logout'[o].at \in {"auditRevoked", "auditLogout", "out"}
               => session'[logout'[o].session] = "revoked"
          /\ [action |-> "SESSION_REVOKED", by |-> o] \in audit'
               => logout'[o].at \in {"auditLogout", "out"}
          /\ [action |-> "LOGOUT", by |-> o] \in audit' => logout'[o].at = "out"
      <3>1. CASE CanActivate(o)
        BY <3>1 DEF CanActivate, Active, LogoutsOK, TypeOK
      <3>2. CASE RevokeSession(o)
        BY <3>2, StepOutEffect DEF RevokeSession, LogoutsOK, LogoutAt, TypeOK
      <3>3. CASE AuditRevoked(o)
        BY <3>3, StepOutEffect DEF AuditRevoked, Audit, LogoutsOK, LogoutAt
      <3>4. CASE AuditLogout(o)
        BY <3>4, StepOutEffect DEF AuditLogout, Audit, LogoutsOK, LogoutAt
      <3> QED
        BY <1>2, <3>1, <3>2, <3>3, <3>4 DEF Logout
    <2> QED
      BY <2>4, <2>5 DEF LogoutsOK
  <1>3. ASSUME \/ \E u \in Users : LockPasses(u) \/ SetActive(u)
               \/ \E r \in Logins \union Logouts : Lose(r)
               \/ UNCHANGED vars
        PROVE  LogoutsOK'
    BY <1>3 DEF LogoutsOK, LockPasses, SetActive, Lose, vars, users
  <1>4. ASSUME NEW l \in Logins, SessionExpires(l) PROVE LogoutsOK'
    BY <1>4 DEF TypeOK, LogoutsOK, SessionExpires
  <1> QED
    BY <1>1, <1>2, <1>3, <1>4 DEF Next

-----------------------------------------------------------------------------
(* The lock and the count. *)

\* Steps of other requests and of the clock.
LEMMA Elsewhere ==
  ASSUME [Next]_vars, \A l \in Logins : ~Login(l)
  PROVE  /\ UNCHANGED <<attempts, login>>
         /\ \A u \in Users : lockedUntil'[u] = "null" => lockedUntil[u] = "null"
  <1>1. ASSUME NEW u \in Users, LockPasses(u)
        PROVE  /\ UNCHANGED <<attempts, login>>
               /\ \A v \in Users : lockedUntil'[v] = "null" => lockedUntil[v] = "null"
    BY <1>1 DEF LockPasses
  <1> QED
    BY <1>1 DEF Next, SetActive, SessionExpires, Logout, CanActivate, RevokeSession,
       AuditRevoked, AuditLogout, Lose, vars, users

LEMMA NextFailuresLock ==
  ASSUME TypeOK, LoginsOK, FailuresLock, [Next]_vars
  PROVE  FailuresLock'
  <1>1. CASE \A l \in Logins : ~Login(l)
    BY <1>1, Elsewhere DEF FailuresLock
  <1>2. ASSUME NEW l \in Logins, Login(l), NEW u \in Users,
               attempts'[u] >= MaxFailedAttempts, lockedUntil'[u] = "null"
        PROVE  \E m \in Logins : login'[m].user = u /\ login'[m].at \in {"read", "lock"}
    <2>1. \A m \in Logins \ {l} : login'[m] = login[m]
      BY <1>2, LoginEffect
    <2>2. ASSUME attempts' = attempts, lockedUntil' = lockedUntil,
                 login[l].at \in {"read", "lock"} =>
                   login'[l].user = login[l].user /\ login'[l].at \in {"read", "lock"}
          PROVE  \E m \in Logins : login'[m].user = u /\ login'[m].at \in {"read", "lock"}
      BY <1>2, <2>1, <2>2 DEF FailuresLock
    <2>3. CASE FindByEmail(l)
      BY <2>2, <2>3 DEF FindByEmail, users
    <2>4. CASE Compare(l)
      BY <2>2, <2>4 DEF Compare, Step, users
    <2>5. CASE AuditFailed(l) \/ CreateSession(l) \/ AuditSuccess(l)
      BY <2>2, <2>5 DEF AuditFailed, CreateSession, AuditSuccess, Step, users
    <2>6. CASE IncrementFailedAttempts(l)
      <3>1. login[l].user \in Users /\ login'[l].at = "read" /\ login'[l].user = login[l].user
        BY <2>6, StepEffect DEF IncrementFailedAttempts, LoginsOK, LoginAt
      <3>2. CASE login[l].user = u
        BY <3>1, <3>2
      <3>3. CASE login[l].user # u
        <4>1. attempts'[u] = attempts[u] /\ lockedUntil'[u] = lockedUntil[u]
          BY <2>6, <3>1, <3>3 DEF IncrementFailedAttempts, TypeOK
        <4>2. login[l].at = "increment"
          BY <2>6 DEF IncrementFailedAttempts, Step
        <4> QED
          BY <1>2, <2>1, <4>1, <4>2 DEF FailuresLock
      <3> QED
        BY <3>2, <3>3
    <2>7. CASE ReadAttempts(l)
      <3>1. /\ login[l].user \in Users /\ login[l].at = "read"
            /\ attempts' = attempts /\ lockedUntil' = lockedUntil
        BY <2>7 DEF ReadAttempts, Step, LoginsOK, users
      <3>2. CASE login[l].user = u
        <4>1. Step(l, "read", "lock")
          BY <1>2, <2>7, <3>1, <3>2 DEF ReadAttempts
        <4> QED
          BY <3>2, <4>1, StepEffect DEF LoginAt
      <3>3. CASE login[l].user # u
        BY <1>2, <2>1, <3>1, <3>3 DEF FailuresLock
      <3> QED
        BY <3>2, <3>3
    <2>8. CASE SetLockedUntil(l)
      <3>1. login[l].user \in Users /\ attempts' = attempts
        BY <2>8 DEF SetLockedUntil, Step, LoginsOK
      <3>2. login[l].user # u /\ lockedUntil[u] = "null"
        BY <1>2, <2>8, <3>1 DEF SetLockedUntil, TypeOK
      <3> QED
        BY <1>2, <2>1, <3>1, <3>2 DEF FailuresLock
    <2>9. CASE ResetAttemptsAndUnlocked(l)
      <3>1. login[l].user \in Users /\ login[l].at = "reset"
        BY <2>9 DEF ResetAttemptsAndUnlocked, Step, LoginsOK
      <3>2. login[l].user # u
        BY <1>2, <2>9, <3>1, ZagaAuthAssumption DEF ResetAttemptsAndUnlocked, TypeOK
      <3>3. attempts'[u] = attempts[u] /\ lockedUntil'[u] = lockedUntil[u]
        BY <2>9, <3>1, <3>2 DEF ResetAttemptsAndUnlocked, TypeOK
      <3> QED
        BY <1>2, <2>1, <3>1, <3>3 DEF FailuresLock
    <2> QED
      BY <1>2, <2>3, <2>4, <2>5, <2>6, <2>7, <2>8, <2>9 DEF Login
  <1> QED
    BY <1>1, <1>2 DEF FailuresLock

CountedOf(u) == {m \in Logins : login[m].user = u /\ Counted(m)}

\* A step that counts nobody and resets nobody keeps the sets of logins.
LEMMA SameCount ==
  ASSUME TypeOK, NEW l \in Logins, Login(l), LoginsOK,
         attempts' = attempts,
         \A m \in Logins \ {l} : login'[m] = login[m],
         Counted(l) <=> Counted(l)', Reset(l) => Reset(l)',
         Counted(l) \/ Reset(l) => login'[l].user = login[l].user,
         NoFailureIsLost
  PROVE  NoFailureIsLost'
  <1>1. \A m \in Logins : (Counted(m) <=> Counted(m)') /\ (Reset(m) => Reset(m)')
    BY DEF Counted, Reset
  <1>2. \A m \in Logins : Counted(m) \/ Reset(m) => login'[m].user = login[m].user
    OBVIOUS
  <1>3. \A u \in Users : CountedOf(u)' = CountedOf(u)
    BY <1>1, <1>2 DEF CountedOf
  <1> QED
    BY <1>1, <1>2, <1>3 DEF NoFailureIsLost, CountedOf

LEMMA NextNoFailureIsLost ==
  ASSUME TypeOK, LoginsOK, NoFailureIsLost, [Next]_vars
  PROVE  NoFailureIsLost'
  <1>1. CASE \A l \in Logins : ~Login(l)
    BY <1>1, Elsewhere DEF NoFailureIsLost, Counted, Reset
  <1>2. ASSUME NEW l \in Logins, Login(l) PROVE NoFailureIsLost'
    <2>1. \A m \in Logins \ {l} : login'[m] = login[m]
      BY <1>2, LoginEffect
    <2>2. CASE FindByEmail(l)
      <3>1. PICK u \in Users \union {NoUser}, at \in {"auditRefused", "compare"} :
              login' = [login EXCEPT ![l] = [at |-> at, user |-> u]]
        BY <2>2 DEF FindByEmail
      <3>2. login[l].at = "idle" /\ login'[l].at \in {"auditRefused", "compare"} /\ attempts' = attempts
        BY <2>2, <3>1 DEF FindByEmail, TypeOK, users
      <3> QED
        BY <1>2, <2>1, <3>2, SameCount DEF Counted, Reset
    <2>3. CASE Compare(l)
      <3>1. PICK to \in {"reset", "increment"} : Step(l, "compare", to)
        BY <2>3 DEF Compare
      <3>2. attempts' = attempts
        BY <2>3 DEF Compare, users
      <3> QED
        BY <1>2, <2>1, <3>1, <3>2, StepEffect, SameCount DEF Counted, Reset, LoginAt
    <2>4. CASE ReadAttempts(l) \/ SetLockedUntil(l)
      <3>1. PICK from \in {"read", "lock"}, to \in {"lock", "auditDenied"} : Step(l, from, to)
        BY <2>4 DEF ReadAttempts, SetLockedUntil
      <3>2. attempts' = attempts
        BY <2>4 DEF ReadAttempts, SetLockedUntil, users
      <3> QED
        BY <1>2, <2>1, <3>1, <3>2, StepEffect, SameCount DEF Counted, Reset, LoginAt
    <2>5. CASE AuditFailed(l)
      <3>1. Step(l, "auditDenied", "denied") \/ Step(l, "auditRefused", "refused")
        BY <2>5 DEF AuditFailed
      <3>2. attempts' = attempts
        BY <2>5 DEF AuditFailed, users
      <3> QED
        BY <1>2, <2>1, <3>1, <3>2, StepEffect, SameCount DEF Counted, Reset, LoginAt
    <2>6. CASE CreateSession(l) \/ AuditSuccess(l)
      <3>1. Step(l, "create", "auditIn") \/ Step(l, "auditIn", "in")
        BY <2>6 DEF CreateSession, AuditSuccess
      <3>2. attempts' = attempts
        BY <2>6 DEF CreateSession, AuditSuccess, users
      <3> QED
        BY <1>2, <2>1, <3>1, <3>2, StepEffect, SameCount DEF Counted, Reset, LoginAt
    <2>7. CASE IncrementFailedAttempts(l)
      <3> DEFINE v == login[l].user
      <3>1. /\ login[l].at = "increment" /\ login'[l].at = "read" /\ login'[l].user = v
            /\ v \in Users /\ attempts' = [attempts EXCEPT ![v] = @ + 1]
        BY <2>7, StepEffect DEF IncrementFailedAttempts, LoginsOK, LoginAt
      <3>2. \A m \in Logins : Reset(m) <=> Reset(m)'
        BY <2>1, <3>1 DEF Reset
      <3>3. \A m \in Logins : login'[m].user = login[m].user
        BY <2>1, <3>1
      <3>4. \A u \in Users : CountedOf(u)' = IF u = v THEN CountedOf(u) \union {l} ELSE CountedOf(u)
        BY <2>1, <3>1, <3>3 DEF CountedOf, Counted
      <3>5. l \notin CountedOf(v) /\ IsFiniteSet(CountedOf(v))
        <4>1. l \notin CountedOf(v)
          BY <3>1 DEF CountedOf, Counted
        <4>2. CountedOf(v) \subseteq Logins
          BY DEF CountedOf
        <4> QED
          BY <4>1, <4>2, FS_Subset, ZagaAuthAssumption
      <3>6. Cardinality(CountedOf(v) \union {l}) = Cardinality(CountedOf(v)) + 1
        BY <3>5, FS_AddElement
      <3>7. ASSUME NEW u \in Users, \A m \in Logins : login'[m].user = u => ~Reset(m)'
            PROVE  attempts'[u] = Cardinality(CountedOf(u)')
        <4>1. attempts[u] = Cardinality(CountedOf(u))
          BY <3>2, <3>3, <3>7 DEF NoFailureIsLost, CountedOf
        <4> QED
          BY <3>1, <3>4, <3>6, <4>1 DEF TypeOK
      <3> QED
        BY <3>7 DEF NoFailureIsLost, CountedOf
    <2>8. CASE ResetAttemptsAndUnlocked(l)
      <3> DEFINE v == login[l].user
      <3>1. /\ login[l].at = "reset" /\ login'[l].at = "create" /\ login'[l].user = v
            /\ v \in Users /\ attempts' = [attempts EXCEPT ![v] = 0]
        BY <2>8, StepEffect DEF ResetAttemptsAndUnlocked, LoginsOK, LoginAt
      <3>2. \A m \in Logins : (Reset(m) => Reset(m)') /\ login'[m].user = login[m].user
        BY <2>1, <3>1 DEF Reset
      <3>3. \A u \in Users : CountedOf(u)' = CountedOf(u)
        BY <2>1, <3>1, <3>2 DEF CountedOf, Counted
      <3>4. ASSUME NEW u \in Users, \A m \in Logins : login'[m].user = u => ~Reset(m)'
            PROVE  attempts'[u] = Cardinality(CountedOf(u)')
        <4>1. u # v
          BY <3>1, <3>4 DEF Reset
        <4>2. attempts[u] = Cardinality(CountedOf(u))
          BY <3>2, <3>4 DEF NoFailureIsLost, CountedOf
        <4> QED
          BY <3>1, <3>3, <4>1, <4>2 DEF TypeOK
      <3> QED
        BY <3>4 DEF NoFailureIsLost, CountedOf
    <2> QED
      BY <1>2, <2>2, <2>3, <2>4, <2>5, <2>6, <2>7, <2>8 DEF Login
  <1> QED
    BY <1>1, <1>2

-----------------------------------------------------------------------------
(* Sessions, logouts and the audit trail. *)

LEMMA NextRevokedOnce ==
  ASSUME TypeOK, LoginsOK, LogoutsOK, RevokedOnce, [Next]_vars
  PROVE  RevokedOnce'
  <1> USE DEF TypeOK
  <1>1. ASSUME logout' = logout,
               \A o \in Logouts, a \in {"SESSION_REVOKED", "LOGOUT"} :
                 [action |-> a, by |-> o] \in audit' <=> [action |-> a, by |-> o] \in audit,
               \A s \in Logins : session'[s] = "revoked" <=> session[s] = "revoked"
        PROVE  RevokedOnce'
    <2>1. \A o \in Logouts, s \in Logins : Revoker(o, s)' <=> Revoker(o, s)
      BY <1>1 DEF Revoker
    <2>2. \A o \in Logouts :
            [action |-> "LOGOUT", by |-> o] \in audit => logout[o].session \in Logins
      BY DEF LogoutsOK
    <2> QED
      BY <1>1, <2>1, <2>2 DEF RevokedOnce
  <1>2. ASSUME NEW l \in Logins, Login(l) PROVE RevokedOnce'
    <2>1. \A s \in Logins : session'[s] = session[s] \/ (session[s] = "none" /\ session'[s] = "live")
      BY <1>2 DEF LoginsOK, Login, FindByEmail, Compare, IncrementFailedAttempts,
         ReadAttempts, SetLockedUntil, AuditFailed, ResetAttemptsAndUnlocked, CreateSession,
         AuditSuccess, Step
    <2>2. \A o \in Logouts, a \in {"SESSION_REVOKED", "LOGOUT"} :
            [action |-> a, by |-> o] \in audit' <=> [action |-> a, by |-> o] \in audit
      BY <1>2, LoginEffect
    <2>3. logout' = logout
      BY <1>2, LoginEffect
    <2> QED
      BY <1>1, <2>1, <2>2, <2>3
  <1>3. ASSUME NEW o \in Logouts, Logout(o) PROVE RevokedOnce'
    <2>0. \A p \in Logouts \ {o} : logout'[p] = logout[p]
      BY <1>3, LogoutEffect
    <2>1. CASE CanActivate(o)
      <3>1. /\ logout[o].at = "idle" /\ logout'[o].at = "revoke"
            /\ audit' = audit /\ session' = session
        BY <2>1 DEF CanActivate
      <3>2. /\ [action |-> "SESSION_REVOKED", by |-> o] \notin audit
            /\ [action |-> "LOGOUT", by |-> o] \notin audit
        BY <3>1 DEF LogoutsOK
      <3>3. \A p \in Logouts, s \in Logins : Revoker(p, s)' <=> Revoker(p, s)
        BY <2>0, <3>1, <3>2 DEF Revoker
      <3>4. ASSUME NEW p \in Logouts, [action |-> "LOGOUT", by |-> p] \in audit'
            PROVE  session'[logout'[p].session] = "revoked"
        <4>1. p # o
          BY <3>1, <3>2, <3>4
        <4>2. session[logout[p].session] = "revoked"
          BY <3>1, <3>4 DEF RevokedOnce
        <4> QED
          BY <2>0, <3>1, <4>1, <4>2
      <3>5. \A s \in Logins : session'[s] = "revoked" <=> \E p \in Logouts : Revoker(p, s)'
        BY <3>1, <3>3 DEF RevokedOnce
      <3>6. \A p, q \in Logouts :
              (\E s \in Logins : Revoker(p, s)' /\ Revoker(q, s)') => p = q
        BY <3>3 DEF RevokedOnce
      <3> QED
        BY <3>4, <3>5, <3>6 DEF RevokedOnce
    <2>2. CASE RevokeSession(o)
      <3> DEFINE t == logout[o].session
      <3>0. /\ logout[o].at = "revoke" /\ t \in Logins /\ audit' = audit
            /\ logout'[o].session = t
            /\ [action |-> "SESSION_REVOKED", by |-> o] \notin audit
            /\ [action |-> "LOGOUT", by |-> o] \notin audit
        BY <2>2, StepOutEffect DEF RevokeSession, LogoutAt, LogoutsOK
      <3>1. CASE session[t] # "revoked"
        <4>1. logout'[o].at = "auditRevoked" /\ session' = [session EXCEPT ![t] = "revoked"]
          BY <2>2, <3>1, StepOutEffect DEF RevokeSession, LogoutAt
        <4>2. \A p \in Logouts \ {o}, s \in Logins : Revoker(p, s)' <=> Revoker(p, s)
          BY <2>0, <3>0 DEF Revoker
        <4>3. \A s \in Logins : Revoker(o, s)' <=> s = t
          BY <3>0, <4>1 DEF Revoker
        <4>4. \A s \in Logins : ~Revoker(o, s)
          BY <3>0 DEF Revoker
        <4>5. \A p \in Logouts : ~Revoker(p, t)
          BY <3>0, <3>1 DEF RevokedOnce
        <4>6. \A s \in Logins : session'[s] = "revoked" <=> \E p \in Logouts : Revoker(p, s)'
          <5>1. ASSUME NEW s \in Logins, s # t
                PROVE  session'[s] = "revoked" <=> \E p \in Logouts : Revoker(p, s)'
            <6>1. \A p \in Logouts : Revoker(p, s)' <=> Revoker(p, s)
              BY <4>2, <4>3, <4>4, <5>1
            <6>2. session'[s] = session[s]
              BY <3>0, <4>1, <5>1
            <6> QED
              BY <6>1, <6>2 DEF RevokedOnce
          <5>2. session'[t] = "revoked" /\ Revoker(o, t)'
            BY <3>0, <4>1, <4>3
          <5> QED
            BY <3>0, <5>1, <5>2
        <4>7. \A p, q \in Logouts :
                (\E s \in Logins : Revoker(p, s)' /\ Revoker(q, s)') => p = q
          BY <4>2, <4>3, <4>5 DEF RevokedOnce
        <4>8. \A p \in Logouts :
                [action |-> "LOGOUT", by |-> p] \in audit' => session'[logout'[p].session] = "revoked"
          BY <2>0, <3>0, <4>1 DEF RevokedOnce, LogoutsOK
        <4> QED
          BY <4>6, <4>7, <4>8 DEF RevokedOnce
      <3>2. CASE session[t] = "revoked"
        <4>1. logout'[o].at = "auditLogout" /\ session' = session
          BY <2>2, <3>2, StepOutEffect DEF RevokeSession, LogoutAt
        <4>2. \A p \in Logouts, s \in Logins : Revoker(p, s)' <=> Revoker(p, s)
          BY <2>0, <3>0, <4>1 DEF Revoker
        <4> QED
          BY <2>0, <3>0, <4>1, <4>2 DEF RevokedOnce
      <3> QED
        BY <3>1, <3>2
    <2>3. CASE AuditRevoked(o)
      <3>1. /\ logout[o].at = "auditRevoked" /\ logout'[o].at = "auditLogout"
            /\ logout'[o].session = logout[o].session /\ session' = session
            /\ audit' = audit \union {[action |-> "SESSION_REVOKED", by |-> o]}
        BY <2>3, StepOutEffect DEF AuditRevoked, Audit, LogoutAt
      <3>2. \A p \in Logouts, s \in Logins : Revoker(p, s)' <=> Revoker(p, s)
        BY <2>0, <3>1 DEF Revoker
      <3>3. \A p \in Logouts :
              [action |-> "LOGOUT", by |-> p] \in audit' => [action |-> "LOGOUT", by |-> p] \in audit
        BY <3>1
      <3> QED
        BY <2>0, <3>1, <3>2, <3>3 DEF RevokedOnce
    <2>4. CASE AuditLogout(o)
      <3>1. /\ logout[o].at = "auditLogout" /\ logout'[o].at = "out"
            /\ logout'[o].session = logout[o].session /\ session' = session
            /\ audit' = audit \union {[action |-> "LOGOUT", by |-> o]}
        BY <2>4, StepOutEffect DEF AuditLogout, Audit, LogoutAt
      <3>2. \A p \in Logouts, s \in Logins : Revoker(p, s)' <=> Revoker(p, s)
        BY <2>0, <3>1 DEF Revoker
      <3>3. session[logout[o].session] = "revoked"
        BY <3>1 DEF LogoutsOK
      <3> QED
        BY <2>0, <3>1, <3>2, <3>3 DEF RevokedOnce
    <2> QED
      BY <1>3, <2>1, <2>2, <2>3, <2>4 DEF Logout
  <1>4. ASSUME NEW s \in Logins, SessionExpires(s) PROVE RevokedOnce'
    <2>1. logout' = logout /\ audit' = audit
      BY <1>4 DEF SessionExpires
    <2>2. \A t \in Logins : session'[t] = "revoked" <=> session[t] = "revoked"
      BY <1>4 DEF SessionExpires
    <2> QED
      BY <1>1, <2>1, <2>2
  <1>5. ASSUME \/ \E u \in Users : LockPasses(u) \/ SetActive(u)
               \/ \E r \in Logins \union Logouts : Lose(r)
               \/ UNCHANGED vars
        PROVE  RevokedOnce'
    <2>1. UNCHANGED <<logout, audit, session>>
      BY <1>5 DEF LockPasses, SetActive, Lose, vars, users
    <2> QED
      BY <1>1, <2>1
  <1> QED
    BY <1>2, <1>3, <1>4, <1>5 DEF Next

LEMMA NextIInv == IInv /\ [Next]_vars => IInv'
  BY NextTypeOK, NextLoginsOK, NextLogoutsOK, NextFailuresLock, NextNoFailureIsLost,
     NextRevokedOnce DEF IInv

\* Every reachable state satisfies the inductive invariant, however many logins
\* and logouts interleave and wherever they are cut off.
THEOREM Invariance == Spec => []IInv
  BY InitIInv, NextIInv, PTL DEF Spec

\* Users, requests, sessions and the audit trail keep their types.
THEOREM TypeCorrect == Spec => []TypeOK
  <1>1. IInv => TypeOK
    BY DEF IInv
  <1> QED
    BY <1>1, Invariance, PTL

\* For any number of concurrent logins and any limit: a user at the limit is
\* locked, was, or is about to be.
THEOREM LockFollows == Spec => []FailuresLock
  <1>1. IInv => FailuresLock
    BY DEF IInv
  <1> QED
    BY <1>1, Invariance, PTL

\* Until a login succeeds the count of a user is the number of his failures.
THEOREM FailuresCounted == Spec => []NoFailureIsLost
  <1>1. IInv => NoFailureIsLost
    BY DEF IInv
  <1> QED
    BY <1>1, Invariance, PTL

\* A session is revoked by exactly one logout, and the audit trail agrees.
THEOREM RevocationAudited == Spec => []RevokedOnce
  <1>1. IInv => RevokedOnce
    BY DEF IInv
  <1> QED
    BY <1>1, Invariance, PTL

=============================================================================
