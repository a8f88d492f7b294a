------------------------------ MODULE ZagaAuth ------------------------------
(***************************************************************************)
(* Back-office authentication: logins, the lock after failed attempts,     *)
(* sessions, logouts and the audit trail.                                  *)
(*                                                                         *)
(* Nothing here runs in a transaction: every statement of login and logout *)
(* commits on its own, so that each is a step and requests interleave      *)
(* between any two of them.  A request whose statement fails, or whose     *)
(* process dies, stops where it is; what it wrote stays written.           *)
(***************************************************************************)
EXTENDS Naturals, FiniteSets

CONSTANTS
  Users,             \* the rows of admin_users
  Logins,            \* POST /auth/login requests
  Logouts,           \* POST /auth/logout requests
  MaxFailedAttempts, \* ZAGA_AUTH.MAX_FAILED_ATTEMPTS
  NoUser,            \* no row has the e-mail of the login
  NoSession          \* the session of a logout that was not admitted yet

ASSUME ZagaAuthAssumption ==
  /\ MaxFailedAttempts \in Nat \ {0}
  /\ IsFiniteSet(Logins)
  /\ NoUser \notin Users
  /\ NoSession \notin Logins

VARIABLES
  isActive,    \* admin_users.is_active
  attempts,    \* admin_users.failed_login_attempts
  lockedUntil, \* admin_users.locked_until against the clock
  login,       \* the login requests: the statement each is at, and its user
  session,     \* admin_sessions, named by the login that creates the row
  logout,      \* the logout requests: the statement each is at, and its session
  lost,        \* requests that ended in an error or with their process
  audit        \* admin_audit_logs, each row with the request that wrote it

users == <<isActive, attempts, lockedUntil>>
vars == <<users, login, session, logout, lost, audit>>

\* A login waits, compares, and is then refused (another reason than the
\* password), denied (the password) or in.
LoginAt == {"idle", "compare", "increment", "read", "lock", "auditDenied", "denied",
            "auditRefused", "refused", "reset", "create", "auditIn", "in"}
LogoutAt == {"idle", "revoke", "auditRevoked", "auditLogout", "out"}
AuditAction == {"LOGIN_SUCCESS", "LOGIN_FAILED", "LOGOUT", "SESSION_REVOKED"}

TypeOK ==
  /\ isActive \in [Users -> BOOLEAN]
  /\ attempts \in [Users -> Nat]
  /\ lockedUntil \in [Users -> {"null", "future", "past"}]
  /\ login \in [Logins -> [at : LoginAt, user : Users \union {NoUser}]]
  /\ session \in [Logins -> {"none", "live", "expired", "revoked"}]
  /\ logout \in [Logouts -> [at : LogoutAt, session : Logins \union {NoSession}]]
  /\ lost \subseteq Logins \union Logouts
  /\ audit \subseteq [action : AuditAction, by : Logins \union Logouts]

Init ==
  /\ isActive \in [Users -> BOOLEAN]
  /\ attempts = [u \in Users |-> 0]
  /\ lockedUntil = [u \in Users |-> "null"]
  /\ login = [l \in Logins |-> [at |-> "idle", user |-> NoUser]]
  /\ session = [l \in Logins |-> "none"]
  /\ logout = [o \in Logouts |-> [at |-> "idle", session |-> NoSession]]
  /\ lost = {}
  /\ audit = {}

-----------------------------------------------------------------------------
(* POST /auth/login *)

Step(l, from, to) ==
  /\ l \notin lost
  /\ login[l].at = from
  /\ login' = [login EXCEPT ![l] = [at |-> to, user |-> @.user]]

Audit(action, r) == audit' = audit \union {[action |-> action, by |-> r]}

\* The row as it is now decides whether the password is looked at at all.
Refuses(u) == ~isActive[u] \/ lockedUntil[u] = "future"

FindByEmail(l) ==
  /\ login[l].at = "idle"
  /\ \E u \in Users \union {NoUser} :
       login' = [login EXCEPT ![l] =
         [at |-> IF u = NoUser \/ Refuses(u) THEN "auditRefused" ELSE "compare", user |-> u]]
  /\ UNCHANGED <<users, session, logout, lost, audit>>

\* bcrypt.compare with the hash that was read.
Compare(l) ==
  /\ Step(l, "compare", "reset") \/ Step(l, "compare", "increment")
  /\ UNCHANGED <<users, session, logout, lost, audit>>

\* Mutant: a failure against a user whom a concurrent failure has just locked
\* is not counted any more.
IncrementUnlessLocked(l) ==
  /\ Step(l, "increment", "read")
  /\ attempts' = IF lockedUntil[login[l].user] = "future" THEN attempts
                 ELSE [attempts EXCEPT ![login[l].user] = @ + 1]
  /\ UNCHANGED <<isActive, lockedUntil, session, logout, lost, audit>>

\* failed_login_attempts + 1 is computed by the database.
IncrementFailedAttempts(l) ==
  /\ Step(l, "increment", "read")
  /\ attempts' = [attempts EXCEPT ![login[l].user] = @ + 1]
  /\ UNCHANGED <<isActive, lockedUntil, session, logout, lost, audit>>

\* Mutant: the request counts from the row it compared the password with,
\* which was read before anybody's failure was counted.
ReadSnapshotAttempts(l) ==
  /\ Step(l, "read", IF 1 >= MaxFailedAttempts THEN "lock" ELSE "auditDenied")
  /\ UNCHANGED <<users, session, logout, lost, audit>>

\* The row is read again: the attempts of everybody count.
ReadAttempts(l) ==
  /\ Step(l, "read", IF attempts[login[l].user] >= MaxFailedAttempts
                     THEN "lock" ELSE "auditDenied")
  /\ UNCHANGED <<users, session, logout, lost, audit>>

SetLockedUntil(l) ==
  /\ Step(l, "lock", "auditDenied")
  /\ lockedUntil' = [lockedUntil EXCEPT ![login[l].user] = "future"]
  /\ UNCHANGED <<isActive, attempts, session, logout, lost, audit>>

AuditFailed(l) ==
  /\ Step(l, "auditDenied", "denied") \/ Step(l, "auditRefused", "refused")
  /\ Audit("LOGIN_FAILED", l)
  /\ UNCHANGED <<users, session, logout, lost>>

\* With markLastLogin, which follows; last_login_at decides nothing.
ResetAttemptsAndUnlocked(l) ==
  /\ Step(l, "reset", "create")
  /\ attempts' = [attempts EXCEPT ![login[l].user] = 0]
  /\ lockedUntil' = [lockedUntil EXCEPT ![login[l].user] = "null"]
  /\ UNCHANGED <<isActive, session, logout, lost, audit>>

CreateSession(l) ==
  /\ Step(l, "create", "auditIn")
  /\ session' = [session EXCEPT ![l] = "live"]
  /\ UNCHANGED <<users, logout, lost, audit>>

AuditSuccess(l) ==
  /\ Step(l, "auditIn", "in")
  /\ Audit("LOGIN_SUCCESS", l)
  /\ UNCHANGED <<users, session, logout, lost>>

Login(l) ==
  \/ FindByEmail(l) \/ Compare(l)
  \/ IncrementFailedAttempts(l) \/ ReadAttempts(l) \/ SetLockedUntil(l) \/ AuditFailed(l)
  \/ ResetAttemptsAndUnlocked(l) \/ CreateSession(l) \/ AuditSuccess(l)

-----------------------------------------------------------------------------
(* POST /auth/logout *)

StepOut(o, from, to) ==
  /\ o \notin lost
  /\ logout[o].at = from
  /\ logout' = [logout EXCEPT ![o] = [at |-> to, session |-> @.session]]

\* The guard.  The token is the caller's once the login has answered.
Active(s) == login[s].at = "in" /\ session[s] = "live" /\ isActive[login[s].user]

CanActivate(o) ==
  /\ logout[o].at = "idle"
  /\ \E s \in Logins :
       /\ Active(s)
       /\ logout' = [logout EXCEPT ![o] = [at |-> "revoke", session |-> s]]
  /\ UNCHANGED <<users, login, session, lost, audit>>

\* Mutant: the update does not ask for revoked_at IS NULL, so that every
\* logout that passed the guard is told that it revoked the session.
RevokeAnySession(o) ==
  /\ StepOut(o, "revoke", "auditRevoked")
  /\ session' = [session EXCEPT ![logout[o].session] = "revoked"]
  /\ UNCHANGED <<users, login, lost, audit>>

\* UPDATE .. WHERE revoked_at IS NULL: the session may have expired or been
\* revoked since the guard looked at it.
RevokeSession(o) ==
  /\ \/ /\ StepOut(o, "revoke", "auditRevoked")
        /\ session[logout[o].session] # "revoked"
        /\ session' = [session EXCEPT ![logout[o].session] = "revoked"]
     \/ /\ StepOut(o, "revoke", "auditLogout")
        /\ session[logout[o].session] = "revoked"
        /\ UNCHANGED session
  /\ UNCHANGED <<users, login, lost, audit>>

AuditRevoked(o) ==
  /\ StepOut(o, "auditRevoked", "auditLogout")
  /\ Audit("SESSION_REVOKED", o)
  /\ UNCHANGED <<users, login, session, lost>>

AuditLogout(o) ==
  /\ StepOut(o, "auditLogout", "out")
  /\ Audit("LOGOUT", o)
  /\ UNCHANGED <<users, login, session, lost>>

Logout(o) == CanActivate(o) \/ RevokeSession(o) \/ AuditRevoked(o) \/ AuditLogout(o)

-----------------------------------------------------------------------------
(* The clock, who administers the users, and failures. *)

LockPasses(u) ==
  /\ lockedUntil[u] = "future"
  /\ lockedUntil' = [lockedUntil EXCEPT ![u] = "past"]
  /\ UNCHANGED <<isActive, attempts, login, session, logout, lost, audit>>

SessionExpires(s) ==
  /\ session[s] = "live"
  /\ session' = [session EXCEPT ![s] = "expired"]
  /\ UNCHANGED <<users, login, logout, lost, audit>>

SetActive(u) ==
  /\ isActive' = [isActive EXCEPT ![u] = ~@]
  /\ UNCHANGED <<attempts, lockedUntil, login, session, logout, lost, audit>>

\* A statement fails or the process dies.
Lose(r) ==
  /\ r \notin lost
  /\ \/ r \in Logins /\ login[r].at \notin {"idle", "denied", "refused", "in"}
     \/ r \in Logouts /\ logout[r].at \notin {"idle", "out"}
  /\ lost' = lost \union {r}
  /\ UNCHANGED <<users, login, session, logout, audit>>

Next ==
  \/ \E l \in Logins : Login(l) \/ SessionExpires(l)
  \/ \E o \in Logouts : Logout(o)
  \/ \E u \in Users : LockPasses(u) \/ SetActive(u)
  \/ \E r \in Logins \union Logouts : Lose(r)

Spec == Init /\ [][Next]_vars

-----------------------------------------------------------------------------
(* What the component promises. *)

\* A login that was counted as a failure.
Counted(l) == login[l].at \in {"read", "lock", "auditDenied", "denied"}

\* A login that has reset the count.
Reset(l) == login[l].at \in {"create", "auditIn", "in"}

\* Once the failed attempts of a user reach the limit he is locked, or was and
\* the lock has run out, or one of the requests that failed has still to lock
\* him (or died before it could): concurrent failures cannot each see too few.
FailuresLock ==
  \A u \in Users :
    attempts[u] >= MaxFailedAttempts /\ lockedUntil[u] = "null" =>
      \E l \in Logins : login[l].user = u /\ login[l].at \in {"read", "lock"}

\* No failure is lost among concurrent logins: until a login of the user
\* succeeds, his count is the number of his logins that failed.
NoFailureIsLost ==
  \A u \in Users :
    (\A l \in Logins : login[l].user = u => ~Reset(l)) =>
      attempts[u] = Cardinality({l \in Logins : login[l].user = u /\ Counted(l)})

\* The logout that revoked a session: it is about to say so in the audit
\* trail, or has said so.
Revoker(o, s) ==
  /\ logout[o].session = s
  /\ logout[o].at = "auditRevoked" \/ [action |-> "SESSION_REVOKED", by |-> o] \in audit

\* The audit trail agrees with the sessions when two logouts of one session
\* race: a session is revoked by exactly one of them, a session that nobody
\* revoked has no such row, and a logout is reported for revoked sessions only.
RevokedOnce ==
  /\ \A s \in Logins : session[s] = "revoked" <=> \E o \in Logouts : Revoker(o, s)
  /\ \A o, p \in Logouts :
       (\E s \in Logins : Revoker(o, s) /\ Revoker(p, s)) => o = p
  /\ \A o \in Logouts :
       [action |-> "LOGOUT", by |-> o] \in audit => session[logout[o].session] = "revoked"

-----------------------------------------------------------------------------
(* The inductive invariant. *)

\* A login that looks at a password has a user, and a session is the login's
\* that created it.
LoginsOK ==
  \A l \in Logins :
    /\ login[l].at \notin {"idle", "auditRefused", "refused"} => login[l].user \in Users
    /\ session[l] # "none" <=> login[l].at \in {"auditIn", "in"}

\* A logout has the session the guard admitted, and has revoked it, or found it
\* revoked, before it writes anything to the audit trail.
LogoutsOK ==
  \A o \in Logouts :
    /\ logout[o].at # "idle"
         => logout[o].session \in Logins /\ session[logout[o].session] # "none"
    /\ logout[o].at \in {"auditRevoked", "auditLogout", "out"}
         => session[logout[o].session] = "revoked"
    /\ [action |-> "SESSION_REVOKED", by |-> o] \in audit
         => logout[o].at \in {"auditLogout", "out"}
    /\ [action |-> "LOGOUT", by |-> o] \in audit => logout[o].at = "out"

IInv ==
  TypeOK /\ LoginsOK /\ LogoutsOK /\ FailuresLock /\ NoFailureIsLost /\ RevokedOnce

=============================================================================
