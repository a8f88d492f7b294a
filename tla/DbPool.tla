------------------------------- MODULE DbPool -------------------------------
(***************************************************************************)
(* The pool of database connections and the rows its transactions lock.     *)
(*                                                                         *)
(* A transaction of db.service.ts takes a connection, locks the rows it     *)
(* needs one after the other and commits.  A statement outside it takes a   *)
(* connection of its own, also when a transaction asks for it: applying a    *)
(* payment does (getLoanWithTNA), while it holds a connection and the        *)
(* payment's row.                                                           *)
(*                                                                         *)
(* The pool (pg) keeps those who wait in a queue without a limit of time.   *)
(* The rows and the detection of deadlocks among them are PostgreSQL's.     *)
(***************************************************************************)
EXTENDS Naturals, Sequences, FiniteSets, SequencesExt

CONSTANTS
  Requests,   \* HTTP requests that may be in progress at once
  Program,    \* per request, its statements: the row to lock, or Query
  Query,      \* a statement outside the transaction
  MaxConn     \* max of the pool

ASSUME DbPoolAssumption ==
  /\ MaxConn \in Nat \ {0}
  /\ DOMAIN Program = Requests

VARIABLES
  at,        \* where a request is
  step,      \* the statement of its program it has come to
  busy,      \* connections in use
  pending    \* requests that wait for a connection, first come first

vars == <<at, step, busy, pending>>

Place == {"idle", "connecting", "running", "asking", "querying"}

Init ==
  /\ at = [r \in Requests |-> "idle"]
  /\ step = [r \in Requests |-> 1]
  /\ busy = 0
  /\ pending = <<>>

-----------------------------------------------------------------------------
Finished(r) == step[r] > Len(Program[r])
InTransaction(r) == at[r] \in {"running", "asking", "querying"}
Held(r) ==
  IF InTransaction(r) THEN {Program[r][i] : i \in 1 .. step[r] - 1} \ {Query} ELSE {}
Wants(r) ==
  IF at[r] = "running" /\ ~Finished(r) /\ Program[r][step[r]] # Query
  THEN {Program[r][step[r]]} ELSE {}
Blocks(s, r) == s # r /\ Held(s) \intersect Wants(r) # {}

Connected(place) == IF place = "connecting" THEN "running" ELSE "querying"

\* pool.connect() and pool.query(): a connection if one is free.
Ask(r, place) ==
  IF busy < MaxConn
  THEN /\ busy' = busy + 1
       /\ at' = [at EXCEPT ![r] = Connected(place)]
       /\ UNCHANGED pending
  ELSE /\ at' = [at EXCEPT ![r] = place]
       /\ pending' = Append(pending, r)
       /\ UNCHANGED busy

\* Mutant: a released connection is only put back.
ReleaseWithoutPulse(r, place) ==
  /\ busy' = busy - 1
  /\ at' = [at EXCEPT ![r] = place]
  /\ UNCHANGED pending

\* client.release(): the connection goes to the first that waits.
Release(r, place) ==
  IF pending = <<>>
  THEN /\ busy' = busy - 1
       /\ at' = [at EXCEPT ![r] = place]
       /\ UNCHANGED pending
  ELSE LET next == Head(pending)
       IN  /\ at' = [at EXCEPT ![r] = place, ![next] = Connected(at[next])]
           /\ pending' = Tail(pending)
           /\ UNCHANGED busy

Arrive(r) ==
  /\ at[r] = "idle"
  /\ Ask(r, "connecting")
  /\ UNCHANGED step

\* SELECT ... FOR UPDATE, once nobody else holds the row.
LockRow(r) ==
  /\ Wants(r) # {}
  /\ \A s \in Requests : ~Blocks(s, r)
  /\ step' = [step EXCEPT ![r] = @ + 1]
  /\ UNCHANGED <<at, busy, pending>>

AskSecondConnection(r) ==
  /\ at[r] = "running" /\ ~Finished(r) /\ Program[r][step[r]] = Query
  /\ Ask(r, "asking")
  /\ UNCHANGED step

QueryEnds(r) ==
  /\ at[r] = "querying"
  /\ Release(r, "running")
  /\ step' = [step EXCEPT ![r] = @ + 1]

\* COMMIT, or a statement failed and ROLLBACK: the finally clause.
End(r) ==
  /\ Release(r, "idle")
  /\ step' = [step EXCEPT ![r] = 1]

Commit(r) == at[r] = "running" /\ Finished(r) /\ End(r)

\* PostgreSQL fails one of the transactions that wait for each other's rows.
\* (No three of the code's transactions do.)
InCycle(r) ==
  \E s \in Requests : Blocks(s, r) /\ Blocks(r, s)
DeadlockDetected(r) == InCycle(r) /\ End(r)

Steps(r) ==
  LockRow(r) \/ AskSecondConnection(r) \/ QueryEnds(r) \/ Commit(r) \/ DeadlockDetected(r)

Next == \E r \in Requests : Arrive(r) \/ Steps(r)

Spec == Init /\ [][Next]_vars

\* The database answers and a row goes to one that has waited for it in the
\* end; nobody has to send another request.
FairSpec ==
  Spec /\ \A r \in Requests : SF_vars(LockRow(r)) /\ WF_vars(Steps(r))

-----------------------------------------------------------------------------
\* Every connection is held by an application that waits for its second one,
\* or by a transaction that waits for a row which, in the end, such a one holds.
Starved ==
  /\ busy = MaxConn
  /\ \E r \in Requests : at[r] = "asking"
  /\ \A r \in Requests : InTransaction(r) =>
       at[r] = "asking" \/ (~InCycle(r) /\ \E s \in Requests : Blocks(s, r))

\* Every request ends: however they queue for connections and rows, and
\* whatever deadlocks the database breaks, only one thing stops the process,
\* applications that have taken every connection and wait for another.
RequestsEnd ==
  \A r \in Requests : at[r] # "idle" ~> (at[r] = "idle" \/ Starved)
=============================================================================
