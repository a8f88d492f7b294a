------------------------------ MODULE BcraRequests ------------------------------
(***************************************************************************)
(* The requests to BCRA: BcraRequestQueue and fetchWithRetry.              *)
(*                                                                         *)
(* A process sends at most Concurrency requests at a time.  A call that    *)
(* finds no free slot waits; a request that ends hands its slot to the     *)
(* first that waits, without touching the count.  A call makes up to       *)
(* MaxRetries + 1 attempts, each with a timer that starts before it asks   *)
(* for a slot.  Node runs one callback at a time, so what happens between  *)
(* two awaits is one step.                                                 *)
(***************************************************************************)
EXTENDS Integers, FiniteSets, Sequences

CONSTANTS
  Calls,       \* callers of fetchWithRetry, two per evaluation
  Concurrency, \* BCRA_MAX_CONCURRENT_REQUESTS, at least 1
  MaxRetries   \* BCRA_MAX_RETRIES

ASSUME BcraRequestsAssumption ==
  /\ IsFiniteSet(Calls)
  /\ Concurrency \in Nat \ {0}
  /\ MaxRetries \in Nat

VARIABLES
  at,          \* where a call is
  attempt,     \* its attempt, from 1
  aborted,     \* calls whose attempt has timed out
  activeCount, \* slots in use
  waitQueue    \* calls that wait for a slot

vars == <<at, attempt, aborted, activeCount, waitQueue>>

\* "body" has the response's headers and reads the rest of it.
Place == {"idle", "waiting", "fetching", "backoff", "body"}

TypeOK ==
  /\ at \in [Calls -> Place]
  /\ attempt \in [Calls -> 1 .. MaxRetries + 1]
  /\ aborted \subseteq Calls
  /\ activeCount \in 0 .. Concurrency
  /\ waitQueue \in Seq(Calls)

Init ==
  /\ at = [k \in Calls |-> "idle"]
  /\ attempt = [k \in Calls |-> 1]
  /\ aborted = {}
  /\ activeCount = 0
  /\ waitQueue = <<>>

-----------------------------------------------------------------------------
SlotFree == activeCount < Concurrency

\* A new attempt: a fresh timer, then acquire().
Attempt(k, n) ==
  /\ attempt' = [attempt EXCEPT ![k] = n]
  /\ aborted' = aborted \ {k}
  /\ \/ /\ SlotFree
        /\ activeCount' = activeCount + 1
        /\ at' = [at EXCEPT ![k] = "fetching"]
        /\ UNCHANGED waitQueue
     \/ /\ ~SlotFree
        /\ waitQueue' = Append(waitQueue, k)
        /\ at' = [at EXCEPT ![k] = "waiting"]
        /\ UNCHANGED activeCount

Call(k) == at[k] = "idle" /\ Attempt(k, 1)

BackoffEnds(k) == at[k] = "backoff" /\ Attempt(k, attempt[k] + 1)

\* The timer runs while the call waits for its slot, too.
TimerFires(k) ==
  /\ at[k] \in {"waiting", "fetching"}
  /\ k \notin aborted
  /\ aborted' = aborted \union {k}
  /\ UNCHANGED <<at, attempt, activeCount, waitQueue>>

\* Mutant: the slot is counted free although it has been handed on.
HandOverAndDecrement(k, to) ==
  /\ activeCount' = activeCount - 1
  /\ IF waitQueue # <<>>
     THEN /\ waitQueue' = Tail(waitQueue)
          /\ at' = [at EXCEPT ![k] = to, ![Head(waitQueue)] = "fetching"]
     ELSE /\ at' = [at EXCEPT ![k] = to]
          /\ UNCHANGED waitQueue

\* Mutant: the last to wait is the first to be served.
HandOverToLast(k, to) ==
  IF waitQueue # <<>>
  THEN /\ waitQueue' = SubSeq(waitQueue, 1, Len(waitQueue) - 1)
       /\ at' = [at EXCEPT ![k] = to, ![waitQueue[Len(waitQueue)]] = "fetching"]
       /\ UNCHANGED activeCount
  ELSE /\ activeCount' = activeCount - 1
       /\ at' = [at EXCEPT ![k] = to]
       /\ UNCHANGED waitQueue

\* Mutant: the slot is given back and nobody is woken.
ReleaseSilently(k, to) ==
  /\ activeCount' = activeCount - 1
  /\ at' = [at EXCEPT ![k] = to]
  /\ UNCHANGED waitQueue

\* release(), as call k goes on to its next place.
Release(k, to) ==
  IF waitQueue # <<>>
  THEN /\ waitQueue' = Tail(waitQueue)
       /\ at' = [at EXCEPT ![k] = to, ![Head(waitQueue)] = "fetching"]
       /\ UNCHANGED activeCount
  ELSE /\ activeCount' = activeCount - 1
       /\ at' = [at EXCEPT ![k] = to]
       /\ UNCHANGED waitQueue

RetriesLeft(k) == attempt[k] <= MaxRetries

\* fetch() resolves with a status below 500: the timer is cleared and the slot
\* released before the body is read.
FetchAnswers(k) ==
  /\ at[k] = "fetching"
  /\ k \notin aborted
  /\ Release(k, "body")
  /\ UNCHANGED <<attempt, aborted>>

\* A status of 500 and above, a network error, or AbortError: another attempt
\* after a pause, or BCRA_UNAVAILABLE.
FetchFails(k) ==
  /\ at[k] = "fetching"
  /\ Release(k, IF RetriesLeft(k) THEN "backoff" ELSE "idle")
  /\ UNCHANGED <<attempt, aborted>>

\* The body has arrived, is no JSON, or the connection breaks.
ReadBody(k) ==
  /\ at[k] = "body"
  /\ at' = [at EXCEPT ![k] = "idle"]
  /\ UNCHANGED <<attempt, aborted, activeCount, waitQueue>>

Next ==
  \E k \in Calls :
    \/ Call(k) \/ BackoffEnds(k) \/ TimerFires(k)
    \/ FetchAnswers(k) \/ FetchFails(k) \/ ReadBody(k)

Spec == Init /\ [][Next]_vars

\* Timers fire: those of attempts and of pauses.  fetch() rejects when it is
\* aborted.  Nothing is assumed of BCRA.
Fairness ==
  \A k \in Calls :
    /\ WF_vars(TimerFires(k))
    /\ WF_vars(BackoffEnds(k))
    /\ WF_vars(k \in aborted /\ FetchFails(k))

FairSpec == Spec /\ Fairness

-----------------------------------------------------------------------------
\* The slots in use are counted right through every hand-over, and never more
\* than Concurrency requests are under way.
SlotsAreCounted ==
  /\ activeCount = Cardinality({k \in Calls : at[k] = "fetching"})
  /\ activeCount <= Concurrency

\* No slot is idle while a call waits, and a waiting call is queued once.
NobodyWaitsInVain ==
  /\ waitQueue # <<>> => activeCount = Concurrency
  /\ \A k \in Calls :
       Cardinality({i \in DOMAIN waitQueue : waitQueue[i] = k})
         = IF at[k] = "waiting" THEN 1 ELSE 0

\* Slots are given in the order they were asked for: a call that starts to
\* fetch was the first in the queue, or found it empty.
FirstComeFirstServed ==
  [][\A k \in Calls :
       at[k] # "fetching" /\ at'[k] = "fetching" =>
         IF waitQueue = <<>> THEN TRUE ELSE k = Head(waitQueue)]_vars

\* Every call comes to an end, the reading of the body left aside, even if
\* BCRA never answers and callers never stop calling.
CallsEnd ==
  \A k \in Calls :
    at[k] \in {"waiting", "fetching", "backoff"} ~> at[k] \in {"idle", "body"}

=============================================================================
