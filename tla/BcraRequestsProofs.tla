-------------------------- MODULE BcraRequestsProofs --------------------------
(* What holds of the BCRA requests for every set of calls, every number of   *)
(* slots and every number of retries.                                        *)
EXTENDS BcraRequests, FiniteSetTheorems, TLAPS

Fetching == {k \in Calls : at[k] = "fetching"}

\* The queue holds the waiting calls, each once.
QueueOK ==
  /\ \A i, j \in DOMAIN waitQueue : waitQueue[i] = waitQueue[j] => i = j
  /\ \A i \in DOMAIN waitQueue : at[waitQueue[i]] = "waiting"
  /\ \A k \in Calls : at[k] = "waiting" => \E i \in DOMAIN waitQueue : waitQueue[i] = k

\* Only a call with an attempt left makes a pause.
BackoffOK == \A k \in Calls : at[k] = "backoff" => attempt[k] \in 1 .. MaxRetries

\* The inductive invariant.
IInv ==
  /\ TypeOK
  /\ BackoffOK
  /\ activeCount = Cardinality(Fetching)
  /\ waitQueue # <<>> => activeCount = Concurrency
  /\ QueueOK

-----------------------------------------------------------------------------
LEMMA FetchingFinite == IsFiniteSet(Fetching)
  BY BcraRequestsAssumption, FS_Subset DEF Fetching

\* A queue that loses its head is shifted by one.
LEMMA TailOfQueue ==
  ASSUME NEW q \in Seq(Calls), q # <<>>
  PROVE  /\ Head(q) \in Calls /\ Head(q) = q[1] /\ 1 \in DOMAIN q
         /\ Tail(q) \in Seq(Calls)
         /\ DOMAIN Tail(q) = 1 .. Len(q) - 1
         /\ \A i \in 1 .. Len(q) - 1 : Tail(q)[i] = q[i + 1]
  OBVIOUS

LEMMA InitIInv == Init => IInv
  <1> SUFFICES ASSUME Init PROVE IInv
    OBVIOUS
  <1>1. TypeOK
    BY BcraRequestsAssumption DEF Init, TypeOK, Place
  <1>2. activeCount = Cardinality(Fetching)
    <2>1. Fetching = {}
      BY DEF Init, Fetching
    <2> QED
      BY <2>1, FS_EmptySet DEF Init
  <1>3. QueueOK
    BY DEF Init, QueueOK
  <1> QED
    BY <1>1, <1>2, <1>3 DEF IInv, Init, BackoffOK

-----------------------------------------------------------------------------
(* A call asks for a slot. *)

LEMMA AttemptStep ==
  ASSUME IInv, NEW k \in Calls, at[k] \in {"idle", "backoff"},
         NEW n \in 1 .. MaxRetries + 1, Attempt(k, n)
  PROVE  IInv'
  <1> USE DEF IInv
  <1>1. CASE SlotFree /\ at' = [at EXCEPT ![k] = "fetching"]
             /\ activeCount' = activeCount + 1 /\ UNCHANGED waitQueue
    <2>1. TypeOK'
      BY <1>1, BcraRequestsAssumption DEF TypeOK, Place, Attempt, SlotFree
    <2>2. Fetching' = Fetching \union {k} /\ k \notin Fetching
      BY <1>1 DEF Fetching, TypeOK
    <2>3. activeCount' = Cardinality(Fetching')
      BY <1>1, <2>2, FetchingFinite, FS_AddElement DEF TypeOK
    <2>4. waitQueue = <<>>
      BY <1>1, BcraRequestsAssumption DEF SlotFree, TypeOK
    <2>5. QueueOK'
      BY <1>1, <2>4 DEF QueueOK, TypeOK
    <2>6. BackoffOK'
      BY <1>1 DEF BackoffOK, TypeOK, Attempt
    <2> QED
      BY <1>1, <2>1, <2>3, <2>4, <2>5, <2>6
  <1>2. CASE ~SlotFree /\ at' = [at EXCEPT ![k] = "waiting"]
             /\ waitQueue' = Append(waitQueue, k) /\ UNCHANGED activeCount
    <2>1. TypeOK'
      BY <1>2 DEF TypeOK, Place, Attempt
    <2>2. Fetching' = Fetching
      BY <1>2 DEF Fetching, TypeOK
    <2>3. activeCount = Concurrency
      BY <1>2, BcraRequestsAssumption DEF SlotFree, TypeOK
    <2>4. /\ DOMAIN waitQueue' = DOMAIN waitQueue \union {Len(waitQueue) + 1}
          /\ waitQueue'[Len(waitQueue) + 1] = k
          /\ \A i \in DOMAIN waitQueue : waitQueue'[i] = waitQueue[i] /\ waitQueue[i] \in Calls
      BY <1>2 DEF TypeOK
    <2>5. \A i \in DOMAIN waitQueue : waitQueue[i] # k
      BY DEF QueueOK
    <2>6. QueueOK'
      BY <1>2, <2>4, <2>5 DEF QueueOK, TypeOK
    <2>7. BackoffOK'
      BY <1>2 DEF BackoffOK, TypeOK, Attempt
    <2> QED
      BY <1>2, <2>1, <2>2, <2>3, <2>6, <2>7
  <1> QED
    BY <1>1, <1>2 DEF Attempt

-----------------------------------------------------------------------------
(* A request ends. *)

LEMMA ReleaseStep ==
  ASSUME IInv, NEW k \in Calls, at[k] = "fetching",
         NEW to \in {"body", "backoff", "idle"}, Release(k, to),
         to = "backoff" => RetriesLeft(k),
         UNCHANGED <<attempt, aborted>>
  PROVE  IInv'
  <1> USE DEF IInv
  <1>0. k \in Fetching /\ Cardinality(Fetching \ {k}) = Cardinality(Fetching) - 1
        /\ IsFiniteSet(Fetching \ {k}) /\ Cardinality(Fetching) \in Nat \ {0}
    BY FetchingFinite, FS_RemoveElement, FS_CardinalityType, FS_EmptySet DEF Fetching
  <1>1. CASE waitQueue # <<>>
    <2> DEFINE h == Head(waitQueue)
    <2>1. /\ waitQueue' = Tail(waitQueue)
          /\ at' = [at EXCEPT ![k] = to, ![h] = "fetching"]
          /\ activeCount' = activeCount
      BY <1>1 DEF Release
    <2>2. /\ h \in Calls /\ h = waitQueue[1] /\ 1 \in DOMAIN waitQueue
          /\ waitQueue' \in Seq(Calls)
          /\ DOMAIN waitQueue' = 1 .. Len(waitQueue) - 1
          /\ DOMAIN waitQueue = 1 .. Len(waitQueue)
          /\ \A i \in 1 .. Len(waitQueue) - 1 : waitQueue'[i] = waitQueue[i + 1]
      BY <1>1, <2>1, TailOfQueue DEF TypeOK
    <2>3. at[h] = "waiting" /\ h # k
      BY <2>2 DEF QueueOK
    <2>0. k \in DOMAIN at /\ h \in DOMAIN at
      BY <2>2 DEF TypeOK
    <2> HIDE DEF h
    <2>4. /\ at'[h] = "fetching" /\ at'[k] = to
          /\ \A m \in Calls \ {h, k} : at'[m] = at[m]
      BY <2>0, <2>1, <2>2, <2>3 DEF TypeOK
    <2>5. TypeOK'
      BY <2>1, <2>2 DEF TypeOK, Place
    <2>6. Fetching' = (Fetching \ {k}) \union {h} /\ h \notin Fetching \ {k}
      BY <2>2, <2>3, <2>4 DEF Fetching
    <2>7. activeCount' = Cardinality(Fetching')
      <3>1. Cardinality((Fetching \ {k}) \union {h}) = Cardinality(Fetching \ {k}) + 1
        BY <1>0, <2>6, FS_AddElement
      <3> QED
        BY <1>0, <2>1, <2>6, <3>1
    <2>8. QueueOK'
      <3>0. Len(waitQueue) \in Nat
        BY DEF TypeOK
      <3>1. ASSUME NEW i \in DOMAIN waitQueue', NEW j \in DOMAIN waitQueue',
                   waitQueue'[i] = waitQueue'[j]
            PROVE  i = j
        <4>1. /\ i \in Int /\ j \in Int
              /\ i + 1 \in DOMAIN waitQueue /\ j + 1 \in DOMAIN waitQueue
              /\ waitQueue[i + 1] = waitQueue[j + 1]
          BY <2>2, <3>0, <3>1
        <4>2. i + 1 = j + 1
          BY <4>1 DEF QueueOK
        <4> QED
          BY <4>1, <4>2
      <3>2. ASSUME NEW i \in DOMAIN waitQueue' PROVE at'[waitQueue'[i]] = "waiting"
        <4>1. i + 1 \in DOMAIN waitQueue /\ i + 1 # 1 /\ waitQueue'[i] = waitQueue[i + 1]
          BY <2>2, <3>0
        <4>2. waitQueue[i + 1] # h /\ at[waitQueue[i + 1]] = "waiting"
          BY <2>2, <4>1 DEF QueueOK
        <4>3. waitQueue[i + 1] # k /\ waitQueue[i + 1] \in Calls
          BY <4>1, <4>2 DEF TypeOK
        <4> QED
          BY <2>4, <4>1, <4>2, <4>3
      <3>3. ASSUME NEW m \in Calls, at'[m] = "waiting"
            PROVE  \E i \in DOMAIN waitQueue' : waitQueue'[i] = m
        <4>1. m # h /\ m # k /\ at[m] = "waiting"
          BY <2>4, <3>3
        <4>2. PICK j \in DOMAIN waitQueue : waitQueue[j] = m
          BY <4>1 DEF QueueOK
        <4>3. j # 1
          BY <2>2, <4>1, <4>2
        <4>4. j - 1 \in DOMAIN waitQueue' /\ waitQueue'[j - 1] = m
          BY <2>2, <4>2, <4>3 DEF TypeOK
        <4> QED
          BY <4>4
      <3> QED
        BY <3>1, <3>2, <3>3 DEF QueueOK
    <2>9. BackoffOK'
      <3>1. ASSUME NEW m \in Calls, at'[m] = "backoff" PROVE attempt[m] \in 1 .. MaxRetries
        <4>1. CASE m = k
          <5>1. attempt[k] \in 1 .. MaxRetries + 1 /\ attempt[k] <= MaxRetries
            BY <2>4, <3>1, <4>1 DEF RetriesLeft, TypeOK
          <5> QED
            BY <4>1, <5>1, BcraRequestsAssumption
        <4>2. CASE m # k
          <5>1. at[m] = "backoff"
            BY <2>4, <3>1, <4>2
          <5> QED
            BY <5>1 DEF BackoffOK
        <4> QED
          BY <4>1, <4>2
      <3> QED
        BY <3>1 DEF BackoffOK
    <2> QED
      BY <1>1, <2>1, <2>5, <2>7, <2>8, <2>9
  <1>2. CASE waitQueue = <<>>
    <2>1. /\ waitQueue' = <<>> /\ at' = [at EXCEPT ![k] = to] /\ activeCount' = activeCount - 1
      BY <1>2 DEF Release
    <2>2. Fetching' = Fetching \ {k}
      BY <2>1 DEF Fetching, TypeOK
    <2>3. TypeOK'
      BY <1>0, <1>2, <2>1, BcraRequestsAssumption DEF TypeOK, Place
    <2>4. QueueOK'
      BY <1>2, <2>1 DEF QueueOK, TypeOK
    <2>5. BackoffOK'
      BY <2>1, BcraRequestsAssumption DEF BackoffOK, RetriesLeft, TypeOK
    <2> QED
      BY <1>0, <2>1, <2>2, <2>3, <2>4, <2>5
  <1> QED
    BY <1>1, <1>2

-----------------------------------------------------------------------------
(* Every step. *)

LEMMA NextIInv == IInv /\ [Next]_vars => IInv'
  <1> SUFFICES ASSUME IInv, [Next]_vars PROVE IInv'
    OBVIOUS
  <1>1. ASSUME NEW k \in Calls, Call(k) PROVE IInv'
    BY <1>1, AttemptStep, BcraRequestsAssumption DEF Call
  <1>2. ASSUME NEW k \in Calls, BackoffEnds(k) PROVE IInv'
    <2>1. attempt[k] + 1 \in 1 .. MaxRetries + 1
      BY <1>2, BcraRequestsAssumption DEF BackoffEnds, IInv, BackoffOK
    <2> QED
      BY <1>2, <2>1, AttemptStep DEF BackoffEnds
  <1>3. ASSUME NEW k \in Calls, TimerFires(k) PROVE IInv'
    BY <1>3 DEF TimerFires, IInv, TypeOK, BackoffOK, QueueOK, Fetching
  <1>4. ASSUME NEW k \in Calls, FetchAnswers(k) PROVE IInv'
    BY <1>4, ReleaseStep DEF FetchAnswers
  <1>5. ASSUME NEW k \in Calls, FetchFails(k) PROVE IInv'
    BY <1>5, ReleaseStep DEF FetchFails
  <1>6. ASSUME NEW k \in Calls, ReadBody(k) PROVE IInv'
    <2>1. Fetching' = Fetching
      BY <1>6 DEF ReadBody, Fetching, IInv, TypeOK
    <2>2. TypeOK' /\ BackoffOK'
      BY <1>6 DEF ReadBody, IInv, TypeOK, BackoffOK, Place
    <2>3. QueueOK'
      BY <1>6 DEF ReadBody, IInv, TypeOK, QueueOK
    <2> QED
      BY <1>6, <2>1, <2>2, <2>3 DEF ReadBody, IInv
  <1>7. CASE UNCHANGED vars
    BY <1>7 DEF vars, IInv, TypeOK, BackoffOK, QueueOK, Fetching
  <1> QED
    BY <1>1, <1>2, <1>3, <1>4, <1>5, <1>6, <1>7 DEF Next

-----------------------------------------------------------------------------
\* IInv holds of every reachable state.
THEOREM Invariance == Spec => []IInv
  BY InitIInv, NextIInv, PTL DEF Spec

\* No call makes more than MaxRetries + 1 attempts, and the variables have
\* their types.
THEOREM TypeCorrect == Spec => []TypeOK
  <1>1. IInv => TypeOK
    BY DEF IInv
  <1> QED
    BY <1>1, Invariance, PTL

\* At most Concurrency requests are under way, and they are counted right.
THEOREM SlotsCounted == Spec => []SlotsAreCounted
  <1>1. IInv => SlotsAreCounted
    BY BcraRequestsAssumption DEF IInv, TypeOK, Fetching, SlotsAreCounted
  <1> QED
    BY <1>1, Invariance, PTL

\* No slot is idle while a call waits, and a waiting call is queued once.
THEOREM NoVainWait == Spec => []NobodyWaitsInVain
  <1>1. ASSUME IInv PROVE NobodyWaitsInVain
    <2> USE DEF IInv
    <2> SUFFICES ASSUME NEW k \in Calls
                 PROVE  Cardinality({i \in DOMAIN waitQueue : waitQueue[i] = k})
                          = IF at[k] = "waiting" THEN 1 ELSE 0
      BY <1>1 DEF NobodyWaitsInVain
    <2> DEFINE P == {i \in DOMAIN waitQueue : waitQueue[i] = k}
    <2>1. CASE at[k] = "waiting"
      <3>1. PICK i \in DOMAIN waitQueue : P = {i}
        BY <1>1, <2>1 DEF QueueOK
      <3> QED
        BY <2>1, <3>1, FS_Singleton
    <2>2. CASE at[k] # "waiting"
      <3>1. P = {}
        BY <1>1, <2>2 DEF QueueOK
      <3> QED
        BY <2>2, <3>1, FS_EmptySet
    <2> QED
      BY <2>1, <2>2
  <1> QED
    BY <1>1, Invariance, PTL

\* Slots are given in the order in which they were asked for.
THEOREM FirstServed == Spec => FirstComeFirstServed
  <1> DEFINE A == \A k \in Calls :
                    at[k] # "fetching" /\ at'[k] = "fetching" =>
                      IF waitQueue = <<>> THEN TRUE ELSE k = Head(waitQueue)
  <1>1. IInv /\ [Next]_vars => [A]_vars
    <2> SUFFICES ASSUME IInv, Next, NEW m \in Calls, at[m] # "fetching", at'[m] = "fetching",
                        waitQueue # <<>>
                 PROVE  m = Head(waitQueue)
      OBVIOUS
    <2>1. ~SlotFree
      BY BcraRequestsAssumption DEF SlotFree, IInv, TypeOK
    <2>2. PICK k \in Calls : \/ Call(k) \/ BackoffEnds(k) \/ TimerFires(k)
                             \/ FetchAnswers(k) \/ FetchFails(k) \/ ReadBody(k)
      BY DEF Next
    <2>3. ASSUME NEW to \in {"body", "backoff", "idle"}, Release(k, to)
          PROVE  m = Head(waitQueue)
      BY <2>3 DEF Release, IInv, TypeOK
    <2>4. CASE Call(k) \/ BackoffEnds(k)
      BY <2>1, <2>4 DEF Call, BackoffEnds, Attempt, IInv, TypeOK
    <2>5. CASE TimerFires(k) \/ ReadBody(k)
      BY <2>5 DEF TimerFires, ReadBody, IInv, TypeOK
    <2>6. CASE FetchAnswers(k) \/ FetchFails(k)
      BY <2>3, <2>6 DEF FetchAnswers, FetchFails
    <2> QED
      BY <2>2, <2>4, <2>5, <2>6
  <1> QED
    BY <1>1, Invariance, PTL DEF Spec, FirstComeFirstServed

=============================================================================
