-------------------------- MODULE ContractDataProofs --------------------------
(* What holds of the collection of contract data for any number of cases and *)
(* of tokens.                                                                *)
EXTENDS ContractData, TLAPS

\* A token that was not replaced.
Live(t) == tokenStatus[t] \in {"PENDING", "USED"}

Of(t, c, s) == tokenCase[t] = c /\ tokenSubject[t] = s

\* A token that exists is of a signer of a case whose collection has begun.
RowOK(t) ==
  /\ tokenStatus[t] = "NONE" <=> tokenCase[t] = NoCase
  /\ tokenStatus[t] # "NONE" =>
       /\ tokenSubject[t] \in ExpectedSubjects(tokenCase[t])
       /\ caseStatus[tokenCase[t]] # "APROBADO_FINAL"

RowsOK == \A t \in Tokens : RowOK(t)

\* A signer has one live token, and has one as long as his case collects; such a
\* case has a token that was not used.
LiveUnique ==
  \A t, u \in Tokens :
    Live(t) /\ Live(u) /\ tokenCase[t] = tokenCase[u] /\ tokenSubject[t] = tokenSubject[u]
    => t = u

Collecting(c) ==
  /\ \A s \in ExpectedSubjects(c) : \E t \in Tokens : Live(t) /\ Of(t, c, s)
  /\ \E t \in Tokens : tokenCase[t] = c /\ tokenStatus[t] # "USED"

LiveOK ==
  LiveUnique /\ \A c \in Cases : caseStatus[c] = "PENDING_CONTRACT_DATA" => Collecting(c)

\* What was written was submitted with a token, and a complete case has all of it.
SavedOK ==
  /\ \A c \in Cases, s \in Subject :
       <<c, s>> \in saved <=> \E t \in Tokens : tokenStatus[t] = "USED" /\ Of(t, c, s)
  /\ \A c \in Cases : caseStatus[c] = "CONTRACT_DATA_COMPLETED" =>
       \A s \in ExpectedSubjects(c) : <<c, s>> \in saved
  /\ \A c \in started : caseStatus[c] = "CONTRACT_DATA_COMPLETED"

\* The inductive invariant.
IInv == TypeOK /\ RowsOK /\ LiveOK /\ SavedOK

-----------------------------------------------------------------------------
LEMMA SubjectsType ==
  \A c : ExpectedSubjects(c) \subseteq Subject /\ "TITULAR" \in ExpectedSubjects(c)
  BY DEF ExpectedSubjects, Subject

LEMMA InitIInv == Init => IInv
  <1> SUFFICES ASSUME Init PROVE IInv
    OBVIOUS
  <1>1. TypeOK
    BY DEF Init, TypeOK, CaseStatus, TokenStatus, Subject
  <1>2. RowsOK
    BY ContractDataAssumption DEF Init, RowsOK, RowOK
  <1>3. LiveOK
    BY DEF Init, LiveOK, LiveUnique, Live
  <1>4. SavedOK
    BY DEF Init, SavedOK
  <1> QED
    BY <1>1, <1>2, <1>3, <1>4 DEF IInv

-----------------------------------------------------------------------------
(* Inserting tokens. *)

\* What InsertTokens does to each token: t is replaced, new, or left alone.
Replaced(t, E) ==
  /\ t \in E /\ tokenStatus'[t] = "EXPIRED"
  /\ tokenCase'[t] = tokenCase[t] /\ tokenSubject'[t] = tokenSubject[t]

New(t, c, s) ==
  /\ tokenStatus[t] = "NONE" /\ tokenStatus'[t] = "PENDING"
  /\ tokenCase'[t] = c /\ tokenSubject'[t] = s

Same(t) ==
  /\ tokenStatus'[t] = tokenStatus[t]
  /\ tokenCase'[t] = tokenCase[t] /\ tokenSubject'[t] = tokenSubject[t]

\* Every subject of S gets exactly one new token.
Inserted(c, S, E) ==
  /\ \A t \in Tokens :
       \/ Replaced(t, E)
       \/ \E s \in S : New(t, c, s)
       \/ t \notin E /\ Same(t)
  /\ \A s \in S : \E t \in Tokens : New(t, c, s)
  /\ \A s \in S : \A t, u \in Tokens : New(t, c, s) /\ New(u, c, s) => t = u

LEMMA InsertEffect ==
  ASSUME TypeOK, NEW c \in Cases, NEW S \in SUBSET Subject, NEW E \in SUBSET Tokens,
         \A t \in E : tokenStatus[t] # "NONE", InsertTokens(c, S, E)
  PROVE  /\ Inserted(c, S, E)
         /\ tokenStatus' \in [Tokens -> TokenStatus]
         /\ tokenCase' \in [Tokens -> Cases \union {NoCase}]
         /\ tokenSubject' \in [Tokens -> Subject]
  <1>1. PICK f \in [S -> Unissued] :
          /\ \A s, r \in S : f[s] = f[r] => s = r
          /\ tokenStatus' = [t \in Tokens |-> IF t \in E THEN "EXPIRED"
                                              ELSE IF \E s \in S : f[s] = t THEN "PENDING"
                                              ELSE tokenStatus[t]]
          /\ tokenCase' = [t \in Tokens |-> IF \E s \in S : f[s] = t THEN c ELSE tokenCase[t]]
          /\ tokenSubject' = [t \in Tokens |-> IF \E s \in S : f[s] = t
                                               THEN CHOOSE s \in S : f[s] = t
                                               ELSE tokenSubject[t]]
    BY DEF InsertTokens
  <1>2. \A s \in S : f[s] \in Tokens /\ tokenStatus[f[s]] = "NONE" /\ f[s] \notin E
    BY <1>1 DEF Unissued
  <1>3. ASSUME NEW s \in S PROVE New(f[s], c, s)
    <2>1. (CHOOSE r \in S : f[r] = f[s]) = s
      BY <1>1
    <2> QED
      BY <1>1, <1>2, <2>1 DEF New
  <1>4. \A t \in Tokens : t \in E => Replaced(t, E)
    BY <1>1, <1>2 DEF Replaced
  <1>5. \A t \in Tokens : t \notin E /\ ~(\E s \in S : f[s] = t) => Same(t)
    BY <1>1 DEF Same
  <1>6. ASSUME NEW s \in S, NEW t \in Tokens, New(t, c, s) PROVE t = f[s]
    <2>1. t \notin E
      BY <1>6 DEF New
    <2>2. PICK r \in S : f[r] = t
      BY <1>5, <1>6, <2>1 DEF New, Same
    <2>3. New(t, c, r)
      BY <1>3, <2>2
    <2> QED
      BY <1>6, <2>2, <2>3 DEF New
  <1>7. Inserted(c, S, E)
    BY <1>2, <1>3, <1>4, <1>5, <1>6 DEF Inserted
  <1>8. tokenStatus' \in [Tokens -> TokenStatus] /\ tokenCase' \in [Tokens -> Cases \union {NoCase}]
    BY <1>1 DEF TypeOK, TokenStatus
  <1>9. tokenSubject' \in [Tokens -> Subject]
    BY <1>1 DEF TypeOK
  <1> QED
    BY <1>7, <1>8, <1>9

\* Tokens inserted for S, which has no live token outside E, keep the invariant.
LEMMA InsertStep ==
  ASSUME IInv, NEW c \in Cases, caseStatus[c] # "CONTRACT_DATA_COMPLETED",
         caseStatus' = [caseStatus EXCEPT ![c] = "PENDING_CONTRACT_DATA"],
         NEW S \in SUBSET ExpectedSubjects(c), NEW E \in SUBSET Tokens,
         \A t \in E : tokenStatus[t] = "PENDING" /\ tokenCase[t] = c /\ tokenSubject[t] \in S,
         \A t \in Tokens : Live(t) /\ tokenCase[t] = c /\ tokenSubject[t] \in S => t \in E,
         \A s \in ExpectedSubjects(c) \ S : \E t \in Tokens : Live(t) /\ Of(t, c, s),
         caseStatus[c] = "APROBADO_FINAL" => S # {},
         InsertTokens(c, S, E),
         UNCHANGED <<stale, saved, named, phone, starting, started>>
  PROVE  IInv'
  <1> USE DEF IInv
  <1>1. /\ Inserted(c, S, E)
        /\ tokenStatus' \in [Tokens -> TokenStatus]
        /\ tokenCase' \in [Tokens -> Cases \union {NoCase}]
        /\ tokenSubject' \in [Tokens -> Subject]
    BY SubjectsType, InsertEffect
  <1>2. TypeOK'
    BY <1>1 DEF TypeOK, CaseStatus
  <1>3. /\ caseStatus'[c] = "PENDING_CONTRACT_DATA"
        /\ \A d \in Cases : d # c => caseStatus'[d] = caseStatus[d]
        /\ \A d \in Cases : caseStatus'[d] = "APROBADO_FINAL" => caseStatus[d] = "APROBADO_FINAL"
        /\ c \in Cases /\ c # NoCase
    BY ContractDataAssumption DEF TypeOK
  <1>4. RowsOK'
    <2> SUFFICES ASSUME NEW t \in Tokens PROVE RowOK(t)'
      BY DEF RowsOK
    <2>1. CASE Replaced(t, E)
      BY <1>3, <2>1 DEF Replaced, RowsOK, RowOK, TypeOK
    <2>2. CASE \E s \in S : New(t, c, s)
      BY <1>3, <2>2 DEF New, RowOK
    <2>3. CASE Same(t)
      BY <1>3, <2>3 DEF Same, RowsOK, RowOK, TypeOK
    <2> QED
      BY <1>1, <2>1, <2>2, <2>3 DEF Inserted
  <1>5. \A t \in Tokens : tokenStatus[t] # "NONE" /\ t \notin E => Same(t)
    BY <1>1 DEF Inserted, Replaced, New
  <1>6. \A t \in Tokens : tokenStatus'[t] # "EXPIRED" => t \notin E
    BY <1>1 DEF Inserted, Replaced, New
  <1>7. LiveUnique'
    <2> SUFFICES ASSUME NEW t \in Tokens, NEW u \in Tokens, Live(t)', Live(u)',
                        tokenCase'[t] = tokenCase'[u], tokenSubject'[t] = tokenSubject'[u]
                 PROVE  t = u
      BY DEF LiveUnique
    <2>1. t \notin E /\ u \notin E
      BY <1>6 DEF Live
    <2>2. \A v \in {t, u} : Same(v) \/ \E s \in S : New(v, c, s)
      BY <1>1, <2>1 DEF Inserted, Replaced
    <2>3. CASE Same(t) /\ Same(u)
      BY <2>3 DEF Same, LiveOK, LiveUnique, Live
    <2>4. ASSUME NEW v \in {t, u}, NEW w \in {t, u}, NEW s \in S, New(v, c, s), Same(w) PROVE FALSE
      <3>1. Live(w) /\ tokenCase[w] = c /\ tokenSubject[w] = s
        BY <2>4 DEF New, Same, Live
      <3> QED
        BY <2>1, <3>1
    <2>5. CASE \E s \in S, r \in S : New(t, c, s) /\ New(u, c, r)
      <3>1. PICK s \in S : New(t, c, s) /\ New(u, c, s)
        BY <2>5 DEF New
      <3> QED
        BY <1>1, <3>1 DEF Inserted
    <2> QED
      BY <2>2, <2>3, <2>4, <2>5
  <1>8. ASSUME NEW d \in Cases, caseStatus'[d] = "PENDING_CONTRACT_DATA" PROVE Collecting(d)'
    <2>1. CASE d # c
      <3>1. Collecting(d)
        BY <1>3, <1>8, <2>1 DEF LiveOK
      <3>2. \A t \in Tokens : tokenCase[t] = d => Same(t)
        BY <1>5, <2>1, ContractDataAssumption DEF RowsOK, RowOK
      <3> QED
        BY <3>1, <3>2 DEF Collecting, Same, Live, Of
    <2>2. CASE d = c
      <3>1. ASSUME NEW s \in ExpectedSubjects(c) PROVE \E t \in Tokens : Live(t)' /\ Of(t, c, s)'
        <4>1. CASE s \in S
          BY <1>1, <4>1 DEF Inserted, New, Live, Of
        <4>2. CASE s \notin S
          <5>1. PICK t \in Tokens : Live(t) /\ Of(t, c, s)
            BY <4>2
          <5>2. Same(t)
            BY <1>5, <4>2, <5>1 DEF Live, Of
          <5> QED
            BY <5>1, <5>2 DEF Same, Live, Of
        <4> QED
          BY <4>1, <4>2
      <3>2. \E t \in Tokens : tokenCase'[t] = c /\ tokenStatus'[t] # "USED"
        <4>1. CASE S # {}
          BY <1>1, <4>1 DEF Inserted, New
        <4>2. CASE S = {}
          <5>1. caseStatus[c] = "PENDING_CONTRACT_DATA" /\ E = {}
            BY <4>2 DEF TypeOK, CaseStatus
          <5>2. PICK t \in Tokens : tokenCase[t] = c /\ tokenStatus[t] # "USED"
            BY <5>1 DEF LiveOK, Collecting
          <5>3. Same(t)
            BY <1>3, <1>5, <5>1, <5>2 DEF RowsOK, RowOK
          <5> QED
            BY <5>2, <5>3 DEF Same
        <4> QED
          BY <4>1, <4>2
      <3> QED
        BY <2>2, <3>1, <3>2 DEF Collecting
    <2> QED
      BY <2>1, <2>2
  <1>9. SavedOK'
    <2>1. \A t \in Tokens : tokenStatus[t] = "USED" => Same(t)
      BY <1>5
    <2>2. \A t \in Tokens : tokenStatus'[t] = "USED" => Same(t)
      BY <1>1 DEF Inserted, Replaced, New
    <2>3. \A d \in Cases, s \in Subject :
            <<d, s>> \in saved' <=> \E t \in Tokens : (tokenStatus[t] = "USED" /\ Of(t, d, s))'
      <3> SUFFICES ASSUME NEW d \in Cases, NEW s \in Subject
                   PROVE  (\E t \in Tokens : tokenStatus[t] = "USED" /\ Of(t, d, s))
                            <=> \E t \in Tokens : (tokenStatus[t] = "USED" /\ Of(t, d, s))'
        BY DEF SavedOK
      <3>1. \A t \in Tokens : (tokenStatus[t] = "USED" /\ Of(t, d, s))
                               <=> (tokenStatus[t] = "USED" /\ Of(t, d, s))'
        BY <2>1, <2>2 DEF Same, Of
      <3> QED
        BY <3>1
    <2>4. \A d \in Cases : caseStatus'[d] = "CONTRACT_DATA_COMPLETED" =>
            caseStatus[d] = "CONTRACT_DATA_COMPLETED"
      BY <1>3
    <2>5. \A d \in started : d \in Cases /\ d # c
      BY DEF SavedOK, TypeOK
    <2> QED
      BY <1>3, <2>3, <2>4, <2>5 DEF SavedOK
  <1> QED
    BY <1>2, <1>4, <1>7, <1>8, <1>9 DEF LiveOK

LEMMA InitiateStep ==
  ASSUME IInv, NEW c \in Cases, InitiateFirst(c) \/ InitiateAgain(c)
  PROVE  IInv'
  <1> USE DEF IInv
  <1>1. CASE InitiateFirst(c)
    <2>1. \A t \in Tokens : tokenCase[t] # c
      BY <1>1, ContractDataAssumption DEF InitiateFirst, RowsOK, RowOK
    <2> DEFINE S == ExpectedSubjects(c)
               E == {}
    <2>2. /\ caseStatus[c] = "APROBADO_FINAL"
          /\ caseStatus' = [caseStatus EXCEPT ![c] = "PENDING_CONTRACT_DATA"]
          /\ InsertTokens(c, S, E)
          /\ UNCHANGED <<stale, saved, named, phone, starting, started>>
      BY <1>1 DEF InitiateFirst
    <2>3. S \in SUBSET ExpectedSubjects(c) /\ S # {} /\ E \in SUBSET Tokens
      BY SubjectsType
    <2>4. /\ \A t \in E : tokenStatus[t] = "PENDING" /\ tokenCase[t] = c /\ tokenSubject[t] \in S
          /\ \A t \in Tokens : Live(t) /\ tokenCase[t] = c /\ tokenSubject[t] \in S => t \in E
          /\ \A s \in ExpectedSubjects(c) \ S : \E t \in Tokens : Live(t) /\ Of(t, c, s)
      BY <2>1
    <2> HIDE DEF S, E
    <2> QED
      BY <2>2, <2>3, <2>4, InsertStep
  <1>2. CASE InitiateAgain(c)
    <2> DEFINE S == Overdue(c) \union Missing(c)
               E == ToExpire(c)
    <2>0. caseStatus' = [caseStatus EXCEPT ![c] = "PENDING_CONTRACT_DATA"]
          /\ caseStatus[c] = "PENDING_CONTRACT_DATA"
      BY <1>2 DEF InitiateAgain, TypeOK
    <2>1. S \in SUBSET ExpectedSubjects(c) /\ E \in SUBSET Tokens
      BY DEF Overdue, Missing, ToExpire, TokensOf
    <2>2. \A t \in E : tokenStatus[t] = "PENDING" /\ tokenCase[t] = c /\ tokenSubject[t] \in S
      BY DEF ToExpire, TokensOf
    <2>3. ASSUME NEW t \in Tokens, Live(t), tokenCase[t] = c, tokenSubject[t] \in S PROVE t \in E
      <3> DEFINE s == tokenSubject[t]
      <3>1. t \in TokensOf(c, s, "PENDING") \union TokensOf(c, s, "USED")
        BY <2>3 DEF TokensOf, Live
      <3>2. s \in Overdue(c)
        BY <2>3, <3>1 DEF Missing
      <3>3. PICK u \in TokensOf(c, s, "PENDING") : u \in stale
        BY <3>2 DEF Overdue
      <3>4. u = t
        BY <2>3, <3>3 DEF TokensOf, LiveOK, LiveUnique, Live
      <3> QED
        BY <3>2, <3>3, <3>4 DEF ToExpire
    <2>4. \A s \in ExpectedSubjects(c) \ S : \E t \in Tokens : Live(t) /\ Of(t, c, s)
      BY DEF Missing, TokensOf, Live, Of
    <2>5. InsertTokens(c, S, E) /\ UNCHANGED <<stale, saved, named, phone, starting, started>>
      BY <1>2 DEF InitiateAgain
    <2> HIDE DEF S, E
    <2> QED
      BY <2>0, <2>1, <2>2, <2>3, <2>4, <2>5, InsertStep
  <1> QED
    BY <1>1, <1>2

-----------------------------------------------------------------------------
(* Submissions. *)

LEMMA SubmitStep ==
  ASSUME IInv, NEW c \in Cases, NEW t \in Tokens, NEW s \in Subject, NEW p \in BOOLEAN,
         Submit(c, t, s, p)
  PROVE  IInv'
  <1> USE DEF IInv
  <1>1. /\ tokenStatus[t] = "PENDING" /\ tokenCase[t] = c /\ tokenSubject[t] = s
        /\ caseStatus[c] = "PENDING_CONTRACT_DATA"
        /\ tokenStatus' = [tokenStatus EXCEPT ![t] = "USED"]
        /\ saved' = saved \union {<<c, s>>}
        /\ UNCHANGED <<tokenCase, tokenSubject, started>>
    BY DEF Submit, Usable, Save
  <1>2. /\ tokenStatus'[t] = "USED"
        /\ \A u \in Tokens : u # t => tokenStatus'[u] = tokenStatus[u]
        /\ \A u \in Tokens : Live(u)' <=> Live(u)
    BY <1>1 DEF TypeOK, Live
  <1>3. \/ caseStatus' = caseStatus /\ ~Completed(c)
        \/ caseStatus' = [caseStatus EXCEPT ![c] = "CONTRACT_DATA_COMPLETED"] /\ Completed(c)
    BY DEF Submit
  <1>4. /\ \A d \in Cases : d # c => caseStatus'[d] = caseStatus[d]
        /\ caseStatus'[c] = IF Completed(c) THEN "CONTRACT_DATA_COMPLETED" ELSE "PENDING_CONTRACT_DATA"
    BY <1>1, <1>3 DEF TypeOK
  <1>5. TypeOK'
    <2>1. caseStatus' \in [Cases -> CaseStatus] /\ tokenStatus' \in [Tokens -> TokenStatus]
      BY <1>1, <1>3 DEF TypeOK, CaseStatus, TokenStatus
    <2>2. phone' \subseteq WithCodeudor
      <3>1. s = "CODEUDOR" => c \in WithCodeudor
        BY DEF Submit, TypeOK
      <3> QED
        BY <3>1 DEF Submit, Save, TypeOK, Subject
    <2> QED
      BY <1>1, <2>1, <2>2 DEF TypeOK, Submit
  <1>6. RowsOK'
    <2> SUFFICES ASSUME NEW u \in Tokens PROVE RowOK(u)'
      BY DEF RowsOK
    <2>1. RowOK(u) /\ tokenCase[u] \in Cases \union {NoCase}
      BY DEF RowsOK, TypeOK
    <2>2. CASE u = t
      BY <1>1, <1>2, <1>4, <2>1, <2>2, ContractDataAssumption DEF RowOK
    <2>3. CASE u # t
      BY <1>1, <1>2, <1>4, <2>1, <2>3 DEF RowOK
    <2> QED
      BY <2>2, <2>3
  <1>7. LiveUnique'
    BY <1>1, <1>2 DEF LiveOK, LiveUnique
  <1>8. ASSUME NEW d \in Cases, caseStatus'[d] = "PENDING_CONTRACT_DATA" PROVE Collecting(d)'
    <2>1. Collecting(d)
      BY <1>1, <1>4, <1>8 DEF LiveOK
    <2>2. \A r \in ExpectedSubjects(d) : \E u \in Tokens : (Live(u) /\ Of(u, d, r))'
      BY <1>1, <1>2, <2>1 DEF Collecting, Of
    <2>3. \E u \in Tokens : tokenCase'[u] = d /\ tokenStatus'[u] # "USED"
      <3>1. CASE d = c
        BY <1>1, <1>4, <1>8, <3>1 DEF Completed
      <3>2. CASE d # c
        BY <1>1, <1>2, <2>1, <3>2 DEF Collecting
      <3> QED
        BY <3>1, <3>2
    <2> QED
      BY <2>2, <2>3 DEF Collecting
  <1>9. SavedOK'
    <2>1. ASSUME NEW d \in Cases, NEW r \in Subject
          PROVE  <<d, r>> \in saved' <=> \E u \in Tokens : (tokenStatus[u] = "USED" /\ Of(u, d, r))'
      BY <1>1, <1>2 DEF SavedOK, Of
    <2>2. ASSUME NEW d \in Cases, caseStatus'[d] = "CONTRACT_DATA_COMPLETED",
                 NEW r \in ExpectedSubjects(d)
          PROVE  <<d, r>> \in saved'
      <3>1. CASE d = c
        <4>1. PICK u \in Tokens : Live(u) /\ Of(u, c, r)
          BY <1>1, <2>2, <3>1 DEF LiveOK, Collecting
        <4>2. tokenStatus'[u] = "USED"
          BY <1>1, <1>4, <2>2, <3>1, <4>1 DEF Completed, Of
        <4>3. r \in Subject
          BY SubjectsType
        <4> QED
          BY <1>1, <2>1, <3>1, <4>1, <4>2, <4>3 DEF Of
      <3>2. CASE d # c
        BY <1>1, <1>4, <2>2, <3>2 DEF SavedOK
      <3> QED
        BY <3>1, <3>2
    <2>3. \A d \in started' : caseStatus'[d] = "CONTRACT_DATA_COMPLETED"
      BY <1>1, <1>4 DEF SavedOK, TypeOK
    <2> QED
      BY <2>1, <2>2, <2>3 DEF SavedOK
  <1> QED
    BY <1>5, <1>6, <1>7, <1>8, <1>9 DEF LiveOK

-----------------------------------------------------------------------------
(* Every step. *)

LEMMA NextIInv == IInv /\ [Next]_vars => IInv'
  <1> SUFFICES ASSUME IInv, [Next]_vars PROVE IInv'
    OBVIOUS
  <1>1. ASSUME NEW c \in Cases, StartContract(c) PROVE IInv'
    BY <1>1 DEF StartContract, Startable, IInv, TypeOK, RowsOK, RowOK, LiveOK, LiveUnique, Collecting,
                Live, Of, SavedOK, tokenVars
  <1>2. ASSUME UNCHANGED <<caseStatus, tokenVars, saved, started>>, TypeOK' PROVE IInv'
    BY <1>2 DEF IInv, RowsOK, RowOK, LiveOK, LiveUnique, Collecting, Live, Of, SavedOK, tokenVars
  <1>3. ASSUME NEW c \in Cases, NameGuarantor(c) PROVE IInv'
    BY <1>2, <1>3 DEF NameGuarantor, IInv, TypeOK, tokenVars
  <1>4. ASSUME NEW t \in Tokens, TokenTtlPasses(t) PROVE IInv'
    BY <1>2, <1>4 DEF TokenTtlPasses, IInv, TypeOK, tokenVars
  <1>5. CASE Crash
    BY <1>2, <1>5 DEF Crash, IInv, TypeOK, tokenVars
  <1>6. CASE UNCHANGED vars
    BY <1>2, <1>6 DEF vars, IInv, TypeOK, tokenVars
  <1> QED
    BY <1>1, <1>3, <1>4, <1>5, <1>6, InitiateStep, SubmitStep DEF Next

-----------------------------------------------------------------------------
\* IInv holds of every reachable state.
THEOREM Invariance == Spec => []IInv
  BY InitIInv, NextIInv, PTL DEF Spec

\* However often a collection is initiated, a signer has one usable token.
THEOREM UsableTokenUnique == Spec => []OneUsableToken
  <1>1. IInv => OneUsableToken
    BY DEF IInv, LiveOK, LiveUnique, Live, OneUsableToken
  <1> QED
    BY <1>1, Invariance, PTL

\* A signer submits once, with a token of his own case.
THEOREM SubmitsOnce == Spec => []SubmittedOnce
  <1>1. ASSUME IInv PROVE SubmittedOnce
    <2>1. \A t, u \in Tokens :
            /\ tokenStatus[t] = "USED" /\ tokenStatus[u] \in {"PENDING", "USED"}
            /\ tokenCase[t] = tokenCase[u] /\ tokenSubject[t] = tokenSubject[u]
            => t = u
      BY <1>1 DEF IInv, LiveOK, LiveUnique, Live
    <2> DEFINE U == {<<tokenCase[t], tokenSubject[t]>> : t \in {u \in Tokens : tokenStatus[u] = "USED"}}
    <2>2. ASSUME NEW x \in saved PROVE x \in U
      <3>1. PICK c \in Cases, s \in Subject : x = <<c, s>>
        BY <1>1 DEF IInv, TypeOK
      <3>2. PICK t \in Tokens : tokenStatus[t] = "USED" /\ Of(t, c, s)
        BY <1>1, <3>1 DEF IInv, SavedOK
      <3> QED
        BY <3>1, <3>2 DEF Of
    <2>3. ASSUME NEW x \in U PROVE x \in saved
      <3>1. PICK t \in Tokens : tokenStatus[t] = "USED" /\ x = <<tokenCase[t], tokenSubject[t]>>
        OBVIOUS
      <3>2. tokenCase[t] \in Cases /\ tokenSubject[t] \in Subject
        BY <1>1, <3>1 DEF IInv, TypeOK, RowsOK, RowOK
      <3> QED
        BY <1>1, <3>1, <3>2 DEF IInv, SavedOK, Of
    <2> QED
      BY <2>1, <2>2, <2>3 DEF SubmittedOnce
  <1> QED
    BY <1>1, Invariance, PTL

\* No contract is started before every signer has submitted.
THEOREM StartsCollected == Spec => []StartedIsCollected
  <1>1. IInv => StartedIsCollected
    BY DEF IInv, TypeOK, SavedOK, StartedIsCollected
  <1> QED
    BY <1>1, Invariance, PTL

\* When everyone has submitted and no token was replaced, the case is complete.
THEOREM CompletesInTime == Spec => []InTimeIsCompleted
  <1>1. ASSUME IInv PROVE InTimeIsCompleted
    <2> USE DEF IInv
    <2> SUFFICES ASSUME NEW c \in Cases,
                        \A s \in ExpectedSubjects(c) : <<c, s>> \in saved,
                        \A t \in Tokens : tokenCase[t] = c => tokenStatus[t] # "EXPIRED",
                        caseStatus[c] # "CONTRACT_DATA_COMPLETED"
                 PROVE  FALSE
      BY <1>1 DEF InTimeIsCompleted
    <2>1. caseStatus[c] # "APROBADO_FINAL"
      <3>1. PICK t \in Tokens : tokenStatus[t] = "USED" /\ Of(t, c, "TITULAR")
        BY <1>1, SubjectsType DEF SavedOK
      <3> QED
        BY <1>1, <3>1 DEF RowsOK, RowOK, Of
    <2>2. PICK t \in Tokens : tokenCase[t] = c /\ tokenStatus[t] # "USED"
      BY <1>1, <2>1 DEF TypeOK, CaseStatus, LiveOK, Collecting
    <2>3. tokenStatus[t] = "PENDING" /\ tokenSubject[t] \in ExpectedSubjects(c)
      BY <1>1, <2>2, ContractDataAssumption DEF TypeOK, TokenStatus, RowsOK, RowOK
    <2>4. PICK u \in Tokens : tokenStatus[u] = "USED" /\ Of(u, c, tokenSubject[t])
      BY <1>1, <2>3, SubjectsType DEF SavedOK
    <2> QED
      BY <1>1, <2>2, <2>3, <2>4 DEF LiveOK, LiveUnique, Live, Of
  <1> QED
    BY <1>1, Invariance, PTL

=============================================================================
