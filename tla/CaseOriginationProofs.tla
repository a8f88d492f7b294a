------------------------ MODULE CaseOriginationProofs ------------------------
(* What holds of the origination of cases for any number of leads, consents, *)
(* cases, candidates, offers and attempts.                                   *)
EXTENDS CaseOrigination, FiniteSetTheorems, TLAPS

Pending(a) == a.status = "APPROVED" /\ a.reviewedBy = "system"

\* The candidates of a case: numbered without gaps, different, the last pending.
AttemptsOK(S) ==
  /\ IsFiniteSet(S)
  /\ S \subseteq Attempt
  /\ {a.no : a \in S} = 1 .. Cardinality(S)
  /\ \A a, b \in S : a.cuit = b.cuit \/ a.no = b.no => a = b
  /\ \A a, b \in S : Pending(a) => b.no <= a.no

\* The offers of a case: the current one is the last and the only one not
\* superseded, and it is accepted when the case is approved and only then.
OfferOK(c) ==
  /\ currentOffer[c] = Len(offers[c])
  /\ \A v \in DOMAIN offers[c] : v # currentOffer[c] <=> offers[c][v] = "SUPERSEDED"
  /\ caseStatus[c] = "APROBADO_FINAL" <=>
       currentOffer[c] # 0 /\ offers[c][currentOffer[c]] = "ACCEPTED"

\* A case that needs a guarantor and is past the analysis has one of the CEO's.
BackedOK(c) ==
  caseStatus[c] \in {"PENDING_NOSIS", "APROBADO_FINAL"} /\ needsGuarantor[c] =>
    \E a \in attempts[c] : ActiveGuarantor(c, a) /\ a.reviewedBy = "CEO"

\* The inductive invariant.
IInv ==
  /\ TypeOK
  /\ OneCasePerLead
  /\ \A c \in Cases : OfferOK(c) /\ AttemptsOK(attempts[c]) /\ BackedOK(c)

-----------------------------------------------------------------------------
(* The candidates of one case. *)

LEMMA NoAttempts == AttemptsOK({})
  <1>1. IsFiniteSet({}) /\ Cardinality({}) = 0
    BY FS_EmptySet
  <1> QED
    BY <1>1 DEF AttemptsOK

\* A further candidate takes the next number.
LEMMA AddAttempt ==
  ASSUME NEW S, AttemptsOK(S), \A a \in S : ~Pending(a),
         MaxAttempts \in Nat, Cardinality(S) < MaxAttempts,
         NEW x, x \in [cuit : Cuits, no : {Cardinality(S) + 1}, status : {"APPROVED", "REJECTED"},
                       reviewedBy : {"system", "CEO"}],
         \A a \in S : a.cuit # x.cuit
  PROVE  AttemptsOK(S \union {x})
  <1> DEFINE T == S \union {x}
             n == Cardinality(S)
  <1>1. n \in Nat /\ x.no = n + 1 /\ x.cuit \in Cuits
    BY FS_CardinalityType DEF AttemptsOK
  <1>2. \A a \in S : a.no \in 1 .. n
    BY DEF AttemptsOK
  <1>3. x \notin S
    BY <1>1, <1>2
  <1>4. IsFiniteSet(T) /\ Cardinality(T) = n + 1
    BY <1>3, FS_AddElement DEF AttemptsOK
  <1>5. T \subseteq Attempt
    BY <1>1 DEF AttemptsOK, Attempt
  <1>6. {a.no : a \in T} = 1 .. n + 1
    <2>1. {a.no : a \in T} = {a.no : a \in S} \union {x.no}
      OBVIOUS
    <2> QED
      BY <1>1, <2>1 DEF AttemptsOK
  <1>7. \A a, b \in T : a.cuit = b.cuit \/ a.no = b.no => a = b
    BY <1>1, <1>2 DEF AttemptsOK
  <1>8. \A a, b \in T : Pending(a) => b.no <= a.no
    BY <1>1, <1>2
  <1> QED
    BY <1>4, <1>5, <1>6, <1>7, <1>8 DEF AttemptsOK

\* The pending candidate a becomes b, with a's person and number.
LEMMA DecideAttempt ==
  ASSUME NEW S, AttemptsOK(S), NEW a \in S, Pending(a), NEW b \in Attempt,
         b.cuit = a.cuit, b.no = a.no, b.reviewedBy = "CEO"
  PROVE  /\ AttemptsOK((S \ {a}) \union {b})
         /\ \A d \in (S \ {a}) \union {b} : d.no <= b.no
  <1> DEFINE R == S \ {a}
             T == R \union {b}
             n == Cardinality(S)
  <1>1. b # a /\ ~Pending(b)
    BY DEF Pending
  <1>2. b \notin S
    BY <1>1 DEF AttemptsOK
  <1>3. IsFiniteSet(R) /\ Cardinality(R) = n - 1 /\ n \in Nat
    BY FS_RemoveElement, FS_CardinalityType DEF AttemptsOK
  <1>4. IsFiniteSet(T) /\ Cardinality(T) = n
    <2>1. IsFiniteSet(T) /\ Cardinality(T) = Cardinality(R) + 1
      BY <1>2, <1>3, FS_AddElement
    <2> QED
      BY <1>3, <2>1
  <1>5. T \subseteq Attempt
    BY DEF AttemptsOK
  <1>6. {d.no : d \in T} = {d.no : d \in S}
    OBVIOUS
  <1>7. \A d, e \in T : d.cuit = e.cuit \/ d.no = e.no => d = e
    BY DEF AttemptsOK
  <1>8. \A d \in T : d.no <= b.no
    <2>1. \A d \in S : d.no <= a.no /\ a.no \in Nat
      BY DEF AttemptsOK, Attempt
    <2> QED
      BY <2>1
  <1>9. \A d, e \in T : Pending(d) => e.no <= d.no
    <2> SUFFICES ASSUME NEW d \in R, NEW e \in T, Pending(d) PROVE e.no <= d.no
      BY <1>1
    <2>1. d.no = a.no
      BY DEF AttemptsOK, Attempt
    <2> QED
      BY <2>1, <1>8
  <1> QED
    BY <1>4, <1>5, <1>6, <1>7, <1>8, <1>9 DEF AttemptsOK

-----------------------------------------------------------------------------
LEMMA InitIInv == Init => IInv
  <1> SUFFICES ASSUME Init PROVE IInv
    OBVIOUS
  <1>1. TypeOK
    BY CaseOriginationAssumption DEF Init, TypeOK, LeadStage, ConsentStatus, CaseStatus
  <1>2. OneCasePerLead
    BY DEF Init, OneCasePerLead
  <1>3. ASSUME NEW c \in Cases PROVE OfferOK(c) /\ AttemptsOK(attempts[c]) /\ BackedOK(c)
    BY NoAttempts DEF Init, OfferOK, BackedOK
  <1> QED
    BY <1>1, <1>2, <1>3 DEF IInv

-----------------------------------------------------------------------------
(* The steps of a lead. *)

LEMMA LeadStep ==
  ASSUME IInv, NEW l \in Leads,
         \/ \E t \in Consents : AcceptConsent(t) \/ ConsentExpires(t)
         \/ CompleteData(l) \/ StartPrequal(l) \/ FinishPrequal(l) \/ AskAmount(l)
  PROVE  IInv'
  <1> USE DEF IInv
  <1>1. UNCHANGED <<caseVars, currentCase>>
    BY DEF AcceptConsent, ConsentExpires, CompleteData, StartPrequal, FinishPrequal, AskAmount
  <1>2. TypeOK'
    <2>1. stage' \in [Leads -> LeadStage]
      BY CaseOriginationAssumption DEF TypeOK, LeadStage, AcceptConsent, ConsentExpires, CompleteData,
         StartPrequal, FinishPrequal, AskAmount
    <2>2. consent' \in [Consents -> ConsentStatus] /\ evaluating' \subseteq Leads
      BY DEF TypeOK, ConsentStatus, AcceptConsent, ConsentExpires, CompleteData,
         StartPrequal, FinishPrequal, AskAmount
    <2> QED
      BY <1>1, <2>1, <2>2 DEF TypeOK, caseVars
  <1>3. OneCasePerLead'
    BY <1>1 DEF OneCasePerLead, caseVars
  <1>4. \A c \in Cases : OfferOK(c)' /\ AttemptsOK(attempts[c])' /\ BackedOK(c)'
    BY <1>1 DEF OfferOK, BackedOK, ActiveGuarantor, ApprovedCandidates, caseVars
  <1> QED
    BY <1>2, <1>3, <1>4

LEMMA CreateStep ==
  ASSUME IInv, NEW l \in Leads, NEW c \in Cases, CreateFromRequestedAmount(l, c)
  PROVE  IInv'
  <1> USE DEF IInv
  <1>1. TypeOK'
    BY DEF CreateFromRequestedAmount, TypeOK, LeadStage, CaseStatus
  <1>2. OneCasePerLead'
    BY CaseOriginationAssumption DEF CreateFromRequestedAmount, HasNoCase, TypeOK, OneCasePerLead
  <1>3. \A d \in Cases : OfferOK(d)' /\ AttemptsOK(attempts[d])' /\ BackedOK(d)'
    BY DEF CreateFromRequestedAmount, OfferOK, BackedOK, ActiveGuarantor, ApprovedCandidates, TypeOK
  <1> QED
    BY <1>1, <1>2, <1>3

-----------------------------------------------------------------------------
(* The steps of a case. *)

\* A case that is not touched keeps what holds of it.
LEMMA OtherCases ==
  ASSUME IInv, NEW c \in Cases,
         caseStatus'[c] = caseStatus[c], offers'[c] = offers[c],
         currentOffer'[c] = currentOffer[c], attempts'[c] = attempts[c],
         needsGuarantor'[c] = needsGuarantor[c]
  PROVE  OfferOK(c)' /\ AttemptsOK(attempts[c])' /\ BackedOK(c)'
  BY DEF IInv, OfferOK, BackedOK, ActiveGuarantor, ApprovedCandidates

LEMMA OfferStep ==
  ASSUME IInv, NEW c \in Cases, CreateCaseOffer(c)
  PROVE  IInv'
  <1> USE DEF IInv
  <1> DEFINE n == Len(offers[c])
             old == [v \in DOMAIN offers[c] |->
                       IF offers[c][v] \in Supersedable THEN "SUPERSEDED" ELSE offers[c][v]]
  <1>1. offers[c] \in Seq(OfferStatus) /\ n \in Nat /\ currentOffer[c] = n /\ n < MaxVersions
    BY DEF CreateCaseOffer, TypeOK, OfferOK
  <1>2. \A v \in DOMAIN offers[c] : old[v] = "SUPERSEDED"
    <2> SUFFICES ASSUME NEW v \in DOMAIN offers[c] PROVE old[v] = "SUPERSEDED"
      OBVIOUS
    <2>1. offers[c][v] \in OfferStatus
      BY <1>1
    <2>2. offers[c][v] # "ACCEPTED"
      <3>1. CASE v = n
        BY <1>1, <3>1 DEF OfferOK, CreateCaseOffer
      <3>2. CASE v # n
        BY <1>1, <3>2 DEF OfferOK
      <3> QED
        BY <3>1, <3>2
    <2> QED
      BY <2>1, <2>2 DEF Supersedable, OfferStatus
  <1>3. old \in Seq(OfferStatus) /\ Len(old) = n
    <2>1. DOMAIN offers[c] = 1 .. n
      BY <1>1
    <2>2. old \in [1 .. n -> OfferStatus]
      BY <1>2, <2>1 DEF OfferStatus
    <2> QED
      BY <1>1, <2>2
  <1> HIDE DEF old
  <1>4. /\ offers' = [offers EXCEPT ![c] = Append(old, "SENT")]
        /\ currentOffer' = [currentOffer EXCEPT ![c] = n + 1]
        /\ caseStatus' = [caseStatus EXCEPT ![c] = "OFFER_SENT"]
    BY DEF CreateCaseOffer, old
  <1>5. /\ offers'[c] = Append(old, "SENT") /\ currentOffer'[c] = n + 1
        /\ caseStatus'[c] = "OFFER_SENT" /\ attempts' = attempts
    BY <1>4 DEF TypeOK, CreateCaseOffer
  <1>6. TypeOK'
    <2>1. Append(old, "SENT") \in Seq(OfferStatus)
      BY <1>3 DEF OfferStatus
    <2>2. n + 1 \in 0 .. MaxVersions
      BY <1>1, CaseOriginationAssumption
    <2> HIDE DEF n
    <2>3. offers' \in [Cases -> Seq(OfferStatus)] /\ currentOffer' \in [Cases -> 0 .. MaxVersions]
      BY <1>4, <2>1, <2>2 DEF TypeOK
    <2>4. caseStatus' \in [Cases -> CaseStatus] /\ needsGuarantor' \in [Cases -> BOOLEAN]
      BY <1>4 DEF TypeOK, CreateCaseOffer, CaseStatus
    <2> QED
      BY <2>3, <2>4 DEF TypeOK, CreateCaseOffer, leadVars
  <1>7. OneCasePerLead'
    <2>1. \A d \in Cases : caseStatus'[d] # "NONE" => caseStatus[d] # "NONE"
      BY <1>4 DEF TypeOK, CreateCaseOffer
    <2> QED
      BY <2>1 DEF CreateCaseOffer, OneCasePerLead, leadVars
  <1>8. OfferOK(c)'
    <2>1. /\ Len(Append(old, "SENT")) = n + 1
          /\ \A v \in 1 .. n : Append(old, "SENT")[v] = old[v]
          /\ Append(old, "SENT")[n + 1] = "SENT"
          /\ DOMAIN Append(old, "SENT") = 1 .. n + 1
      BY <1>1, <1>3
    <2>2. \A v \in 1 .. n : Append(old, "SENT")[v] = "SUPERSEDED"
      BY <1>1, <1>2, <2>1
    <2> HIDE DEF n
    <2> QED
      BY <1>1, <1>5, <2>1, <2>2 DEF OfferOK
  <1>9. AttemptsOK(attempts[c])' /\ BackedOK(c)'
    BY <1>5 DEF BackedOK
  <1>10. ASSUME NEW d \in Cases, d # c
         PROVE  OfferOK(d)' /\ AttemptsOK(attempts[d])' /\ BackedOK(d)'
    <2>1. /\ caseStatus'[d] = caseStatus[d] /\ offers'[d] = offers[d]
          /\ currentOffer'[d] = currentOffer[d] /\ attempts'[d] = attempts[d]
          /\ needsGuarantor'[d] = needsGuarantor[d]
      BY <1>4, <1>10 DEF TypeOK, CreateCaseOffer
    <2> QED
      BY <2>1, OtherCases
  <1> QED
    BY <1>6, <1>7, <1>8, <1>9, <1>10

LEMMA MoveStep ==
  ASSUME IInv, NEW c \in Cases, ReopenCase(c) \/ SendToNosis(c) \/ ReturnToAnalysis(c)
  PROVE  IInv'
  <1> USE DEF IInv
  <1>1. /\ caseStatus[c] \notin {"NONE", "APROBADO_FINAL"}
        /\ \E s \in {"WAITING_CEO", "PENDING_NOSIS", "PENDING_GUARANTOR_ANALYSIS"} :
             /\ caseStatus' = [caseStatus EXCEPT ![c] = s]
             /\ s = "PENDING_NOSIS" => ~needsGuarantor[c]
        /\ UNCHANGED <<leadVars, caseLead, needsGuarantor, offers, currentOffer, attempts>>
    BY DEF ReopenCase, SendToNosis, ReturnToAnalysis
  <1>2. TypeOK'
    BY <1>1 DEF TypeOK, CaseStatus, leadVars
  <1>3. OneCasePerLead'
    BY <1>1 DEF TypeOK, OneCasePerLead, leadVars
  <1>4. OfferOK(c)' /\ AttemptsOK(attempts[c])' /\ BackedOK(c)'
    BY <1>1 DEF TypeOK, OfferOK, BackedOK
  <1>5. ASSUME NEW d \in Cases, d # c
        PROVE  OfferOK(d)' /\ AttemptsOK(attempts[d])' /\ BackedOK(d)'
    BY <1>1, <1>5, OtherCases DEF TypeOK
  <1> QED
    BY <1>2, <1>3, <1>4, <1>5

LEMMA EvaluateStep ==
  ASSUME IInv, NEW c \in Cases, NEW cuit \in Cuits, EvaluateCaseGuarantor(c, cuit)
  PROVE  IInv'
  <1> USE DEF IInv
  <1>1. /\ caseStatus' = [caseStatus EXCEPT ![c] = "PENDING_GUARANTOR_ANALYSIS"]
        /\ caseStatus[c] \notin {"NONE", "APROBADO_FINAL"}
        /\ UNCHANGED <<leadVars, caseLead, needsGuarantor, offers, currentOffer>>
    BY DEF EvaluateCaseGuarantor
  <1>2. PICK S \in SUBSET Attempt :
          attempts' = [attempts EXCEPT ![c] = S] /\ AttemptsOK(S)
    <2>1. CASE UNCHANGED attempts
      <3>1. attempts[c] \in SUBSET Attempt /\ attempts' = [attempts EXCEPT ![c] = attempts[c]]
        BY <2>1 DEF TypeOK
      <3> QED
        BY <3>1
    <2>2. ASSUME NEW s \in {"APPROVED", "REJECTED"},
                 attempts' = [attempts EXCEPT ![c] = attempts[c] \union {Evaluated(c, cuit, s)}]
          PROVE  \E S \in SUBSET Attempt :
                   attempts' = [attempts EXCEPT ![c] = S] /\ AttemptsOK(S)
      <3> DEFINE x == Evaluated(c, cuit, s)
                 Q == attempts[c]
      <3>1. /\ \A a \in Q : ~Pending(a)
            /\ \A a \in Q : a.cuit # x.cuit
            /\ Cardinality(Q) < MaxAttempts /\ AttemptsOK(Q) /\ MaxAttempts \in Nat
            /\ x \in [cuit : Cuits, no : {Cardinality(Q) + 1}, status : {"APPROVED", "REJECTED"},
                      reviewedBy : {"system", "CEO"}]
        BY CaseOriginationAssumption DEF EvaluateCaseGuarantor, NoDecisionPending,
           PendingCandidates, Pending, AttemptsLeft, Evaluated
      <3>2. attempts' = [attempts EXCEPT ![c] = Q \union {x}]
        BY <2>2
      <3> HIDE DEF x, Q
      <3>3. AttemptsOK(Q \union {x})
        BY <3>1, AddAttempt
      <3>4. Q \union {x} \in SUBSET Attempt
        BY <3>3 DEF AttemptsOK
      <3> QED
        BY <3>2, <3>3, <3>4
    <2> QED
      BY <2>1, <2>2 DEF EvaluateCaseGuarantor
  <1>3. TypeOK'
    BY <1>1, <1>2 DEF TypeOK, CaseStatus, leadVars
  <1>4. OneCasePerLead'
    BY <1>1 DEF TypeOK, OneCasePerLead, leadVars
  <1>5. OfferOK(c)' /\ AttemptsOK(attempts[c])' /\ BackedOK(c)'
    <2>1. attempts'[c] = S /\ caseStatus'[c] = "PENDING_GUARANTOR_ANALYSIS"
      BY <1>1, <1>2 DEF TypeOK
    <2> QED
      BY <1>1, <1>2, <2>1 DEF OfferOK, BackedOK
  <1>6. ASSUME NEW d \in Cases, d # c
        PROVE  OfferOK(d)' /\ AttemptsOK(attempts[d])' /\ BackedOK(d)'
    BY <1>1, <1>2, <1>6, OtherCases DEF TypeOK
  <1> QED
    BY <1>3, <1>4, <1>5, <1>6

\* The row of the candidate a once the CEO has decided on it.
Decided(a, s) == [a EXCEPT !.status = s, !.reviewedBy = "CEO"]

\* What the CEO's decision on the pending candidate a leaves of the candidates.
LEMMA DecideResult ==
  ASSUME IInv, NEW c \in Cases, NEW a \in attempts[c], Resolvable(c, a),
         NEW s \in {"APPROVED", "REJECTED"}
  PROVE  /\ Decided(a, s) \in Attempt
         /\ Decided(a, s).status = s /\ Decided(a, s).reviewedBy = "CEO"
         /\ AttemptsOK((attempts[c] \ {a}) \union {Decided(a, s)})
         /\ \A d \in (attempts[c] \ {a}) \union {Decided(a, s)} : d.no <= Decided(a, s).no
  <1> DEFINE S == attempts[c]
             b == Decided(a, s)
  <1>1. AttemptsOK(S) /\ a \in Attempt /\ a \in S /\ Pending(a)
    BY DEF IInv, AttemptsOK, Resolvable, PendingCandidates, Pending
  <1>2. b \in Attempt /\ b.cuit = a.cuit /\ b.no = a.no /\ b.status = s /\ b.reviewedBy = "CEO"
    BY <1>1 DEF Attempt, Decided
  <1> HIDE DEF S, b
  <1>3. AttemptsOK((S \ {a}) \union {b}) /\ \A d \in (S \ {a}) \union {b} : d.no <= b.no
    BY <1>1, <1>2, DecideAttempt
  <1> QED
    BY <1>2, <1>3 DEF S, b

LEMMA DecisionStep ==
  ASSUME IInv, NEW c \in Cases, NEW a \in attempts[c],
         ApproveGuarantor(c, a) \/ RejectGuarantor(c, a)
  PROVE  IInv'
  <1>1. PICK s \in {"APPROVED", "REJECTED"} :
          /\ Resolvable(c, a) /\ Decide(c, a, s)
          /\ caseStatus' = [caseStatus EXCEPT ![c] =
               IF s = "APPROVED" THEN "PENDING_NOSIS" ELSE "PENDING_GUARANTOR_ANALYSIS"]
          /\ UNCHANGED <<leadVars, caseLead, needsGuarantor, offers, currentOffer>>
    <2>1. CASE ApproveGuarantor(c, a)
      BY <2>1 DEF ApproveGuarantor
    <2>2. CASE RejectGuarantor(c, a)
      <3>1. caseStatus' = [caseStatus EXCEPT ![c] = "PENDING_GUARANTOR_ANALYSIS"]
        BY <2>2 DEF RejectGuarantor, Resolvable, IInv, TypeOK
      <3> QED
        BY <2>2, <3>1 DEF RejectGuarantor
    <2> QED
      BY <2>1, <2>2
  <1> DEFINE b == Decided(a, s)
  <1>2. /\ b \in Attempt /\ b.status = s /\ b.reviewedBy = "CEO"
        /\ attempts' = [attempts EXCEPT ![c] = (attempts[c] \ {a}) \union {b}]
        /\ AttemptsOK((attempts[c] \ {a}) \union {b})
        /\ \A d \in (attempts[c] \ {a}) \union {b} : d.no <= b.no
    <2>1. Resolvable(c, a)
      BY <1>1
    <2>2. attempts' = [attempts EXCEPT ![c] = (attempts[c] \ {a}) \union {b}]
      BY <1>1 DEF Decide, Decided
    <2> QED
      BY <2>1, <2>2, DecideResult
  <1> HIDE DEF b
  <1> USE DEF IInv
  <1>3. caseStatus[c] = "PENDING_GUARANTOR_ANALYSIS"
    BY <1>1 DEF Resolvable
  <1>4. /\ attempts'[c] = (attempts[c] \ {a}) \union {b}
        /\ caseStatus'[c] = IF s = "APPROVED" THEN "PENDING_NOSIS" ELSE "PENDING_GUARANTOR_ANALYSIS"
    BY <1>1, <1>2 DEF TypeOK
  <1>5. TypeOK'
    <2>1. attempts' \in [Cases -> SUBSET Attempt]
      BY <1>2 DEF TypeOK, AttemptsOK
    <2> QED
      BY <1>1, <2>1 DEF TypeOK, CaseStatus, leadVars
  <1>6. OneCasePerLead'
    <2>1. \A d \in Cases : caseStatus'[d] # "NONE" => caseStatus[d] # "NONE"
      BY <1>1, <1>3 DEF TypeOK
    <2> QED
      BY <1>1, <2>1 DEF OneCasePerLead, leadVars
  <1>7. OfferOK(c)' /\ AttemptsOK(attempts[c])'
    <2>1. caseStatus'[c] # "APROBADO_FINAL"
      BY <1>4
    <2>2. OfferOK(c)'
      BY <1>1, <1>3, <2>1 DEF OfferOK
    <2> QED
      BY <1>2, <1>4, <2>2
  <1>8. BackedOK(c)'
    <2>1. CASE s = "APPROVED"
      <3>1. ActiveGuarantor(c, b)' /\ b \in attempts'[c]
        BY <1>2, <1>4, <2>1 DEF ActiveGuarantor, ApprovedCandidates
      <3> QED
        BY <1>2, <3>1 DEF BackedOK
    <2>2. CASE s # "APPROVED"
      BY <1>4, <2>2 DEF BackedOK
    <2> QED
      BY <2>1, <2>2
  <1>9. ASSUME NEW d \in Cases, d # c
        PROVE  OfferOK(d)' /\ AttemptsOK(attempts[d])' /\ BackedOK(d)'
    <2>1. caseStatus'[d] = caseStatus[d] /\ attempts'[d] = attempts[d]
      BY <1>1, <1>2, <1>9 DEF TypeOK
    <2> QED
      BY <1>1, <2>1, OtherCases
  <1> QED
    BY <1>5, <1>6, <1>7, <1>8, <1>9

LEMMA FinalStep ==
  ASSUME IInv, NEW c \in Cases, ApplyAprobadoFinal(c)
  PROVE  IInv'
  <1> USE DEF IInv
  <1> DEFINE q == offers[c]
             n == currentOffer[c]
  <1>1. q \in Seq(OfferStatus) /\ n = Len(q) /\ n \in 1 .. Len(q) /\ DOMAIN q = 1 .. Len(q)
    <2>1. q \in Seq(OfferStatus) /\ n = Len(q) /\ n # 0
      BY DEF TypeOK, OfferOK, ApplyAprobadoFinal
    <2> QED
      BY <2>1
  <1>2. PICK r : r = [q EXCEPT ![n] = "ACCEPTED"]
    OBVIOUS
  <1>3. /\ r \in Seq(OfferStatus) /\ Len(r) = Len(q) /\ DOMAIN r = 1 .. Len(q)
        /\ r[n] = "ACCEPTED"
        /\ \A v \in 1 .. Len(q) : v # n => r[v] = q[v]
    <2>1. r \in [1 .. Len(q) -> OfferStatus] /\ Len(q) \in Nat
      BY <1>1, <1>2 DEF OfferStatus
    <2>2. r \in Seq(OfferStatus) /\ Len(r) = Len(q)
      BY <2>1
    <2> QED
      BY <1>1, <1>2, <2>1, <2>2
  <1>4. /\ offers' = [offers EXCEPT ![c] = r]
        /\ caseStatus' = [caseStatus EXCEPT ![c] = "APROBADO_FINAL"]
        /\ caseStatus[c] = "PENDING_NOSIS"
        /\ UNCHANGED <<leadVars, caseLead, needsGuarantor, currentOffer, attempts>>
    BY <1>2 DEF ApplyAprobadoFinal, Approvable
  <1>5. offers'[c] = r /\ caseStatus'[c] = "APROBADO_FINAL" /\ currentOffer'[c] = n
    BY <1>4 DEF TypeOK
  <1>6. TypeOK'
    BY <1>3, <1>4 DEF TypeOK, CaseStatus, leadVars
  <1>7. OneCasePerLead'
    BY <1>4 DEF TypeOK, OneCasePerLead, leadVars
  <1>8. OfferOK(c)'
    <2>1. \A v \in DOMAIN q : v # n <=> q[v] = "SUPERSEDED"
      BY DEF OfferOK
    <2> QED
      BY <1>1, <1>3, <1>5, <2>1 DEF OfferOK
  <1>9. AttemptsOK(attempts[c])' /\ BackedOK(c)'
    BY <1>4, <1>5 DEF BackedOK, ActiveGuarantor, ApprovedCandidates
  <1>10. ASSUME NEW d \in Cases, d # c
         PROVE  OfferOK(d)' /\ AttemptsOK(attempts[d])' /\ BackedOK(d)'
    <2>1. caseStatus'[d] = caseStatus[d] /\ offers'[d] = offers[d]
      BY <1>4, <1>10 DEF TypeOK
    <2> QED
      BY <1>4, <2>1, OtherCases
  <1> QED
    BY <1>6, <1>7, <1>8, <1>9, <1>10

LEMMA NextIInv == IInv /\ [Next]_vars => IInv'
  <1> SUFFICES ASSUME IInv, [Next]_vars PROVE IInv'
    OBVIOUS
  <1>1. CASE UNCHANGED vars
    BY <1>1 DEF IInv, TypeOK, OneCasePerLead, OfferOK, BackedOK, ActiveGuarantor,
       ApprovedCandidates, vars, leadVars, caseVars
  <1>2. ASSUME NEW t \in Consents, AcceptConsent(t) \/ ConsentExpires(t)
        PROVE  IInv'
    <2>1. ConsentPhone[t] \in Leads
      BY CaseOriginationAssumption
    <2> QED
      BY <1>2, <2>1, LeadStep
  <1>3. ASSUME NEW l \in Leads,
               \/ CompleteData(l) \/ StartPrequal(l) \/ FinishPrequal(l) \/ AskAmount(l)
               \/ \E c \in Cases : CreateFromRequestedAmount(l, c)
        PROVE  IInv'
    BY <1>3, LeadStep, CreateStep
  <1>4. ASSUME NEW c \in Cases,
               \/ CreateCaseOffer(c) \/ ReopenCase(c) \/ SendToNosis(c) \/ ReturnToAnalysis(c)
               \/ \E cuit \in Cuits : EvaluateCaseGuarantor(c, cuit)
               \/ \E a \in attempts[c] : ApproveGuarantor(c, a) \/ RejectGuarantor(c, a)
               \/ ApplyAprobadoFinal(c)
        PROVE  IInv'
    BY <1>4, OfferStep, MoveStep, EvaluateStep, DecisionStep, FinalStep
  <1> QED
    BY <1>1, <1>2, <1>3, <1>4 DEF Next

-----------------------------------------------------------------------------
(* The theorems. *)

\* The inductive invariant holds in every reachable state.
THEOREM Invariance == Spec => []IInv
  BY InitIInv, NextIInv, PTL DEF Spec

\* Every row of leads, consents, cases, offers and candidates stays of its type.
THEOREM TypeCorrect == Spec => []TypeOK
  <1>1. IInv => TypeOK
    BY DEF IInv
  <1> QED
    BY <1>1, Invariance, PTL

\* A lead never gets a second case, however often create-from-requested-amount
\* is asked for it.
THEOREM OneCase == Spec => []OneCasePerLead
  <1>1. IInv => OneCasePerLead
    BY DEF IInv
  <1> QED
    BY <1>1, Invariance, PTL

\* create-offer leaves one offer standing, the current and latest one.
THEOREM OneOffer == Spec => []OneOfferStands
  <1>1. IInv => OneOfferStands
    BY DEF IInv, OfferOK, OneOfferStands
  <1> QED
    BY <1>1, Invariance, PTL

\* approve-final leaves the current offer accepted, and behind the case the
\* guarantor whom the CEO approved when it needs one.
THEOREM FinalBacked == Spec => []FinalIsBacked
  <1>1. IInv => FinalIsBacked
    <2> SUFFICES ASSUME IInv, NEW c \in Cases
                 PROVE  /\ caseStatus[c] = "APROBADO_FINAL" <=>
                             currentOffer[c] # 0 /\ offers[c][currentOffer[c]] = "ACCEPTED"
                        /\ caseStatus[c] = "APROBADO_FINAL" /\ needsGuarantor[c] =>
                             \E a \in attempts[c] : ActiveGuarantor(c, a) /\ a.reviewedBy = "CEO"
      BY DEF FinalIsBacked
    <2>1. OfferOK(c) /\ BackedOK(c)
      BY DEF IInv
    <2> QED
      BY <2>1 DEF OfferOK, BackedOK
  <1> QED
    BY <1>1, Invariance, PTL

\* The candidates of a case are numbered without gaps and different people, and
\* only the last can wait for the CEO, whatever the limit of attempts.
THEOREM AttemptsSound == Spec => []AttemptsAreSound
  <1>1. IInv => AttemptsAreSound
    BY DEF IInv, AttemptsOK, AttemptsAreSound, PendingCandidates, Pending
  <1> QED
    BY <1>1, Invariance, PTL

\* No step takes back what the CEO has decided: the candidates that were
\* reviewed, the accepted offer, the approved case.
THEOREM DecisionsKept == Spec => DecisionsStand
  <1> DEFINE Kept(c) ==
        \A a \in attempts[c] :
          IF a.status = "APPROVED" /\ a.reviewedBy = "system"
          THEN \E b \in attempts'[c] : b.cuit = a.cuit
          ELSE a \in attempts'[c]
      Final(c) ==
        caseStatus[c] = "APROBADO_FINAL" =>
          <<caseStatus[c], offers[c], currentOffer[c]>>'
            = <<caseStatus[c], offers[c], currentOffer[c]>>
  <1>1. ASSUME IInv, [Next]_vars, NEW c \in Cases PROVE Final(c)
    BY <1>1 DEF IInv, TypeOK, Next, vars, leadVars, caseVars, AcceptConsent, ConsentExpires,
       CompleteData, StartPrequal, FinishPrequal, AskAmount, CreateFromRequestedAmount,
       CreateCaseOffer, ReopenCase, SendToNosis, ReturnToAnalysis, EvaluateCaseGuarantor,
       ApproveGuarantor, RejectGuarantor, Resolvable, ApplyAprobadoFinal, Approvable
  <1>2. ASSUME IInv, [Next]_vars, NEW c \in Cases PROVE Kept(c)
    <2>1. CASE attempts'[c] = attempts[c]
      BY <2>1
    <2>2. ASSUME NEW cuit \in Cuits, EvaluateCaseGuarantor(c, cuit) PROVE Kept(c)
      BY <1>2, <2>2 DEF IInv, TypeOK, EvaluateCaseGuarantor
    <2>3. ASSUME NEW a \in attempts[c], ApproveGuarantor(c, a) \/ RejectGuarantor(c, a)
          PROVE  Kept(c)
      <3>1. PICK s \in {"APPROVED", "REJECTED"} : Resolvable(c, a) /\ Decide(c, a, s)
        BY <2>3 DEF ApproveGuarantor, RejectGuarantor
      <3>2. attempts'[c] = (attempts[c] \ {a}) \union {Decided(a, s)}
        BY <1>2, <3>1 DEF Decide, Decided, IInv, TypeOK
      <3>3. Pending(a) /\ Decided(a, s).cuit = a.cuit
        BY <1>2, <3>1 DEF Resolvable, PendingCandidates, Pending, Decided, IInv, TypeOK, Attempt
      <3> QED
        BY <3>2, <3>3 DEF Pending
    <2>4. \/ attempts'[c] = attempts[c]
          \/ \E cuit \in Cuits : EvaluateCaseGuarantor(c, cuit)
          \/ \E a \in attempts[c] : ApproveGuarantor(c, a) \/ RejectGuarantor(c, a)
      <3>1. ASSUME NEW d \in Cases, d # c,
                   \/ \E cuit \in Cuits : EvaluateCaseGuarantor(d, cuit)
                   \/ \E a \in attempts[d] : ApproveGuarantor(d, a) \/ RejectGuarantor(d, a)
            PROVE  attempts'[c] = attempts[c]
        BY <1>2, <3>1 DEF IInv, TypeOK, EvaluateCaseGuarantor, ApproveGuarantor, RejectGuarantor, Decide
      <3>2. \/ UNCHANGED attempts
            \/ \E d \in Cases :
                 \/ \E cuit \in Cuits : EvaluateCaseGuarantor(d, cuit)
                 \/ \E a \in attempts[d] : ApproveGuarantor(d, a) \/ RejectGuarantor(d, a)
        BY <1>2 DEF Next, vars, caseVars, AcceptConsent, ConsentExpires, CompleteData,
           StartPrequal, FinishPrequal, AskAmount, CreateFromRequestedAmount, CreateCaseOffer,
           ReopenCase, SendToNosis, ReturnToAnalysis, ApplyAprobadoFinal
      <3> QED
        BY <3>1, <3>2
    <2> QED
      BY <2>1, <2>2, <2>3, <2>4
  <1>3. IInv /\ [Next]_vars =>
          \A c \in Cases :
            /\ \A a \in attempts[c] :
                 IF a.status = "APPROVED" /\ a.reviewedBy = "system"
                 THEN \E b \in attempts'[c] : b.cuit = a.cuit
                 ELSE a \in attempts'[c]
            /\ caseStatus[c] = "APROBADO_FINAL" =>
                 <<caseStatus[c], offers[c], currentOffer[c]>>'
                   = <<caseStatus[c], offers[c], currentOffer[c]>>
    BY <1>1, <1>2
  <1> HIDE DEF Kept, Final
  <1> QED
    BY <1>3, Invariance, PTL DEF Spec, DecisionsStand

\* A lead that has its case leaves WAITING_CEO only in accept-consent, and only
\* for a consent that was still open.
THEOREM LeadLeaves == Spec => LeadLeavesOnlyByConsent
  <1>1. ASSUME IInv, [Next]_vars, NEW l \in Leads,
               stage[l] = "WAITING_CEO", stage'[l] # "WAITING_CEO"
        PROVE  \E t \in Consents :
                 ConsentPhone[t] = l /\ consent[t] = "PENDING" /\ consent'[t] = "ACCEPTED"
    <2>1. ASSUME NEW t \in Consents, AcceptConsent(t)
          PROVE  ConsentPhone[t] = l /\ consent[t] = "PENDING" /\ consent'[t] = "ACCEPTED"
      BY <1>1, <2>1 DEF AcceptConsent, IInv, TypeOK
    <2>2. \E t \in Consents : AcceptConsent(t)
      <3>1. stage[l] = "WAITING_CEO" /\ stage'[l] # "WAITING_CEO" /\ stage \in [Leads -> LeadStage]
        BY <1>1 DEF IInv, TypeOK
      <3>2. ASSUME NEW k \in Leads,
                   \/ CompleteData(k) \/ StartPrequal(k) \/ FinishPrequal(k) \/ AskAmount(k)
                   \/ \E c \in Cases : CreateFromRequestedAmount(k, c)
            PROVE  FALSE
        BY <3>1, <3>2 DEF CompleteData, StartPrequal, FinishPrequal, RejectableStages, AskAmount,
           CreateFromRequestedAmount
      <3>3. UNCHANGED stage => FALSE
        BY <3>1
      <3> QED
        BY <1>1, <3>2, <3>3 DEF Next, vars, leadVars, ConsentExpires, CreateCaseOffer,
           ReopenCase, SendToNosis, ReturnToAnalysis, EvaluateCaseGuarantor, ApproveGuarantor,
           RejectGuarantor, ApplyAprobadoFinal
    <2> QED
      BY <2>1, <2>2
  <1>2. IInv /\ [Next]_vars =>
          \A l \in Leads :
            stage[l] = "WAITING_CEO" /\ stage'[l] # "WAITING_CEO" =>
              \E t \in Consents :
                ConsentPhone[t] = l /\ consent[t] = "PENDING" /\ consent'[t] = "ACCEPTED"
    BY <1>1
  <1> QED
    BY <1>2, Invariance, PTL DEF Spec, LeadLeavesOnlyByConsent
=============================================================================
