---------------------------- MODULE CaseOrigination ----------------------------
(***************************************************************************)
(* From a lead's consent to the case's final approval.                     *)
(*                                                                         *)
(* A lead accepts the terms, gives its data, is prequalified with BCRA and *)
(* asks for an amount, which makes it a case.  The CEO sends offers; a     *)
(* case that needs a guarantor has up to three candidates evaluated, and   *)
(* the CEO decides on the one the system approves.  After Nosis the case   *)
(* and its current offer are approved.                                     *)
(*                                                                         *)
(* Every operation is one transaction that locks the lead's or the case's  *)
(* row before it reads what it decides on, so each is one step; the        *)
(* prequalification alone asks BCRA outside its transaction.  The n8n      *)
(* workflows write stages and statuses of their own; those moves are       *)
(* external and kept to what the code expects of them.                     *)
(***************************************************************************)
EXTENDS Naturals, FiniteSets, Sequences

CONSTANTS
  Leads,        \* phones that have written to us
  Consents,     \* identities for the rows of consents
  ConsentPhone, \* per consent: the lead it was sent to
  Cases,        \* identities for the rows of cases
  NoCase,       \* leads.current_case_id IS NULL
  Cuits,        \* valid CUITs of possible guarantors, the applicants' left out
  MaxAttempts,  \* MAX_GUARANTOR_ATTEMPTS
  MaxVersions   \* bound on the offers of a case

ASSUME CaseOriginationAssumption ==
  /\ ConsentPhone \in [Consents -> Leads]
  /\ NoCase \notin Cases
  /\ MaxAttempts \in Nat \ {0}
  /\ MaxVersions \in Nat \ {0}

VARIABLES
  stage,         \* leads.stage
  currentCase,   \* leads.current_case_id
  consent,       \* consents.status, "EXPIRED" when expires_at has passed
  evaluating,    \* leads with a prequalification that has still to answer
  caseStatus,    \* cases.status, "NONE" before the row exists
  caseLead,      \* cases.phone
  needsGuarantor,\* cases.requires_guarantor
  offers,        \* per case, the status of its offers by version
  currentOffer,  \* cases.current_offer_id as a version, 0 for NULL
  attempts       \* per case, its rows of case_guarantors

leadVars == <<stage, currentCase, consent, evaluating>>
caseVars == <<caseStatus, caseLead, needsGuarantor, offers, currentOffer, attempts>>
vars == <<leadVars, caseVars>>

-----------------------------------------------------------------------------
LeadStage ==
  {"NEED_CONSENT", "NEED_DATA", "DATA_COMPLETE", "WAITING_REQUESTED_AMOUNT",
   "WAITING_REQUESTED_AMOUNT_MANUAL_REVIEW", "WAITING_CEO", "REJECTED"}
ConsentStatus == {"PENDING", "ACCEPTED", "EXPIRED"}
CaseStatus ==
  {"NONE", "WAITING_CEO", "OFFER_SENT", "PENDING_GUARANTOR_ANALYSIS",
   "PENDING_NOSIS", "APROBADO_FINAL"}
OfferStatus == {"SENT", "SUPERSEDED", "ACCEPTED"}

\* A row that another transaction can see is never EVALUATING: the evaluation
\* inserts and finishes it in one transaction.
Attempt == [cuit : Cuits, no : 1 .. MaxAttempts, status : {"APPROVED", "REJECTED"},
            reviewedBy : {"system", "CEO"}]

TypeOK ==
  /\ stage \in [Leads -> LeadStage]
  /\ currentCase \in [Leads -> Cases \union {NoCase}]
  /\ consent \in [Consents -> ConsentStatus]
  /\ evaluating \subseteq Leads
  /\ caseStatus \in [Cases -> CaseStatus]
  /\ caseLead \in [Cases -> Leads]
  /\ needsGuarantor \in [Cases -> BOOLEAN]
  /\ offers \in [Cases -> Seq(OfferStatus)]
  /\ currentOffer \in [Cases -> 0 .. MaxVersions]
  /\ attempts \in [Cases -> SUBSET Attempt]

Init ==
  /\ stage = [l \in Leads |-> "NEED_CONSENT"]
  /\ currentCase = [l \in Leads |-> NoCase]
  /\ consent = [t \in Consents |-> "PENDING"]
  /\ evaluating = {}
  /\ caseStatus = [c \in Cases |-> "NONE"]
  /\ caseLead \in {[c \in Cases |-> l] : l \in Leads}
  /\ needsGuarantor = [c \in Cases |-> FALSE]
  /\ offers = [c \in Cases |-> <<>>]
  /\ currentOffer = [c \in Cases |-> 0]
  /\ attempts = [c \in Cases |-> {}]

-----------------------------------------------------------------------------
(* Leads: consents, prequalification, requested amount. *)

\* POST /consents/accept.  The lead's stage is overwritten whatever it
\* is; an ACCEPTED consent answers success and writes nothing.
AcceptConsent(t) ==
  /\ consent[t] = "PENDING"
  /\ consent' = [consent EXCEPT ![t] = "ACCEPTED"]
  /\ stage' = [stage EXCEPT ![ConsentPhone[t]] = "NEED_DATA"]
  /\ UNCHANGED <<currentCase, evaluating, caseVars>>

ConsentExpires(t) ==
  /\ consent[t] = "PENDING"
  /\ consent' = [consent EXCEPT ![t] = "EXPIRED"]
  /\ UNCHANGED <<stage, currentCase, evaluating, caseVars>>

\* n8n has the lead's data.
CompleteData(l) ==
  /\ stage[l] = "NEED_DATA"
  /\ stage' = [stage EXCEPT ![l] = "DATA_COMPLETE"]
  /\ UNCHANGED <<currentCase, consent, evaluating, caseVars>>

\* POST /prequal/run, up to the call of BCRA: the lead's stage is not looked at,
\* nor whether another prequalification of his is under way.
StartPrequal(l) ==
  /\ evaluating' = evaluating \union {l}
  /\ UNCHANGED <<stage, currentCase, consent, caseVars>>

\* Mutant: the stage is not looked at.
RejectableAnyStage == LeadStage

RejectableStages ==
  {"DATA_COMPLETE", "WAITING_REQUESTED_AMOUNT",
   "WAITING_REQUESTED_AMOUNT_MANUAL_REVIEW", "REJECTED"}

\* Its transaction, or the error it returns: only an ineligible answer touches
\* the lead, wherever the lead has got to meanwhile.  Other prequalifications of
\* the lead may still have to answer.
FinishPrequal(l) ==
  /\ l \in evaluating
  /\ evaluating' \in {evaluating, evaluating \ {l}}
  /\ \/ UNCHANGED stage
     \/ /\ stage[l] \in RejectableStages
        /\ stage' = [stage EXCEPT ![l] = "REJECTED"]
  /\ UNCHANGED <<currentCase, consent, caseVars>>

\* n8n asks for the amount after an eligible answer, or after one of the
\* errors that allow a manual review.
AskAmount(l) ==
  /\ stage[l] = "DATA_COMPLETE"
  /\ \E s \in {"WAITING_REQUESTED_AMOUNT", "WAITING_REQUESTED_AMOUNT_MANUAL_REVIEW"} :
       stage' = [stage EXCEPT ![l] = s]
  /\ UNCHANGED <<currentCase, consent, evaluating, caseVars>>

\* Mutant: leads.current_case_id is not looked at.
IgnoreCurrentCase(l) == TRUE

HasNoCase(l) == currentCase[l] = NoCase

\* POST /cases/create-from-requested-amount.
CreateFromRequestedAmount(l, c) ==
  /\ stage[l] \in {"WAITING_REQUESTED_AMOUNT", "WAITING_REQUESTED_AMOUNT_MANUAL_REVIEW"}
  /\ HasNoCase(l)
  /\ caseStatus[c] = "NONE"
  /\ caseStatus' = [caseStatus EXCEPT ![c] = "WAITING_CEO"]
  /\ caseLead' = [caseLead EXCEPT ![c] = l]
  /\ stage' = [stage EXCEPT ![l] = "WAITING_CEO"]
  /\ currentCase' = [currentCase EXCEPT ![l] = c]
  /\ UNCHANGED <<consent, evaluating, needsGuarantor, offers, currentOffer, attempts>>

-----------------------------------------------------------------------------
(* Offers. *)

\* Mutant: only drafts are superseded.
SupersedableDraft == {"DRAFT"}

Supersedable == {"SENT", "DRAFT"}

\* POST /cases/:caseId/create-offer.  The new version is MAX(version) + 1.
CreateCaseOffer(c) ==
  /\ caseStatus[c] = "WAITING_CEO"
  /\ Len(offers[c]) < MaxVersions
  /\ offers' = [offers EXCEPT ![c] =
       Append([v \in DOMAIN @ |-> IF @[v] \in Supersedable THEN "SUPERSEDED" ELSE @[v]], "SENT")]
  /\ currentOffer' = [currentOffer EXCEPT ![c] = Len(offers[c]) + 1]
  /\ \E g \in BOOLEAN : needsGuarantor' = [needsGuarantor EXCEPT ![c] = g]
  /\ caseStatus' = [caseStatus EXCEPT ![c] = "OFFER_SENT"]
  /\ UNCHANGED <<leadVars, caseLead, attempts>>

\* The client turns the offer down or the terms change: n8n gives the case
\* back to the CEO, the only way to a second version.
ReopenCase(c) ==
  /\ caseStatus[c] \in {"OFFER_SENT", "PENDING_GUARANTOR_ANALYSIS", "PENDING_NOSIS"}
  /\ caseStatus' = [caseStatus EXCEPT ![c] = "WAITING_CEO"]
  /\ UNCHANGED <<leadVars, caseLead, needsGuarantor, offers, currentOffer, attempts>>

\* The client takes an offer that needs no guarantor: n8n sends it to Nosis.
SendToNosis(c) ==
  /\ caseStatus[c] = "OFFER_SENT"
  /\ ~needsGuarantor[c]
  /\ caseStatus' = [caseStatus EXCEPT ![c] = "PENDING_NOSIS"]
  /\ UNCHANGED <<leadVars, caseLead, needsGuarantor, offers, currentOffer, attempts>>

\* After Nosis another guarantor is wanted: n8n gives the case back to analysis.
ReturnToAnalysis(c) ==
  /\ caseStatus[c] = "PENDING_NOSIS"
  /\ needsGuarantor[c]
  /\ caseStatus' = [caseStatus EXCEPT ![c] = "PENDING_GUARANTOR_ANALYSIS"]
  /\ UNCHANGED <<leadVars, caseLead, needsGuarantor, offers, currentOffer, attempts>>

-----------------------------------------------------------------------------
(* Guarantors. *)

\* Also the mutant of PendingCandidates: who reviewed is not looked at.
ApprovedCandidates(c) == {a \in attempts[c] : a.status = "APPROVED"}

\* Approved by the system and not decided by the CEO.
PendingCandidates(c) ==
  {a \in attempts[c] : a.status = "APPROVED" /\ a.reviewedBy = "system"}

\* Mutant: the candidates approved by the system are not searched for.
NothingPending(c) == TRUE

NoDecisionPending(c) == PendingCandidates(c) = {}

AttemptsLeft(c) == Cardinality(attempts[c]) < MaxAttempts

\* The row of a candidate, inserted and finished.
Evaluated(c, cuit, s) ==
  [cuit |-> cuit, no |-> Cardinality(attempts[c]) + 1, status |-> s, reviewedBy |-> "system"]

\* POST /cases/:caseId/evaluate-guarantor.  A technical failure of BCRA
\* removes the candidate again and leaves the case in analysis.
EvaluateCaseGuarantor(c, cuit) ==
  /\ needsGuarantor[c]
  /\ caseStatus[c] \in {"OFFER_SENT", "PENDING_GUARANTOR_ANALYSIS"}
  /\ NoDecisionPending(c)
  /\ AttemptsLeft(c)
  /\ \A a \in attempts[c] : a.cuit # cuit
  /\ caseStatus' = [caseStatus EXCEPT ![c] = "PENDING_GUARANTOR_ANALYSIS"]
  /\ \/ \E s \in {"APPROVED", "REJECTED"} :
          attempts' = [attempts EXCEPT ![c] = @ \union {Evaluated(c, cuit, s)}]
     \/ UNCHANGED attempts
  /\ UNCHANGED <<leadVars, caseLead, needsGuarantor, offers, currentOffer>>

\* The pending candidate that resolve-guarantor finds first: the newest.
Resolvable(c, a) ==
  /\ caseStatus[c] = "PENDING_GUARANTOR_ANALYSIS"
  /\ needsGuarantor[c]
  /\ a \in PendingCandidates(c)
  /\ \A b \in PendingCandidates(c) : b.no <= a.no

Decide(c, a, s) ==
  attempts' = [attempts EXCEPT ![c] =
    (@ \ {a}) \union {[a EXCEPT !.status = s, !.reviewedBy = "CEO"]}]

\* POST /cases/:caseId/resolve-guarantor, GARANTE_APROBADO.
ApproveGuarantor(c, a) ==
  /\ Resolvable(c, a)
  /\ Decide(c, a, "APPROVED")
  /\ caseStatus' = [caseStatus EXCEPT ![c] = "PENDING_NOSIS"]
  /\ UNCHANGED <<leadVars, caseLead, needsGuarantor, offers, currentOffer>>

\* GARANTE_RECHAZADO: the case waits for another candidate, or for ever when
\* its attempts are used up.
RejectGuarantor(c, a) ==
  /\ Resolvable(c, a)
  /\ Decide(c, a, "REJECTED")
  /\ UNCHANGED <<leadVars, caseStatus, caseLead, needsGuarantor, offers, currentOffer>>

\* Mutant: a case that is still in analysis may be approved.
ApprovableInAnalysis(c) == caseStatus[c] \in {"PENDING_NOSIS", "PENDING_GUARANTOR_ANALYSIS"}

Approvable(c) == caseStatus[c] = "PENDING_NOSIS"

\* POST /cases/:caseId/approve-final.
ApplyAprobadoFinal(c) ==
  /\ Approvable(c)
  /\ currentOffer[c] # 0
  /\ caseStatus' = [caseStatus EXCEPT ![c] = "APROBADO_FINAL"]
  /\ offers' = [offers EXCEPT ![c][currentOffer[c]] = "ACCEPTED"]
  /\ UNCHANGED <<leadVars, caseLead, needsGuarantor, currentOffer, attempts>>

-----------------------------------------------------------------------------
Next ==
  \/ \E t \in Consents : AcceptConsent(t) \/ ConsentExpires(t)
  \/ \E l \in Leads :
       \/ CompleteData(l) \/ StartPrequal(l) \/ FinishPrequal(l) \/ AskAmount(l)
       \/ \E c \in Cases : CreateFromRequestedAmount(l, c)
  \/ \E c \in Cases :
       \/ CreateCaseOffer(c) \/ ReopenCase(c) \/ SendToNosis(c) \/ ReturnToAnalysis(c)
       \/ \E cuit \in Cuits : EvaluateCaseGuarantor(c, cuit)
       \/ \E a \in attempts[c] : ApproveGuarantor(c, a) \/ RejectGuarantor(c, a)
       \/ ApplyAprobadoFinal(c)

Spec == Init /\ [][Next]_vars

-----------------------------------------------------------------------------
\* Whom the contract data are asked of and who will sign: of the APPROVED
\* candidates the newest, whoever reviewed it.
ActiveGuarantor(c, a) ==
  /\ a \in ApprovedCandidates(c)
  /\ \A b \in ApprovedCandidates(c) : b.no <= a.no

(* What the component promises. *)

\* A lead has one case in its life, even when a late consent sends it through
\* its data, prequalification and amount again; the lead points to it.  Nothing
\* clears leads.current_case_id in this code, and nobody else is taken to.
OneCasePerLead ==
  \A c \in Cases : caseStatus[c] # "NONE" => currentCase[caseLead[c]] = c

\* However often a case is offered anew, one offer stands: the current one,
\* which is the latest, and all before it are superseded.
OneOfferStands ==
  \A c \in Cases :
    /\ currentOffer[c] = Len(offers[c])
    /\ \A v \in DOMAIN offers[c] : v # currentOffer[c] <=> offers[c][v] = "SUPERSEDED"

\* A finally approved case has its current offer accepted and, when it needs a
\* guarantor, the one who will sign was approved by the CEO, whatever offers
\* and candidates it went through; and no other case has an accepted offer.
FinalIsBacked ==
  \A c \in Cases :
    /\ caseStatus[c] = "APROBADO_FINAL" <=>
         currentOffer[c] # 0 /\ offers[c][currentOffer[c]] = "ACCEPTED"
    /\ caseStatus[c] = "APROBADO_FINAL" /\ needsGuarantor[c] =>
         \E a \in attempts[c] : ActiveGuarantor(c, a) /\ a.reviewedBy = "CEO"

\* The candidates of a case are numbered without gaps, are different people,
\* and at most one of them, the last, waits for the CEO; technical failures,
\* new offers and returns from Nosis included.
AttemptsAreSound ==
  \A c \in Cases :
    /\ {a.no : a \in attempts[c]} = 1 .. Cardinality(attempts[c])
    /\ \A a, b \in attempts[c] : a.cuit = b.cuit => a = b
    /\ \A a \in PendingCandidates(c) : \A b \in attempts[c] : b.no <= a.no

\* What the CEO has decided stands: a reviewed candidate, an accepted offer and
\* an approved case never change, and no candidate disappears.
DecisionsStand ==
  [][\A c \in Cases :
       /\ \A a \in attempts[c] :
            IF a.status = "APPROVED" /\ a.reviewedBy = "system"
            THEN \E b \in attempts'[c] : b.cuit = a.cuit
            ELSE a \in attempts'[c]
       /\ caseStatus[c] = "APROBADO_FINAL" =>
            <<caseStatus[c], offers[c], currentOffer[c]>>'
              = <<caseStatus[c], offers[c], currentOffer[c]>>]_vars

\* Once its case exists, a lead leaves WAITING_CEO only when it accepts a
\* consent for the first time: not by a prequalification that answers late,
\* and not by a consent that is accepted again.
LeadLeavesOnlyByConsent ==
  [][\A l \in Leads :
       stage[l] = "WAITING_CEO" /\ stage'[l] # "WAITING_CEO" =>
         \E t \in Consents :
           ConsentPhone[t] = l /\ consent[t] = "PENDING" /\ consent'[t] = "ACCEPTED"]_vars

=============================================================================
