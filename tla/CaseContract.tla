----------------------------- MODULE CaseContract -----------------------------
(***************************************************************************)
(* The contract of a case, from start-contract to the loan.                *)
(*                                                                         *)
(* A start request runs TX1 (lock the case, insert the contract CREATED),  *)
(* renders the PDF, creates the document at the signature provider, and    *)
(* runs TX2 (SIGN_PENDING with the provider's ids); an error after the PDF *)
(* runs TX3 (FAILED).  The provider reports signatures by webhook; each    *)
(* webhook is one transaction under the contract's row lock.  A cron job   *)
(* cancels what nobody signed in time and then tells the provider.         *)
(*                                                                         *)
(* A transaction is one step: every read it decides on is SELECT .. FOR    *)
(* UPDATE, nothing it writes is visible before COMMIT, and two contracts   *)
(* that could meet in createLoanIfEligible belong to one user, whose row   *)
(* findCaseByIdForUpdate locks together with the case.                     *)
(***************************************************************************)
EXTENDS Naturals, FiniteSets

CONSTANTS
  Cases,      \* cases that have an accepted offer
  Contracts,  \* identities for the rows of case_contracts
  CaseData,   \* per case: caseType, requiresGuarantor, refinances, guarantor
  OldLoans,   \* loans that a case may refinance
  NoLoan,     \* refinances_loan_id IS NULL
  NoCase,     \* caseOf of a contract row that does not exist yet
  Environment \* what the outside world may do, a subset of EnvironmentKinds

\* Failures of ours (the process dies, the PDF renderer, the database, a COMMIT
\* whose acknowledgement is lost), and what signers and the provider may do
\* (decline, close a document, send new_status in a webhook).
EnvironmentKinds ==
  {"CRASH", "PDF", "DB", "COMMIT_ACK", "DECLINE", "CLOSE", "NEW_STATUS"}

Guarantor == {"missing", "incomplete", "noPhone", "complete"}

CaseRow == [caseType : {"NEW", "REFINANCE"}, requiresGuarantor : BOOLEAN,
            refinances : OldLoans \union {NoLoan}, guarantor : Guarantor]

ASSUME CaseContractAssumption ==
  /\ CaseData \in [Cases -> CaseRow]
  /\ \A c \in Cases : CaseData[c].caseType = "NEW" => CaseData[c].refinances = NoLoan
  /\ NoLoan \notin OldLoans
  /\ NoCase \notin Cases
  /\ Environment \subseteq EnvironmentKinds

VARIABLES
  caseStatus,   \* cases.status, as far as start-contract reads it
  status,       \* case_contracts.status, "NONE" before the row exists
  caseOf,       \* case_contracts.case_id
  linked,       \* contracts whose external ids are stored
  tracked,      \* provider_document_status, provider_signature_status(_codeudor)
  overdue,      \* contracts with expires_at in the past
  loans,        \* the rows of loans
  start,        \* where the start request that inserted the contract is
  cancelQueue,  \* documents a cron run has still to cancel at the provider
  outbox,       \* notifications to n8n that are under way
  remote,       \* the provider's documents
  events,       \* the webhooks the provider has sent
  notified      \* CONTRACT_SIGNED notifications n8n has received, per case

dbVars == <<caseStatus, status, caseOf, linked, tracked, overdue, loans>>
appVars == <<start, cancelQueue, outbox>>
extVars == <<remote, events, notified>>
vars == <<dbVars, appVars, extVars>>

-----------------------------------------------------------------------------
(* Vocabulary of the rows.  "none" is SQL NULL. *)

Status == {"NONE", "CREATED", "SIGN_PENDING", "SIGNED", "CANCELED", "FAILED"}
ActiveStatus == {"CREATED", "SIGN_PENDING"}
Signer == {"TITULAR", "CODEUDOR"}
ProviderStatus == {"none", "PE", "CO", "CA", "DE", "ER"}
\* A request is lost when nothing is left that would settle its contract.
StartPhase == {"idle", "pdf", "create", "link", "fail", "ended", "lost"}
Source == {"CONTRACT_SIGNED", "CONTRACT_VALIDATION_FAILED"}

Event == [contract : Contracts, signer : Signer \union {"none"},
          action : {"DS", "SD", "DC"}, newStatus : ProviderStatus]
Document == [doc : ProviderStatus, signed : SUBSET Signer,
             declined : SUBSET Signer, valid : SUBSET Signer]
Loan == [contract : Contracts, case : Cases, refinances : OldLoans \union {NoLoan}]
Notice == [contract : Contracts, case : Cases, source : Source]

Coalesce(a, b) == IF a # "none" THEN a ELSE b

ResolveContractKind(c) ==
  IF CaseData[c].caseType = "REFINANCE" THEN "REFINANCIACION"
  ELSE IF CaseData[c].requiresGuarantor THEN "MUTUO_CODEUDOR"
  ELSE "MUTUO"

UsesCodeudor(c) == ResolveContractKind(c) \in {"MUTUO_CODEUDOR", "REFINANCIACION"}

\* The guarantor approved last, as the contract's codeudor.
ApprovedGuarantor(c) == CaseData[c].guarantor

AssertRefinanceConsistency(c) ==
  /\ CaseData[c].requiresGuarantor
  /\ CaseData[c].refinances # NoLoan
  /\ ApprovedGuarantor(c) \in {"complete", "noPhone"}

Signers(c) ==
  IF UsesCodeudor(c) /\ ApprovedGuarantor(c) # "missing" THEN Signer ELSE {"TITULAR"}

\* Mutant: only SIGN_PENDING counts as active.
HasPendingContract(c) == \E k \in Contracts : caseOf[k] = c /\ status[k] = "SIGN_PENDING"

HasActiveContract(c) == \E k \in Contracts : caseOf[k] = c /\ status[k] \in ActiveStatus

-----------------------------------------------------------------------------
TypeOK ==
  /\ caseStatus \in [Cases -> {"PENDING_CONTRACT_DATA", "CONTRACT_DATA_COMPLETED"}]
  /\ status \in [Contracts -> Status]
  /\ caseOf \in [Contracts -> Cases \union {NoCase}]
  /\ linked \subseteq Contracts
  /\ tracked \in [Contracts -> [doc : ProviderStatus, sig : ProviderStatus,
                                sigCodeudor : ProviderStatus]]
  /\ overdue \subseteq Contracts
  /\ loans \subseteq Loan
  /\ start \in [Contracts -> StartPhase]
  /\ cancelQueue \subseteq Contracts
  /\ outbox \subseteq Notice
  /\ remote \in [Contracts -> Document]
  /\ events \subseteq Event
  /\ notified \in [Cases -> Nat]

Init ==
  /\ caseStatus = [c \in Cases |-> "PENDING_CONTRACT_DATA"]
  /\ status = [k \in Contracts |-> "NONE"]
  /\ caseOf = [k \in Contracts |-> NoCase]
  /\ linked = {}
  /\ tracked = [k \in Contracts |-> [doc |-> "none", sig |-> "none", sigCodeudor |-> "none"]]
  /\ overdue = {}
  /\ loans = {}
  /\ start = [k \in Contracts |-> "idle"]
  /\ cancelQueue = {}
  /\ outbox = {}
  /\ remote = [k \in Contracts |->
                 [doc |-> "none", signed |-> {}, declined |-> {}, valid |-> {}]]
  /\ events = {}
  /\ notified = [c \in Cases |-> 0]

-----------------------------------------------------------------------------
(* POST /cases/:caseId/start-contract *)

\* The contract data of a case is complete: the last token was used.  No code
\* moves a case out of CONTRACT_DATA_COMPLETED again.
CompleteContractData(c) ==
  /\ caseStatus[c] = "PENDING_CONTRACT_DATA"
  /\ caseStatus' = [caseStatus EXCEPT ![c] = "CONTRACT_DATA_COMPLETED"]
  /\ UNCHANGED <<status, caseOf, linked, tracked, overdue, loans, appVars, extVars>>

\* TX1.  The case row is locked, so the check for an active contract and the
\* insert cannot be separated by another start request of the same case.
InsertContract(c, k) ==
  /\ caseStatus[c] = "CONTRACT_DATA_COMPLETED"
  /\ ~HasActiveContract(c)
  /\ ResolveContractKind(c) = "REFINANCIACION" => AssertRefinanceConsistency(c)
  /\ UsesCodeudor(c) => ApprovedGuarantor(c) # "noPhone"
  /\ status[k] = "NONE"
  /\ status' = [status EXCEPT ![k] = "CREATED"]
  /\ caseOf' = [caseOf EXCEPT ![k] = c]
  /\ start' = [start EXCEPT ![k] = "pdf"]
  /\ UNCHANGED <<caseStatus, linked, tracked, overdue, loans, cancelQueue, outbox, extVars>>

GeneratePdf(k) ==
  /\ start[k] = "pdf"
  /\ start' = [start EXCEPT ![k] = "create"]
  /\ UNCHANGED <<dbVars, cancelQueue, outbox, extVars>>

\* The PDF is rendered outside the try block: its failure reaches the caller
\* and no transaction follows.
GeneratePdfFails(k) ==
  /\ "PDF" \in Environment
  /\ start[k] = "pdf"
  /\ start' = [start EXCEPT ![k] = "lost"]
  /\ UNCHANGED <<dbVars, cancelQueue, outbox, extVars>>

CreateDocument(k) ==
  /\ start[k] = "create"
  /\ remote' = [remote EXCEPT ![k].doc = "PE"]
  /\ start' = [start EXCEPT ![k] = "link"]
  /\ UNCHANGED <<dbVars, cancelQueue, outbox, events, notified>>

\* The call fails, with the document created at the provider or not (a lost
\* or an invalid response leaves it there, its id unknown to us).
CreateDocumentFails(k) ==
  /\ start[k] = "create"
  /\ \E d \in {"none", "PE"} : remote' = [remote EXCEPT ![k].doc = d]
  /\ start' = [start EXCEPT ![k] = "fail"]
  /\ UNCHANGED <<dbVars, cancelQueue, outbox, events, notified>>

\* Mutant: the external ids are not stored.
SignPendingRowWithoutIds(k) ==
  /\ status' = [status EXCEPT ![k] = "SIGN_PENDING"]
  /\ tracked' = [tracked EXCEPT ![k].doc = "PE"]
  /\ UNCHANGED <<caseStatus, caseOf, linked, overdue, loans, cancelQueue, outbox, extVars>>

\* TX2's update, unconditional in the contract's id.
SignPendingRow(k) ==
  /\ status' = [status EXCEPT ![k] = "SIGN_PENDING"]
  /\ linked' = linked \union {k}
  /\ tracked' = [tracked EXCEPT ![k] =
       [doc |-> "PE", sig |-> "PE",
        sigCodeudor |-> IF Signers(caseOf[k]) = Signer THEN "PE" ELSE "none"]]
  /\ UNCHANGED <<caseStatus, caseOf, overdue, loans, cancelQueue, outbox, extVars>>

MarkSignPending(k) ==
  /\ start[k] = "link"
  /\ SignPendingRow(k)
  /\ start' = [start EXCEPT ![k] = "ended"]

\* TX2 raises: rolled back, or committed with its acknowledgement lost.
MarkSignPendingFails(k) ==
  /\ start[k] = "link"
  /\ start' = [start EXCEPT ![k] = "fail"]
  /\ \/ /\ "DB" \in Environment
        /\ UNCHANGED <<dbVars, cancelQueue, outbox, extVars>>
     \/ /\ "COMMIT_ACK" \in Environment
        /\ SignPendingRow(k)

\* Mutant: the catch block only reports the error.
ReportStartFailed(k) ==
  /\ start[k] = "fail"
  /\ start' = [start EXCEPT ![k] = "ended"]
  /\ UNCHANGED <<dbVars, cancelQueue, outbox, extVars>>

\* TX3, unconditional in the contract's id.
MarkStartFailed(k) ==
  /\ start[k] = "fail"
  /\ status' = [status EXCEPT ![k] = "FAILED"]
  /\ start' = [start EXCEPT ![k] = "ended"]
  /\ UNCHANGED <<caseStatus, caseOf, linked, tracked, overdue, loans, cancelQueue, outbox, extVars>>

MarkStartFailedFails(k) ==
  /\ "DB" \in Environment
  /\ start[k] = "fail"
  /\ start' = [start EXCEPT ![k] = "lost"]
  /\ UNCHANGED <<dbVars, cancelQueue, outbox, extVars>>

StartContract(k) ==
  \/ \E c \in Cases : InsertContract(c, k)
  \/ GeneratePdf(k) \/ GeneratePdfFails(k)
  \/ CreateDocument(k) \/ CreateDocumentFails(k)
  \/ MarkSignPending(k) \/ MarkSignPendingFails(k)
  \/ MarkStartFailed(k) \/ MarkStartFailedFails(k)

-----------------------------------------------------------------------------
(* The signature provider (external). *)

Emit(k, s, a, n) ==
  events' = events \union {[contract |-> k, signer |-> s, action |-> a, newStatus |-> n]}

RemoteSignature(k, s) ==
  IF s \in remote[k].signed THEN "CO"
  ELSE IF s \in remote[k].declined THEN "DE"
  ELSE "PE"

\* A signer signs; the biometric evidence matches the case's data or not.
\* The webhook carries the document's new status or leaves it out.
SignerSigns(k, s) ==
  /\ remote[k].doc = "PE"
  /\ s \in Signers(caseOf[k]) \ remote[k].signed
  /\ remote[k].declined = {}
  /\ LET all == remote[k].signed \union {s}
         doc == IF all = Signers(caseOf[k]) THEN "CO" ELSE "PE"
     IN \E ok \in {{}, {s}}, n \in {"none", doc} :
          /\ n = "none" \/ "NEW_STATUS" \in Environment
          /\ remote' = [remote EXCEPT ![k] =
               [@ EXCEPT !.doc = doc, !.signed = all, !.valid = remote[k].valid \union ok]]
          /\ Emit(k, s, "DS", n)
  /\ UNCHANGED <<dbVars, appVars, notified>>

SignerDeclines(k, s) ==
  /\ "DECLINE" \in Environment
  /\ remote[k].doc = "PE"
  /\ s \in Signers(caseOf[k]) \ remote[k].signed
  /\ remote[k].declined = {}
  /\ remote' = [remote EXCEPT ![k].declined = {s}]
  /\ Emit(k, s, "SD", "none")
  /\ UNCHANGED <<dbVars, appVars, notified>>

\* The provider cancels or expires a document, or fails to process it.
ProviderCloses(k) ==
  /\ "CLOSE" \in Environment
  /\ remote[k].doc = "PE"
  /\ \E d \in {"CA", "ER"} :
       /\ remote' = [remote EXCEPT ![k].doc = d]
       /\ Emit(k, "none", "DC", d)
  /\ UNCHANGED <<dbVars, appVars, notified>>

Provider(k) ==
  \/ \E s \in Signer : SignerSigns(k, s) \/ SignerDeclines(k, s)
  \/ ProviderCloses(k)

-----------------------------------------------------------------------------
(* POST /webhooks/signatura/case-contract *)
(* A webhook that was sent may arrive at any time, again, or never. *)

EventDoc(e) ==
  Coalesce(e.newStatus, IF e.action = "DS" THEN "CO" ELSE "none")

EventSig(e) ==
  IF e.action = "DS" THEN "CO" ELSE IF e.action = "SD" THEN "DE" ELSE "none"

HasCodeudor(k) == Signers(caseOf[k]) = Signer

\* Mutant: every signature event goes to the titular's columns.
TitularTarget(e) == "TITULAR"

SignerTarget(e) ==
  IF HasCodeudor(e.contract) /\ e.signer = "CODEUDOR" THEN "CODEUDOR" ELSE "TITULAR"

\* The row after updateProviderTracking.
ProviderTracking(e) ==
  LET t == tracked[e.contract]
  IN IF SignerTarget(e) = "CODEUDOR"
     THEN [t EXCEPT !.doc = Coalesce(EventDoc(e), @),
                    !.sigCodeudor = Coalesce(EventSig(e), @)]
     ELSE [t EXCEPT !.doc = Coalesce(EventDoc(e), @),
                    !.sig = Coalesce(EventSig(e), @)]

EffectiveDoc(e) == Coalesce(EventDoc(e), ProviderTracking(e).doc)
EffectiveSig(e) == Coalesce(EventSig(e), ProviderTracking(e).sig)

IsProviderCanceled(e) == "CA" \in {EffectiveDoc(e), EffectiveSig(e)}
IsProviderRejected(e) == EffectiveSig(e) = "DE" \/ EffectiveDoc(e) = "ER"
IsProviderSigned(e) == "CO" \in {EffectiveDoc(e), EffectiveSig(e)}

\* What markCaseContractCanceled and markCaseContractFailed leave in the
\* provider's columns: the titular's column takes the effective status.
ClosedTracking(e) ==
  [ProviderTracking(e) EXCEPT !.doc = EffectiveDoc(e), !.sig = EffectiveSig(e)]

\* What a validated or refused signature leaves: the provider's own answer.
FinalTracking(e) ==
  [ProviderTracking(e) EXCEPT !.doc = remote[e.contract].doc,
                              !.sig = RemoteSignature(e.contract, "TITULAR")]

\* Without a codeudor the event decides; with one, the provider's document.
ReadyToFinalize(e) ==
  IF HasCodeudor(e.contract) THEN remote[e.contract].doc = "CO" ELSE IsProviderSigned(e)

\* The biometrics of a signer are approved and carry his DNI, as the case or
\* its guarantor has it.  (Mutant of IdentitiesValid: the titular's suffice.)
TitularIdentityValid(k) == "TITULAR" \in remote[k].valid
GuarantorIdentityValid(k) == "CODEUDOR" \in remote[k].valid

IdentitiesValid(k) ==
  /\ TitularIdentityValid(k)
  /\ HasCodeudor(k) => GuarantorIdentityValid(k)

\* A contract has the document or signature id of the event.
Known(e) == e.contract \in linked

\* No contract has these ids (yet): answered 200, nothing recorded.
WebhookNotFound(e) ==
  /\ ~Known(e)
  /\ UNCHANGED vars

WebhookOnSigned(e) ==
  /\ Known(e)
  /\ status[e.contract] = "SIGNED"
  /\ UNCHANGED vars

WebhookOnClosed(e) ==
  /\ Known(e)
  /\ status[e.contract] \in {"CANCELED", "FAILED"}
  /\ tracked' = [tracked EXCEPT ![e.contract] = ProviderTracking(e)]
  /\ UNCHANGED <<caseStatus, status, caseOf, linked, overdue, loans, appVars, extVars>>

\* Mutant: a webhook revives a contract that was canceled or failed.
PendingOrClosed(e) ==
  Known(e) /\ status[e.contract] \in {"SIGN_PENDING", "CANCELED", "FAILED"}

Pending(e) == Known(e) /\ status[e.contract] = "SIGN_PENDING"

WebhookCancels(e) ==
  /\ Pending(e)
  /\ IsProviderCanceled(e)
  /\ status' = [status EXCEPT ![e.contract] = "CANCELED"]
  /\ tracked' = [tracked EXCEPT ![e.contract] = ClosedTracking(e)]
  /\ UNCHANGED <<caseStatus, caseOf, linked, overdue, loans, appVars, extVars>>

NoticeOf(k, s) == [contract |-> k, case |-> caseOf[k], source |-> s]

WebhookRejects(e) ==
  /\ Pending(e)
  /\ ~IsProviderCanceled(e)
  /\ IsProviderRejected(e)
  /\ status' = [status EXCEPT ![e.contract] = "FAILED"]
  /\ tracked' = [tracked EXCEPT ![e.contract] = ClosedTracking(e)]
  /\ outbox' = outbox \union {NoticeOf(e.contract, "CONTRACT_VALIDATION_FAILED")}
  /\ UNCHANGED <<caseStatus, caseOf, linked, overdue, loans, start, cancelQueue, extVars>>

Undecided(e) == Pending(e) /\ ~IsProviderCanceled(e) /\ ~IsProviderRejected(e)

WebhookWaits(e) ==
  /\ Undecided(e)
  /\ ~ReadyToFinalize(e)
  /\ tracked' = [tracked EXCEPT ![e.contract] = ProviderTracking(e)]
  /\ UNCHANGED <<caseStatus, status, caseOf, linked, overdue, loans, appVars, extVars>>

WebhookInvalid(e) ==
  /\ Undecided(e)
  /\ ReadyToFinalize(e)
  /\ ~IdentitiesValid(e.contract)
  /\ status' = [status EXCEPT ![e.contract] = "FAILED"]
  /\ tracked' = [tracked EXCEPT ![e.contract] = FinalTracking(e)]
  /\ outbox' = outbox \union {NoticeOf(e.contract, "CONTRACT_VALIDATION_FAILED")}
  /\ UNCHANGED <<caseStatus, caseOf, linked, overdue, loans, start, cancelQueue, extVars>>

NewLoan(k) ==
  [contract |-> k, case |-> caseOf[k], refinances |-> CaseData[caseOf[k]].refinances]

LoansOf(c) == {l \in loans : l.case = c}

\* Mutant: loans are not searched by refinances_loan_id.
RefinanceNeverTaken(c) == FALSE

\* createLoanIfEligible refuses: another loan already refinances the same one.
RefinanceTaken(c) ==
  /\ CaseData[c].caseType = "REFINANCE"
  /\ \E l \in loans : l.refinances = CaseData[c].refinances

\* Mutant: the row as it was before markCaseContractSigned is passed on, so
\* the status check returns early.
CreateLoanFromStaleRow(k) == UNCHANGED <<loans, outbox>>

\* Mutant: the notification does not look at createdNew.
CreateLoanAndAlwaysNotify(k) ==
  /\ loans' = IF LoansOf(caseOf[k]) # {} THEN loans
              ELSE loans \union {NewLoan(k)}
  /\ outbox' = outbox \union {NoticeOf(k, "CONTRACT_SIGNED")}

\* createLoanIfEligible, in the transaction that marks the contract SIGNED.
CreateLoanIfEligible(k) ==
  LET c == caseOf[k]
  IN IF LoansOf(c) # {}
     THEN UNCHANGED <<loans, outbox>>
     ELSE /\ ~RefinanceTaken(c)
          /\ loans' = loans \union {NewLoan(k)}
          /\ outbox' = outbox \union {NoticeOf(k, "CONTRACT_SIGNED")}

WebhookSigns(e) ==
  /\ Undecided(e)
  /\ ReadyToFinalize(e)
  /\ IdentitiesValid(e.contract)
  /\ status' = [status EXCEPT ![e.contract] = "SIGNED"]
  /\ tracked' = [tracked EXCEPT ![e.contract] = FinalTracking(e)]
  /\ CreateLoanIfEligible(e.contract)
  /\ UNCHANGED <<caseStatus, caseOf, linked, overdue, start, cancelQueue, extVars>>

\* createLoanIfEligible throws: the transaction, tracking included, is rolled
\* back and the provider gets an error.
WebhookRolledBack(e) ==
  /\ Undecided(e)
  /\ ReadyToFinalize(e)
  /\ IdentitiesValid(e.contract)
  /\ LoansOf(caseOf[e.contract]) = {}
  /\ RefinanceTaken(caseOf[e.contract])
  /\ UNCHANGED vars

HandleSignaturaWebhook(e) ==
  \/ WebhookNotFound(e) \/ WebhookOnSigned(e) \/ WebhookOnClosed(e)
  \/ WebhookCancels(e) \/ WebhookRejects(e) \/ WebhookWaits(e)
  \/ WebhookInvalid(e) \/ WebhookSigns(e) \/ WebhookRolledBack(e)

-----------------------------------------------------------------------------
(* The expiration cron, the notifications, and crashes. *)

ExpiresAtPasses(k) ==
  /\ status[k] = "SIGN_PENDING"
  /\ k \notin overdue
  /\ overdue' = overdue \union {k}
  /\ UNCHANGED <<caseStatus, status, caseOf, linked, tracked, loans, appVars, extVars>>

\* Mutant: the job selects CREATED, which never has an expires_at.
ExpirableCreated == {k \in overdue : status[k] = "CREATED"}

Expirable == {k \in overdue : status[k] = "SIGN_PENDING"}

\* One UPDATE .. RETURNING for all of them; the remote cancels follow it.
ExpirePendingContracts ==
  /\ Expirable # {}
  /\ status' = [k \in Contracts |-> IF k \in Expirable THEN "CANCELED" ELSE status[k]]
  /\ cancelQueue' = cancelQueue \union Expirable
  /\ UNCHANGED <<caseStatus, caseOf, linked, tracked, overdue, loans, start, outbox, extVars>>

\* The provider cancels what is still pending.
CancelDocument(k) ==
  /\ remote[k].doc = "PE"
  /\ remote' = [remote EXCEPT ![k].doc = "CA"]
  /\ Emit(k, "none", "DC", "CA")

\* It may refuse or be out of reach, which is logged and never retried.
CancelExpiredRemotely(k) ==
  /\ k \in cancelQueue
  /\ cancelQueue' = cancelQueue \ {k}
  /\ CancelDocument(k) \/ UNCHANGED <<remote, events>>
  /\ UNCHANGED <<dbVars, start, outbox, notified>>

\* notify() never throws: the message arrives, or is logged as lost.
Notify(m) ==
  /\ m \in outbox
  /\ outbox' = outbox \ {m}
  /\ \/ /\ m.source = "CONTRACT_SIGNED"
        /\ notified' = [notified EXCEPT ![m.case] = @ + 1]
     \/ UNCHANGED notified
  /\ UNCHANGED <<dbVars, start, cancelQueue, remote, events>>

InProgress(k) == start[k] \notin {"idle", "ended", "lost"}

\* The process dies: requests, the cron's list and notifications are gone.
Crash ==
  /\ "CRASH" \in Environment
  /\ cancelQueue # {} \/ outbox # {} \/ \E k \in Contracts : InProgress(k)
  /\ start' = [k \in Contracts |-> IF InProgress(k) THEN "lost" ELSE start[k]]
  /\ cancelQueue' = {}
  /\ outbox' = {}
  /\ UNCHANGED <<dbVars, extVars>>

Next ==
  \/ \E c \in Cases : CompleteContractData(c)
  \/ \E k \in Contracts :
       StartContract(k) \/ Provider(k) \/ ExpiresAtPasses(k) \/ CancelExpiredRemotely(k)
  \/ \E e \in events : HandleSignaturaWebhook(e)
  \/ ExpirePendingContracts
  \/ \E m \in outbox : Notify(m)
  \/ Crash

Spec == Init /\ [][Next]_vars

\* A start request that was accepted runs on until its process dies, time
\* passes, and the cron fires every five minutes.  Nothing is assumed of the
\* signers, of the provider or of whoever starts contracts.
Fairness ==
  /\ \A k \in Contracts :
       /\ WF_vars(GeneratePdf(k) \/ GeneratePdfFails(k))
       /\ WF_vars(CreateDocument(k) \/ CreateDocumentFails(k))
       /\ WF_vars(MarkSignPending(k) \/ MarkSignPendingFails(k))
       /\ WF_vars(MarkStartFailed(k) \/ MarkStartFailedFails(k))
       /\ WF_vars(ExpiresAtPasses(k))
  /\ WF_vars(ExpirePendingContracts)

FairSpec == Spec /\ Fairness

-----------------------------------------------------------------------------
(* What the component promises. *)

\* A case has at most one contract in CREATED or SIGN_PENDING, however start
\* requests, expirations, webhooks and crashes interleave.
OneActiveContractPerCase ==
  \A k, m \in Contracts :
    /\ {status[k], status[m]} \subseteq ActiveStatus
    /\ caseOf[k] = caseOf[m]
    => k = m

\* A case gets at most one loan, even when it is contracted again after a
\* signed contract and both contracts end up SIGNED.
OneLoanPerCase ==
  \A l, m \in loans : l.case = m.case => l = m

\* A loan is refinanced by at most one other loan, though several cases may
\* set out to refinance it.
OneRefinancePerLoan ==
  \A l, m \in loans : l.refinances = m.refinances /\ l.refinances # NoLoan => l = m

\* Signing and lending are one transaction: no SIGNED contract without a loan
\* of its case.
SignedHasLoan ==
  \A k \in Contracts : status[k] = "SIGNED" => LoansOf(caseOf[k]) # {}

\* No money without a signature: the contract of a loan is SIGNED, belongs to
\* the loan's case, and every one of its signers signed with an identity that
\* matched, whatever order their webhooks came in.
LoanIsBacked ==
  \A l \in loans :
    /\ status[l.contract] = "SIGNED"
    /\ caseOf[l.contract] = l.case
    /\ Signers(l.case) \subseteq remote[l.contract].signed \intersect remote[l.contract].valid

\* A signature of the codeudor is never recorded as the titular's.
TitularSignatureIsHis ==
  \A k \in Contracts : tracked[k].sig = "CO" => "TITULAR" \in remote[k].signed

\* n8n hears of a signed contract at most once per case, and never of one
\* that gave no loan: repeated webhooks and second contracts stay silent.
SignedNotices(c) == {m \in outbox : m.case = c /\ m.source = "CONTRACT_SIGNED"}
NotifiedOnce ==
  \A c \in Cases :
    notified[c] + Cardinality(SignedNotices(c)) <= Cardinality(LoansOf(c))

\* A contract in the signing flow (CREATED or SIGN_PENDING) can still leave
\* it: a start request is at work on it or the provider knows it.  The
\* exceptions are exactly the requests lost to a crash, to the PDF renderer,
\* which runs outside the try block, or to a catch block that fails itself.
ActiveContractIsInFlow ==
  \A k \in Contracts :
    status[k] \in ActiveStatus => InProgress(k) \/ k \in linked \/ start[k] = "lost"

\* SIGNED, CANCELED and FAILED are final, whatever webhook comes late and
\* however the cron and a webhook race; so is the link of a contract to its
\* case and a loan once created.
ClosedIsFinal ==
  [][/\ \A k \in Contracts :
          status[k] \in {"SIGNED", "CANCELED", "FAILED"} => status'[k] = status[k]
     /\ \A k \in Contracts : caseOf[k] # NoCase => caseOf'[k] = caseOf[k]
     /\ loans \subseteq loans']_vars

\* Signed or not, a contract does not wait for its signatures for ever.
PendingEnds ==
  \A k \in Contracts : status[k] = "SIGN_PENDING" ~> status[k] # "SIGN_PENDING"

\* A start request that is not lost ends with the contract at the provider or
\* FAILED, so that the case can be contracted again.
CreatedEnds ==
  \A k \in Contracts :
    status[k] = "CREATED" ~> status[k] # "CREATED" \/ start[k] = "lost"

-----------------------------------------------------------------------------
(* The inductive invariant.  A COMMIT whose acknowledgement is lost leaves a  *)
(* start request that will mark its contract FAILED whatever it has become;   *)
(* what depends on its absence is weakened by CommitAckLost.                  *)

CommitAckLost == "COMMIT_ACK" \in Environment

\* A contract, the request that inserted it and its ids advance together.
RowsOK ==
  \A k \in Contracts :
    /\ status[k] = "NONE" <=> caseOf[k] = NoCase
    /\ status[k] = "NONE" <=> start[k] = "idle"
    /\ start[k] \in {"pdf", "create", "link"} => status[k] = "CREATED"
    /\ start[k] = "fail" => status[k] = "CREATED" \/ CommitAckLost
    /\ k \in linked => status[k] \notin {"NONE", "CREATED"}
    /\ remote[k].valid \subseteq remote[k].signed
    /\ start[k] = "ended" => status[k] # "CREATED"
    /\ status[k] = "SIGN_PENDING" => k \in linked

\* A loan is its case's, on the case's terms, and was signed for.
LendingOK ==
  /\ \A l \in loans :
       /\ caseOf[l.contract] = l.case
       /\ l.refinances = CaseData[l.case].refinances
       /\ status[l.contract] = "SIGNED" \/ CommitAckLost
  /\ \A k \in Contracts :
       status[k] = "SIGNED" => Signers(caseOf[k]) \subseteq remote[k].valid
  /\ SignedHasLoan
  /\ OneLoanPerCase
  /\ OneRefinancePerLoan

\* Who signed, and what a signature's webhook can say: it is about a signer of
\* the contract's case whose signature the provider holds, and never carries a
\* status that would cancel or refuse the contract.
SignaturesOK ==
  /\ TitularSignatureIsHis
  /\ \A k \in Contracts : remote[k].doc # "none" => caseOf[k] # NoCase
  /\ \A e \in events :
       /\ caseOf[e.contract] # NoCase
       /\ e.action = "DS" =>
            /\ e.signer \in Signers(caseOf[e.contract]) \intersect remote[e.contract].signed
            /\ e.newStatus \in {"none", "CO", "PE"}

\* The one notification of a case's loan is under way, received, or lost.
NoticesOK ==
  \A c \in Cases :
    /\ LoansOf(c) = {} => notified[c] = 0 /\ SignedNotices(c) = {}
    /\ notified[c] = 0 \/ (notified[c] = 1 /\ SignedNotices(c) = {})
    /\ \A m, n \in SignedNotices(c) : m = n

IInv ==
  /\ TypeOK /\ RowsOK /\ OneActiveContractPerCase
  /\ LendingOK /\ SignaturesOK /\ NoticesOK

-----------------------------------------------------------------------------
(* Implementation of the abstract specification. *)

PhaseOf(st) ==
  CASE st = "NONE" -> "none"
    [] st \in ActiveStatus -> "open"
    [] st = "SIGNED" -> "signed"
    [] OTHER -> "closed"

Issuance == INSTANCE LoanIssuance WITH
  phase <- [k \in Contracts |-> PhaseOf(status[k])],
  owner <- caseOf,
  lent <- {[contract |-> l.contract, case |-> l.case] : l \in loans}

\* Requests, webhooks, cron, crashes and notifications together do what
\* LoanIssuance says and nothing else to contracts and loans.
ImplementsLoanIssuance == Issuance!Spec

=============================================================================
