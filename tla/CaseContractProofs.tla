-------------------------- MODULE CaseContractProofs --------------------------
(***************************************************************************)
(* Theorems about CaseContract, for every set of cases, every set of       *)
(* contracts and every environment.                                        *)
(***************************************************************************)
EXTENDS CaseContract, FiniteSetTheorems, TLAPS

LEMMA SignersType == \A c : Signers(c) \subseteq Signer /\ Signers(c) # {}
  BY DEF Signers, Signer

LEMMA EventStatusType ==
  ASSUME NEW e \in Event
  PROVE  EventDoc(e) \in ProviderStatus /\ EventSig(e) \in ProviderStatus
  BY DEF EventDoc, EventSig, Coalesce, Event, ProviderStatus

\* What the webhook handler stores in the provider's columns is a status.
LEMMA TrackingType ==
  ASSUME TypeOK, NEW e \in events
  PROVE  LET T == [doc : ProviderStatus, sig : ProviderStatus, sigCodeudor : ProviderStatus]
         IN  /\ ProviderTracking(e) \in T
             /\ ClosedTracking(e) \in T
             /\ FinalTracking(e) \in T
             /\ e.contract \in Contracts
  <1> DEFINE T == [doc : ProviderStatus, sig : ProviderStatus, sigCodeudor : ProviderStatus]
  <1>1. e \in Event /\ e.contract \in Contracts
    BY DEF TypeOK, Event
  <1>2. EventDoc(e) \in ProviderStatus /\ EventSig(e) \in ProviderStatus
    BY <1>1, EventStatusType
  <1>3. tracked[e.contract] \in T /\ remote[e.contract] \in Document
    BY <1>1 DEF TypeOK
  <1>4. ProviderTracking(e) \in T
    BY <1>2, <1>3 DEF ProviderTracking, Coalesce
  <1>5. EffectiveDoc(e) \in ProviderStatus /\ EffectiveSig(e) \in ProviderStatus
    BY <1>2, <1>4 DEF EffectiveDoc, EffectiveSig, Coalesce
  <1>6. RemoteSignature(e.contract, "TITULAR") \in ProviderStatus
    BY DEF RemoteSignature, ProviderStatus
  <1> QED
    BY <1>1, <1>3, <1>4, <1>5, <1>6 DEF ClosedTracking, FinalTracking, Document

\* A document stays a document when the provider updates it.
LEMMA DocumentUpdate ==
  \A x \in Document, d \in ProviderStatus, S, V \in SUBSET Signer :
    /\ [x EXCEPT !.declined = S] \in Document
    /\ [x EXCEPT !.doc = d, !.signed = S, !.valid = V] \in Document
  BY DEF Document

LEMMA DocStatusUpdate ==
  ASSUME remote \in [Contracts -> Document], NEW k \in Contracts, NEW d \in ProviderStatus,
         remote' = [remote EXCEPT ![k].doc = d]
  PROVE  remote' \in [Contracts -> Document]
  BY DEF Document

LEMMA InitTypeOK == Init => TypeOK
  BY CaseContractAssumption DEF Init, TypeOK, Status, StartPhase, ProviderStatus, Document, Signer

LEMMA StartTypeOK ==
  ASSUME TypeOK, NEW k \in Contracts, StartContract(k)
  PROVE  TypeOK'
  <1> USE DEF TypeOK, Status, StartPhase
  <1>1. ASSUME NEW c \in Cases, InsertContract(c, k) PROVE TypeOK'
    BY <1>1 DEF InsertContract, extVars
  <1>2. ASSUME GeneratePdf(k) \/ GeneratePdfFails(k) PROVE TypeOK'
    BY <1>2 DEF GeneratePdf, GeneratePdfFails, dbVars, extVars
  <1>3. ASSUME CreateDocument(k) \/ CreateDocumentFails(k) PROVE TypeOK'
    <2>1. PICK d \in {"none", "PE"} : remote' = [remote EXCEPT ![k].doc = d]
      BY <1>3 DEF CreateDocument, CreateDocumentFails
    <2>2. d \in ProviderStatus
      BY DEF ProviderStatus
    <2>3. remote' \in [Contracts -> Document]
      BY <2>1, <2>2, DocStatusUpdate
    <2> QED
      BY <1>3, <2>3 DEF CreateDocument, CreateDocumentFails, dbVars
  <1>4. ASSUME SignPendingRow(k), start' \in [Contracts -> StartPhase] PROVE TypeOK'
    BY <1>4 DEF SignPendingRow, ProviderStatus, extVars
  <1>5. ASSUME MarkSignPending(k) \/ MarkSignPendingFails(k) PROVE TypeOK'
    BY <1>5, <1>4 DEF MarkSignPending, MarkSignPendingFails, dbVars, extVars
  <1>6. ASSUME MarkStartFailed(k) \/ MarkStartFailedFails(k) PROVE TypeOK'
    BY <1>6 DEF MarkStartFailed, MarkStartFailedFails, dbVars, extVars
  <1> QED
    BY <1>1, <1>2, <1>3, <1>5, <1>6 DEF StartContract

LEMMA ProviderTypeOK ==
  ASSUME TypeOK, NEW k \in Contracts, Provider(k)
  PROVE  TypeOK'
  <1> USE DEF TypeOK
  <1>1. ASSUME NEW s \in Signer, SignerSigns(k, s) PROVE TypeOK'
    <2>1. events' \subseteq Event
      BY <1>1 DEF SignerSigns, Emit, Event, ProviderStatus
    <2>2. PICK ok \in {{}, {s}}, d \in {"CO", "PE"} :
            remote' = [remote EXCEPT ![k] =
               [@ EXCEPT !.doc = d, !.signed = remote[k].signed \union {s},
                         !.valid = remote[k].valid \union ok]]
      BY <1>1 DEF SignerSigns
    <2>3. remote[k].signed \union {s} \subseteq Signer /\ remote[k].valid \union ok \subseteq Signer
      BY DEF Document
    <2> DEFINE x == [remote[k] EXCEPT !.doc = d, !.signed = remote[k].signed \union {s},
                                      !.valid = remote[k].valid \union ok]
    <2>4. x \in Document
      <3>1. remote[k] \in Document /\ d \in ProviderStatus
        BY DEF ProviderStatus
      <3> QED
        BY <2>3, <3>1, DocumentUpdate
    <2>5. remote' = [remote EXCEPT ![k] = x]
      BY <2>2
    <2>6. remote' \in [Contracts -> Document]
      <3> HIDE DEF x
      <3> QED BY <2>4, <2>5
    <2> QED
      BY <1>1, <2>1, <2>6 DEF SignerSigns, dbVars, appVars
  <1>2. ASSUME NEW s \in Signer, SignerDeclines(k, s) PROVE TypeOK'
    <2>1. remote' \in [Contracts -> Document]
      <3> DEFINE x == [remote[k] EXCEPT !.declined = {s}]
      <3>1. remote[k] \in Document /\ {s} \in SUBSET Signer
        OBVIOUS
      <3>2. x \in Document
        BY <3>1, DocumentUpdate DEF ProviderStatus
      <3>3. remote' = [remote EXCEPT ![k] = x]
        BY <1>2 DEF SignerDeclines
      <3> HIDE DEF x
      <3> QED
        BY <3>2, <3>3
    <2>2. events' \subseteq Event
      BY <1>2 DEF SignerDeclines, Emit, Event, ProviderStatus
    <2> QED
      BY <1>2, <2>1, <2>2 DEF SignerDeclines, dbVars, appVars
  <1>3. ASSUME ProviderCloses(k) PROVE TypeOK'
    <2>1. PICK d \in {"CA", "ER"} : /\ remote' = [remote EXCEPT ![k].doc = d]
                                     /\ Emit(k, "none", "DC", d)
      BY <1>3 DEF ProviderCloses
    <2>2. remote' \in [Contracts -> Document]
      BY <2>1, DocStatusUpdate DEF ProviderStatus
    <2>3. events' \subseteq Event
      BY <2>1 DEF Emit, Event, ProviderStatus
    <2> QED
      BY <1>3, <2>2, <2>3 DEF ProviderCloses, dbVars, appVars
  <1> QED
    BY <1>1, <1>2, <1>3 DEF Provider

LEMMA WebhookTypeOK ==
  ASSUME TypeOK, NEW e \in events, HandleSignaturaWebhook(e), \A k \in linked : caseOf[k] \in Cases
  PROVE  TypeOK'
  <1> USE DEF TypeOK, Status
  <1>0. /\ e.contract \in Contracts
        /\ ProviderTracking(e) \in [doc : ProviderStatus, sig : ProviderStatus, sigCodeudor : ProviderStatus]
        /\ ClosedTracking(e) \in [doc : ProviderStatus, sig : ProviderStatus, sigCodeudor : ProviderStatus]
        /\ FinalTracking(e) \in [doc : ProviderStatus, sig : ProviderStatus, sigCodeudor : ProviderStatus]
    BY TrackingType
  <1>1. ASSUME UNCHANGED vars PROVE TypeOK'
    BY <1>1 DEF vars, dbVars, appVars, extVars
  <1>2. ASSUME WebhookOnClosed(e) \/ WebhookWaits(e) PROVE TypeOK'
    BY <1>0, <1>2 DEF WebhookOnClosed, WebhookWaits, appVars, extVars
  <1>3. ASSUME WebhookCancels(e) PROVE TypeOK'
    BY <1>0, <1>3 DEF WebhookCancels, appVars, extVars
  <1>4. ASSUME Pending(e) PROVE caseOf[e.contract] \in Cases
    BY <1>4 DEF Pending, Known
  <1>5. ASSUME Pending(e), NEW s \in Source PROVE NoticeOf(e.contract, s) \in Notice
    BY <1>0, <1>4, <1>5 DEF NoticeOf, Notice
  <1>6. ASSUME WebhookRejects(e) \/ WebhookInvalid(e) PROVE TypeOK'
    BY <1>0, <1>5, <1>6 DEF WebhookRejects, WebhookInvalid, Undecided, Source, extVars
  <1>7. ASSUME WebhookSigns(e) PROVE TypeOK'
    <2>1. Pending(e) /\ caseOf[e.contract] \in Cases
      BY <1>4, <1>7 DEF WebhookSigns, Undecided
    <2>2. loans' \subseteq Loan
      BY <1>0, <1>7, <2>1, CaseContractAssumption
      DEF WebhookSigns, CreateLoanIfEligible, NewLoan, Loan, CaseRow
    <2>3. outbox' \subseteq Notice
      BY <1>5, <1>7, <2>1 DEF WebhookSigns, CreateLoanIfEligible, Source
    <2> QED
      BY <1>0, <1>7, <2>2, <2>3 DEF WebhookSigns, extVars
  <1> QED
    BY <1>1, <1>2, <1>3, <1>6, <1>7
    DEF HandleSignaturaWebhook, WebhookNotFound, WebhookOnSigned, WebhookRolledBack

LEMMA JobsTypeOK ==
  ASSUME TypeOK, \/ \E c \in Cases : CompleteContractData(c)
                 \/ \E k \in Contracts : ExpiresAtPasses(k) \/ CancelExpiredRemotely(k)
                 \/ ExpirePendingContracts
                 \/ \E m \in outbox : Notify(m)
                 \/ Crash
  PROVE  TypeOK'
  <1> USE DEF TypeOK, Status, StartPhase
  <1>1. ASSUME NEW c \in Cases, CompleteContractData(c) PROVE TypeOK'
    BY <1>1 DEF CompleteContractData, appVars, extVars
  <1>2. ASSUME NEW k \in Contracts, ExpiresAtPasses(k) PROVE TypeOK'
    BY <1>2 DEF ExpiresAtPasses, appVars, extVars
  <1>3. ASSUME NEW k \in Contracts, CancelExpiredRemotely(k) PROVE TypeOK'
    <2>1. CASE UNCHANGED <<remote, events>>
      BY <1>3, <2>1 DEF CancelExpiredRemotely, dbVars
    <2>2. CASE remote' = [remote EXCEPT ![k].doc = "CA"] /\ Emit(k, "none", "DC", "CA")
      <3>1. remote' \in [Contracts -> Document]
        BY <2>2, DocStatusUpdate DEF ProviderStatus
      <3>2. events' \subseteq Event
        BY <2>2 DEF Emit, Event, ProviderStatus
      <3> QED
        BY <1>3, <3>1, <3>2 DEF CancelExpiredRemotely, dbVars
    <2> QED
      BY <1>3, <2>1, <2>2 DEF CancelExpiredRemotely, CancelDocument
  <1>4. ASSUME ExpirePendingContracts PROVE TypeOK'
    BY <1>4 DEF ExpirePendingContracts, Expirable, extVars
  <1>5. ASSUME NEW m \in outbox, Notify(m) PROVE TypeOK'
    <2>1. m.case \in Cases
      BY DEF Notice
    <2>2. notified' \in [Cases -> Nat]
      BY <1>5, <2>1 DEF Notify
    <2> QED
      BY <1>5, <2>2 DEF Notify, dbVars
  <1>6. ASSUME Crash PROVE TypeOK'
    BY <1>6 DEF Crash, dbVars, extVars
  <1> QED
    BY <1>1, <1>2, <1>3, <1>4, <1>5, <1>6

LEMMA NextTypeOK ==
  ASSUME TypeOK, RowsOK, [Next]_vars
  PROVE  TypeOK'
  <1>1. ASSUME NEW e \in events, HandleSignaturaWebhook(e) PROVE TypeOK'
    <2>1. \A k \in linked : caseOf[k] \in Cases
      BY DEF TypeOK, RowsOK
    <2> QED
      BY <1>1, <2>1, WebhookTypeOK
  <1>2. ASSUME UNCHANGED vars PROVE TypeOK'
    BY <1>2 DEF TypeOK, vars, dbVars, appVars, extVars
  <1> QED
    BY <1>1, <1>2, StartTypeOK, ProviderTypeOK, JobsTypeOK DEF Next

-----------------------------------------------------------------------------
(* Three kinds of steps: one opens a contract, one signs it and lends, and   *)
(* every other step is quiet.                                                *)

Quiet ==
  /\ caseOf' = caseOf
  /\ loans' = loans
  /\ \A k \in Contracts :
       /\ status'[k] = "NONE" <=> status[k] = "NONE"
       /\ status'[k] \in ActiveStatus => status[k] \in ActiveStatus
       /\ status'[k] = "SIGNED" => status[k] = "SIGNED"
       /\ status[k] \in {"SIGNED", "CANCELED", "FAILED"}
            => status'[k] = status[k] \/ CommitAckLost
       /\ remote[k].signed \subseteq remote'[k].signed
       /\ remote[k].valid \subseteq remote'[k].valid

LEMMA QuietIfSame ==
  ASSUME UNCHANGED <<caseOf, loans, status, remote>>
  PROVE  Quiet
  BY DEF Quiet

\* A start request after its insert moves its own contract only.
LEMMA StartQuiet ==
  ASSUME TypeOK, RowsOK, NEW k \in Contracts, StartContract(k),
         \A c \in Cases : ~InsertContract(c, k)
  PROVE  Quiet /\ RowsOK'
  <1> USE DEF TypeOK
  <1>1. ASSUME GeneratePdf(k) \/ GeneratePdfFails(k) \/ MarkStartFailedFails(k)
        PROVE Quiet /\ RowsOK'
    BY <1>1, QuietIfSame
    DEF GeneratePdf, GeneratePdfFails, MarkStartFailedFails, dbVars, extVars, RowsOK
  <1>2. ASSUME CreateDocument(k) \/ CreateDocumentFails(k) PROVE Quiet /\ RowsOK'
    <2>1. PICK d : remote' = [remote EXCEPT ![k].doc = d]
      BY <1>2 DEF CreateDocument, CreateDocumentFails
    <2>2. \A m \in Contracts : remote'[m].signed = remote[m].signed /\ remote'[m].valid = remote[m].valid
      BY <2>1 DEF Document
    <2> QED
      BY <1>2, <2>2 DEF CreateDocument, CreateDocumentFails, dbVars, Quiet, RowsOK
  <1>3. ASSUME MarkSignPending(k) \/ MarkSignPendingFails(k) PROVE Quiet /\ RowsOK'
    <2>1. start[k] = "link" /\ status[k] = "CREATED"
      BY <1>3 DEF MarkSignPending, MarkSignPendingFails, RowsOK
    <2>2. CASE UNCHANGED <<dbVars, cancelQueue, outbox, extVars>> /\ start' = [start EXCEPT ![k] = "fail"]
      BY <2>1, <2>2, QuietIfSame DEF dbVars, extVars, RowsOK
    <2>3. ASSUME NEW p \in {"ended", "fail"}, start' = [start EXCEPT ![k] = p],
                 p = "fail" => CommitAckLost, SignPendingRow(k)
          PROVE  Quiet /\ RowsOK'
      <3>1. UNCHANGED <<caseOf, loans, remote>>
        BY <2>3 DEF SignPendingRow, extVars
      <3>2. status' = [status EXCEPT ![k] = "SIGN_PENDING"] /\ linked' = linked \union {k}
        BY <2>3 DEF SignPendingRow
      <3>3. Quiet
        BY <2>1, <3>1, <3>2 DEF Quiet, ActiveStatus
      <3>4. RowsOK'
        BY <2>1, <2>3, <3>1, <3>2 DEF RowsOK, CommitAckLost
      <3> QED
        BY <3>3, <3>4
    <2> QED
      BY <1>3, <2>2, <2>3 DEF MarkSignPending, MarkSignPendingFails, CommitAckLost
  <1>4. ASSUME MarkStartFailed(k) PROVE Quiet /\ RowsOK'
    BY <1>4 DEF MarkStartFailed, extVars, Quiet, RowsOK, ActiveStatus
  <1> QED
    BY <1>1, <1>2, <1>3, <1>4 DEF StartContract

LEMMA ProviderQuiet ==
  ASSUME TypeOK, RowsOK, NEW k \in Contracts, Provider(k)
  PROVE  Quiet /\ RowsOK'
  <1> USE DEF TypeOK
  <1>1. UNCHANGED <<dbVars, appVars>>
    BY DEF Provider, SignerSigns, SignerDeclines, ProviderCloses
  <1>2. \A m \in Contracts : /\ remote[m].signed \subseteq remote'[m].signed
                             /\ remote[m].valid \subseteq remote'[m].valid
                             /\ remote'[m].valid \subseteq remote'[m].signed
    <2>1. ASSUME NEW s \in Signer, SignerSigns(k, s) PROVE <1>2
      <3>1. PICK ok \in {{}, {s}}, d \in {"CO", "PE"} :
              remote' = [remote EXCEPT ![k] =
                 [@ EXCEPT !.doc = d, !.signed = remote[k].signed \union {s},
                           !.valid = remote[k].valid \union ok]]
        BY <2>1 DEF SignerSigns
      <3> QED
        BY <3>1 DEF Document, RowsOK
    <2>2. ASSUME NEW s \in Signer, SignerDeclines(k, s) PROVE <1>2
      BY <2>2 DEF SignerDeclines, Document, RowsOK
    <2>3. ASSUME ProviderCloses(k) PROVE <1>2
      <3>1. PICK d : remote' = [remote EXCEPT ![k].doc = d]
        BY <2>3 DEF ProviderCloses
      <3> QED
        BY <3>1 DEF Document, RowsOK
    <2> QED
      BY <2>1, <2>2, <2>3 DEF Provider
  <1> QED
    BY <1>1, <1>2 DEF dbVars, appVars, Quiet, RowsOK

LEMMA JobsQuiet ==
  ASSUME TypeOK, RowsOK, \/ \E c \in Cases : CompleteContractData(c)
                         \/ \E k \in Contracts : ExpiresAtPasses(k) \/ CancelExpiredRemotely(k)
                         \/ ExpirePendingContracts
                         \/ \E m \in outbox : Notify(m)
                         \/ Crash
  PROVE  Quiet /\ RowsOK'
  <1> USE DEF TypeOK
  <1>1. ASSUME \/ \E c \in Cases : CompleteContractData(c)
               \/ \E k \in Contracts : ExpiresAtPasses(k)
               \/ \E m \in outbox : Notify(m)
        PROVE  Quiet /\ RowsOK'
    <2>1. UNCHANGED <<caseOf, loans, status, remote, start, linked>>
      BY <1>1 DEF CompleteContractData, ExpiresAtPasses, Notify, appVars, extVars, dbVars
    <2> QED
      BY <2>1, QuietIfSame DEF RowsOK
  <1>2. ASSUME NEW k \in Contracts, CancelExpiredRemotely(k) PROVE Quiet /\ RowsOK'
    <2>1. \A m \in Contracts : remote'[m].signed = remote[m].signed /\ remote'[m].valid = remote[m].valid
      BY <1>2 DEF CancelExpiredRemotely, CancelDocument, Document
    <2> QED
      BY <1>2, <2>1 DEF CancelExpiredRemotely, CancelDocument, dbVars, Quiet, RowsOK
  <1>3. ASSUME ExpirePendingContracts PROVE Quiet /\ RowsOK'
    BY <1>3 DEF ExpirePendingContracts, Expirable, extVars, Quiet, RowsOK, ActiveStatus
  <1>4. ASSUME Crash PROVE Quiet /\ RowsOK'
    BY <1>4, QuietIfSame DEF Crash, InProgress, dbVars, extVars, RowsOK, StartPhase
  <1> QED
    BY <1>1, <1>2, <1>3, <1>4

\* A webhook that does not sign closes the pending contract or leaves it.
LEMMA WebhookQuiet ==
  ASSUME TypeOK, RowsOK, NEW e \in events, HandleSignaturaWebhook(e), ~WebhookSigns(e)
  PROVE  Quiet /\ RowsOK'
  <1> USE DEF TypeOK
  <1>0. e.contract \in Contracts
    BY DEF Event
  <1>1. ASSUME UNCHANGED vars PROVE Quiet /\ RowsOK'
    BY <1>1, QuietIfSame DEF vars, dbVars, appVars, extVars, RowsOK
  <1>2. ASSUME WebhookOnClosed(e) \/ WebhookWaits(e) PROVE Quiet /\ RowsOK'
    BY <1>2, QuietIfSame DEF WebhookOnClosed, WebhookWaits, appVars, extVars, RowsOK
  <1>3. ASSUME WebhookCancels(e) \/ WebhookRejects(e) \/ WebhookInvalid(e)
        PROVE Quiet /\ RowsOK'
    <2>1. PICK st \in {"CANCELED", "FAILED"} : status' = [status EXCEPT ![e.contract] = st]
      BY <1>3 DEF WebhookCancels, WebhookRejects, WebhookInvalid
    <2>2. status[e.contract] = "SIGN_PENDING"
      BY <1>3 DEF WebhookCancels, WebhookRejects, WebhookInvalid, Undecided, Pending
    <2>3. UNCHANGED <<caseOf, loans, remote, start, linked>>
      BY <1>3 DEF WebhookCancels, WebhookRejects, WebhookInvalid, appVars, extVars
    <2> QED
      BY <1>0, <2>1, <2>2, <2>3 DEF Quiet, RowsOK, ActiveStatus
  <1> QED
    BY <1>1, <1>2, <1>3
    DEF HandleSignaturaWebhook, WebhookNotFound, WebhookOnSigned, WebhookRolledBack

LEMMA InsertEffect ==
  ASSUME TypeOK, RowsOK, NEW c \in Cases, NEW k \in Contracts, InsertContract(c, k)
  PROVE  /\ RowsOK'
         /\ status' = [status EXCEPT ![k] = "CREATED"] /\ status[k] = "NONE"
         /\ caseOf' = [caseOf EXCEPT ![k] = c] /\ caseOf[k] = NoCase
         /\ loans' = loans /\ remote' = remote
  <1>1. /\ status' = [status EXCEPT ![k] = "CREATED"] /\ status[k] = "NONE"
        /\ caseOf' = [caseOf EXCEPT ![k] = c]
        /\ start' = [start EXCEPT ![k] = "pdf"]
        /\ loans' = loans /\ remote' = remote /\ linked' = linked
    BY DEF InsertContract, extVars
  <1>2. caseOf[k] = NoCase /\ c # NoCase /\ k \notin linked
    BY <1>1, CaseContractAssumption DEF RowsOK
  <1>3. RowsOK'
    BY <1>1, <1>2 DEF RowsOK, TypeOK
  <1> QED
    BY <1>1, <1>2, <1>3

LEMMA SignEffect ==
  ASSUME TypeOK, RowsOK, NEW e \in events, WebhookSigns(e)
  PROVE  LET k == e.contract
             c == caseOf[k]
         IN  /\ RowsOK'
             /\ k \in Contracts /\ c \in Cases
             /\ status[k] = "SIGN_PENDING" /\ status' = [status EXCEPT ![k] = "SIGNED"]
             /\ caseOf' = caseOf /\ remote' = remote
             /\ Signers(c) \subseteq remote[k].valid
             /\ \/ LoansOf(c) # {} /\ loans' = loans
                \/ /\ LoansOf(c) = {}
                   /\ ~RefinanceTaken(c)
                   /\ loans' = loans \union
                        {[contract |-> k, case |-> c, refinances |-> CaseData[c].refinances]}
  <1> DEFINE k == e.contract
             c == caseOf[k]
  <1>1. k \in Contracts
    BY DEF TypeOK, Event
  <1>2. k \in linked /\ status[k] = "SIGN_PENDING"
    BY DEF WebhookSigns, Undecided, Pending, Known
  <1>3. status' = [status EXCEPT ![k] = "SIGNED"]
    BY DEF WebhookSigns
  <1>4. UNCHANGED <<caseOf, remote, linked, start>>
    BY DEF WebhookSigns, extVars
  <1>5. c \in Cases
    BY <1>1, <1>2 DEF TypeOK, RowsOK
  <1>6. RowsOK'
    BY <1>1, <1>2, <1>3, <1>4 DEF TypeOK, RowsOK
  <1>7. Signers(c) \subseteq remote[k].valid
    BY DEF WebhookSigns, IdentitiesValid, TitularIdentityValid, GuarantorIdentityValid,
           HasCodeudor, Signers, Signer
  <1> QED
    BY <1>1, <1>2, <1>3, <1>4, <1>5, <1>6, <1>7 DEF WebhookSigns, CreateLoanIfEligible, NewLoan

LEMMA StepKinds ==
  ASSUME TypeOK, RowsOK, [Next]_vars
  PROVE  /\ RowsOK'
         /\ \/ Quiet
            \/ \E c \in Cases, k \in Contracts : InsertContract(c, k)
            \/ \E e \in events : WebhookSigns(e)
  <1>1. ASSUME NEW k \in Contracts, StartContract(k)
        PROVE  RowsOK' /\ (Quiet \/ \E c \in Cases : InsertContract(c, k))
    BY <1>1, StartQuiet, InsertEffect
  <1>2. ASSUME NEW e \in events, HandleSignaturaWebhook(e)
        PROVE  RowsOK' /\ (Quiet \/ WebhookSigns(e))
    BY <1>2, WebhookQuiet, SignEffect
  <1>3. ASSUME UNCHANGED vars PROVE RowsOK' /\ Quiet
    BY <1>3, QuietIfSame DEF vars, dbVars, appVars, extVars, RowsOK
  <1> QED
    BY <1>1, <1>2, <1>3, ProviderQuiet, JobsQuiet DEF Next

-----------------------------------------------------------------------------
(* The inductive invariant. *)

LEMMA OneActiveStep ==
  ASSUME TypeOK, RowsOK, OneActiveContractPerCase, [Next]_vars
  PROVE  OneActiveContractPerCase'
  <1> USE DEF TypeOK, OneActiveContractPerCase
  <1>1. CASE Quiet
    BY <1>1 DEF Quiet
  <1>2. ASSUME NEW c \in Cases, NEW k \in Contracts, InsertContract(c, k)
        PROVE  OneActiveContractPerCase'
    <2>1. \A m \in Contracts : caseOf[m] = c => status[m] \notin ActiveStatus
      BY <1>2 DEF InsertContract, HasActiveContract
    <2> QED
      BY <1>2, <2>1, InsertEffect
  <1>3. ASSUME NEW e \in events, WebhookSigns(e) PROVE OneActiveContractPerCase'
    <2>1. "SIGNED" \notin ActiveStatus
      BY DEF ActiveStatus
    <2> QED
      BY <1>3, <2>1, SignEffect
  <1> QED
    BY <1>1, <1>2, <1>3, StepKinds

LEMMA LendingStep ==
  ASSUME TypeOK, RowsOK, LendingOK, [Next]_vars
  PROVE  LendingOK'
  <1> USE DEF TypeOK
  <1>0. \A l \in loans : l.contract \in Contracts /\ l.case \in Cases
    BY DEF Loan
  <1>1. CASE Quiet
    BY <1>0, <1>1 DEF Quiet, LendingOK, SignedHasLoan, LoansOf, OneLoanPerCase,
       OneRefinancePerLoan, CommitAckLost
  <1>2. ASSUME NEW c \in Cases, NEW k \in Contracts, InsertContract(c, k)
        PROVE  LendingOK'
    <2>1. \A l \in loans : l.contract # k
      BY <1>0, <1>2, InsertEffect, CaseContractAssumption DEF LendingOK
    <2>2. /\ status' = [status EXCEPT ![k] = "CREATED"]
          /\ caseOf' = [caseOf EXCEPT ![k] = c]
          /\ loans' = loans /\ remote' = remote
      BY <1>2, InsertEffect
    <2>3. \A l \in loans : /\ caseOf'[l.contract] = caseOf[l.contract]
                           /\ status'[l.contract] = status[l.contract]
      BY <1>0, <2>1, <2>2
    <2>4. \A m \in Contracts : status'[m] = "SIGNED" => status[m] = "SIGNED" /\ caseOf'[m] = caseOf[m]
      BY <2>2
    <2>5. OneLoanPerCase' /\ OneRefinancePerLoan'
      BY <2>2 DEF LendingOK, OneLoanPerCase, OneRefinancePerLoan
    <2>6. SignedHasLoan'
      BY <2>2, <2>4 DEF LendingOK, SignedHasLoan, LoansOf
    <2> QED
      BY <2>2, <2>3, <2>4, <2>5, <2>6 DEF LendingOK, CommitAckLost
  <1>3. ASSUME NEW e \in events, WebhookSigns(e) PROVE LendingOK'
    <2> DEFINE k == e.contract
               c == caseOf[k]
               n == [contract |-> k, case |-> c, refinances |-> CaseData[c].refinances]
    <2>1. /\ k \in Contracts /\ c \in Cases
          /\ status' = [status EXCEPT ![k] = "SIGNED"]
          /\ caseOf' = caseOf /\ remote' = remote
          /\ Signers(c) \subseteq remote[k].valid
      BY <1>3, SignEffect
    <2>2. CASE LoansOf(c) # {} /\ loans' = loans
      BY <1>0, <2>1, <2>2
      DEF LendingOK, SignedHasLoan, LoansOf, OneLoanPerCase, OneRefinancePerLoan, CommitAckLost
    <2>3. CASE LoansOf(c) = {} /\ ~RefinanceTaken(c) /\ loans' = loans \union {n}
      <3>1. \A l \in loans' : /\ caseOf'[l.contract] = l.case
                              /\ l.refinances = CaseData[l.case].refinances
                              /\ status'[l.contract] = "SIGNED" \/ CommitAckLost
        BY <1>0, <2>1, <2>3 DEF LendingOK
      <3>2. OneLoanPerCase'
        BY <2>3 DEF LendingOK, OneLoanPerCase, LoansOf
      <3>3. ASSUME NEW l \in loans, l.refinances = n.refinances PROVE n.refinances = NoLoan
        BY <2>1, <2>3, <3>3, CaseContractAssumption DEF RefinanceTaken, CaseRow
      <3>4. OneRefinancePerLoan'
        BY <2>3, <3>3 DEF LendingOK, OneRefinancePerLoan
      <3>5. SignedHasLoan'
        <4>1. ASSUME NEW m \in Contracts, status'[m] = "SIGNED"
              PROVE  \E l \in loans' : l.case = caseOf[m]
          <5>1. CASE m = k
            <6>1. n \in loans' /\ n.case = caseOf[m]
              BY <2>3, <5>1
            <6> QED
              BY <6>1
          <5>2. CASE m # k
            BY <2>1, <2>3, <4>1, <5>2 DEF LendingOK, SignedHasLoan, LoansOf
          <5> QED
            BY <5>1, <5>2
        <4> QED
          BY <2>1, <4>1 DEF SignedHasLoan, LoansOf
      <3> QED
        BY <2>1, <3>1, <3>2, <3>4, <3>5 DEF LendingOK, CommitAckLost, Signers
    <2> QED
      BY <1>3, <2>2, <2>3, SignEffect
  <1> QED
    BY <1>1, <1>2, <1>3, StepKinds

-----------------------------------------------------------------------------
(* Signatures: what the provider's documents, its webhooks and the tracking   *)
(* columns say of who signed.                                                 *)

\* Signatures are never taken back and a contract keeps its case.
LEMMA SignedGrows ==
  ASSUME TypeOK, RowsOK, [Next]_vars
  PROVE  /\ loans \subseteq loans'
         /\ \A k \in Contracts :
              /\ remote[k].signed \subseteq remote'[k].signed
              /\ caseOf[k] # NoCase => caseOf'[k] = caseOf[k]
  <1> USE DEF TypeOK
  <1>1. CASE Quiet
    BY <1>1 DEF Quiet
  <1>2. ASSUME NEW c \in Cases, NEW m \in Contracts, InsertContract(c, m)
        PROVE  /\ remote' = remote /\ loans' = loans
               /\ \A k \in Contracts : caseOf[k] # NoCase => caseOf'[k] = caseOf[k]
    BY <1>2, InsertEffect
  <1>3. ASSUME NEW e \in events, WebhookSigns(e)
        PROVE  remote' = remote /\ loans \subseteq loans' /\ caseOf' = caseOf
    BY <1>3, SignEffect
  <1> QED
    BY <1>1, <1>2, <1>3, StepKinds

\* A webhook about the titular's columns that reports a signature is his.
LEMMA SignatureEvent ==
  ASSUME TypeOK, SignaturesOK, NEW e \in events, EventSig(e) = "CO"
  PROVE  /\ e.action = "DS"
         /\ SignerTarget(e) = "TITULAR" => "TITULAR" \in remote[e.contract].signed
         /\ ~IsProviderCanceled(e) /\ ~IsProviderRejected(e)
  <1>1. e \in Event /\ e.contract \in Contracts
    BY DEF TypeOK, Event
  <1>2. e.action = "DS"
    BY DEF EventSig
  <1>3. /\ e.signer \in Signers(caseOf[e.contract]) \intersect remote[e.contract].signed
        /\ e.newStatus \in {"none", "CO", "PE"}
    BY <1>2 DEF SignaturesOK
  <1>4. SignerTarget(e) = "TITULAR" => e.signer = "TITULAR"
    BY <1>3 DEF SignerTarget, HasCodeudor, Signers, Signer
  <1>5. EffectiveDoc(e) \in {"CO", "PE"} /\ EffectiveSig(e) = "CO"
    BY <1>2, <1>3 DEF EffectiveDoc, EffectiveSig, EventDoc, Coalesce
  <1> QED
    BY <1>2, <1>3, <1>4, <1>5 DEF IsProviderCanceled, IsProviderRejected

\* No branch of the handler writes a signature into the titular's column that
\* the titular did not give.
LEMMA TrackingTrue ==
  ASSUME TypeOK, SignaturesOK, NEW e \in events
  PROVE  /\ ProviderTracking(e).sig = "CO" => "TITULAR" \in remote[e.contract].signed
         /\ IsProviderCanceled(e) \/ IsProviderRejected(e) =>
              (ClosedTracking(e).sig = "CO" => "TITULAR" \in remote[e.contract].signed)
         /\ FinalTracking(e).sig = "CO" => "TITULAR" \in remote[e.contract].signed
  <1> DEFINE T == [doc : ProviderStatus, sig : ProviderStatus, sigCodeudor : ProviderStatus]
             t == tracked[e.contract]
  <1>1. e.contract \in Contracts /\ t \in T
    BY DEF TypeOK, Event
  <1>2. ProviderTracking(e) \in T
    BY TrackingType
  <1>3. t.sig = "CO" => "TITULAR" \in remote[e.contract].signed
    BY <1>1 DEF SignaturesOK, TitularSignatureIsHis
  <1>4. \/ ProviderTracking(e).sig = t.sig
        \/ SignerTarget(e) = "TITULAR" /\ ProviderTracking(e).sig = EventSig(e)
    BY <1>1 DEF ProviderTracking, Coalesce, SignerTarget
  <1>5. ProviderTracking(e).sig = "CO" => "TITULAR" \in remote[e.contract].signed
    BY <1>3, <1>4, SignatureEvent
  <1>6. ClosedTracking(e).sig = EffectiveSig(e)
    BY <1>2 DEF ClosedTracking
  <1>7. EffectiveSig(e) = EventSig(e) \/ EffectiveSig(e) = ProviderTracking(e).sig
    BY DEF EffectiveSig, Coalesce
  <1>8. FinalTracking(e).sig = RemoteSignature(e.contract, "TITULAR")
    BY <1>2 DEF FinalTracking
  <1> QED
    BY <1>5, <1>6, <1>7, <1>8, SignatureEvent DEF RemoteSignature

LEMMA TitularStep ==
  ASSUME TypeOK, RowsOK, SignaturesOK, [Next]_vars
  PROVE  TitularSignatureIsHis'
  <1> USE DEF TypeOK
  <1> DEFINE Truthful == \A k \in Contracts : tracked'[k].sig = "CO" => "TITULAR" \in remote[k].signed
  <1>1. \A k \in Contracts : remote[k].signed \subseteq remote'[k].signed
    BY SignedGrows
  <1>2. ASSUME UNCHANGED tracked PROVE Truthful
    BY <1>2 DEF SignaturesOK, TitularSignatureIsHis
  <1>3. ASSUME NEW k \in Contracts, StartContract(k) PROVE Truthful
    <2>1. CASE UNCHANGED tracked
      BY <2>1, <1>2
    <2>2. CASE SignPendingRow(k)
      BY <2>2 DEF SignPendingRow, SignaturesOK, TitularSignatureIsHis
    <2> QED
      BY <1>3, <2>1, <2>2
      DEF StartContract, InsertContract, GeneratePdf, GeneratePdfFails, CreateDocument,
          CreateDocumentFails, MarkSignPending, MarkSignPendingFails, MarkStartFailed,
          MarkStartFailedFails, dbVars
  <1>4. ASSUME NEW e \in events, HandleSignaturaWebhook(e) PROVE Truthful
    <2>0. e.contract \in Contracts
      BY DEF Event
    <2>1. ASSUME NEW r, tracked' = [tracked EXCEPT ![e.contract] = r],
                 r.sig = "CO" => "TITULAR" \in remote[e.contract].signed
          PROVE  Truthful
      BY <2>0, <2>1 DEF SignaturesOK, TitularSignatureIsHis
    <2>2. CASE WebhookOnClosed(e) \/ WebhookWaits(e)
      BY <2>1, <2>2, TrackingTrue DEF WebhookOnClosed, WebhookWaits
    <2>3. CASE WebhookCancels(e) \/ WebhookRejects(e)
      BY <2>1, <2>3, TrackingTrue DEF WebhookCancels, WebhookRejects
    <2>4. CASE WebhookInvalid(e) \/ WebhookSigns(e)
      BY <2>1, <2>4, TrackingTrue DEF WebhookInvalid, WebhookSigns
    <2> QED
      BY <1>2, <1>4, <2>2, <2>3, <2>4
      DEF HandleSignaturaWebhook, WebhookNotFound, WebhookOnSigned, WebhookRolledBack, vars, dbVars
  <1>5. Truthful
    BY <1>2, <1>3, <1>4
    DEF Next, Provider, SignerSigns, SignerDeclines, ProviderCloses, CompleteContractData,
        ExpiresAtPasses, CancelExpiredRemotely, ExpirePendingContracts, Notify, Crash, vars, dbVars
  <1> QED
    BY <1>1, <1>5 DEF TitularSignatureIsHis

\* What a step may add to the provider's side: a document of a contract that
\* exists, or an event about one that has a document.
LEMMA ProviderSide ==
  ASSUME TypeOK, RowsOK, SignaturesOK, [Next]_vars
  PROVE  /\ \A k \in Contracts : remote'[k].doc # "none" => caseOf[k] # NoCase
         /\ \A e \in events' \ events :
              /\ caseOf[e.contract] # NoCase
              /\ e.action = "DS" =>
                   /\ e.signer \in Signers(caseOf[e.contract]) \intersect remote'[e.contract].signed
                   /\ e.newStatus \in {"none", "CO", "PE"}
  <1> USE DEF TypeOK
  <1> DEFINE Docs == \A k \in Contracts : remote'[k].doc # "none" => caseOf[k] # NoCase
             News == \A e \in events' \ events :
                       /\ caseOf[e.contract] # NoCase
                       /\ e.action = "DS" =>
                            /\ e.signer \in Signers(caseOf[e.contract]) \intersect remote'[e.contract].signed
                            /\ e.newStatus \in {"none", "CO", "PE"}
  <1>0. \A k \in Contracts : remote[k].doc # "none" => caseOf[k] # NoCase
    BY DEF SignaturesOK
  <1>1. ASSUME UNCHANGED <<remote, events>> PROVE Docs /\ News
    BY <1>0, <1>1
  <1>2. ASSUME NEW k \in Contracts, StartContract(k) PROVE Docs /\ News
    <2>1. CASE CreateDocument(k) \/ CreateDocumentFails(k)
      <3>1. PICK d : remote' = [remote EXCEPT ![k].doc = d]
        BY <2>1 DEF CreateDocument, CreateDocumentFails
      <3>2. start[k] = "create" /\ events' = events
        BY <2>1 DEF CreateDocument, CreateDocumentFails
      <3>3. caseOf[k] # NoCase
        BY <3>2 DEF RowsOK
      <3>4. \A m \in Contracts \ {k} : remote'[m] = remote[m]
        BY <3>1
      <3> QED
        BY <1>0, <3>2, <3>3, <3>4
    <2>2. CASE ~CreateDocument(k) /\ ~CreateDocumentFails(k)
      BY <1>1, <1>2, <2>2
      DEF StartContract, InsertContract, GeneratePdf, GeneratePdfFails, MarkSignPending,
          MarkSignPendingFails, MarkStartFailed, MarkStartFailedFails, SignPendingRow, extVars
    <2> QED
      BY <2>1, <2>2
  <1>3. ASSUME NEW k \in Contracts, caseOf[k] # NoCase, NEW r,
               remote' = [remote EXCEPT ![k] = r] PROVE Docs
    BY <1>0, <1>3
  <1>4. ASSUME NEW k \in Contracts, remote[k].doc = "PE", NEW d, remote' = [remote EXCEPT ![k].doc = d],
               NEW x, Emit(k, "none", "DC", x)
        PROVE  Docs /\ News
    <2>1. caseOf[k] # NoCase
      BY <1>0, <1>4
    <2>2. Docs
      BY <1>3, <1>4, <2>1
    <2> QED
      BY <1>4, <2>1, <2>2 DEF Emit
  <1>5. ASSUME NEW k \in Contracts, NEW s \in Signer, SignerSigns(k, s) PROVE Docs /\ News
    <2>1. PICK ok \in {{}, {s}}, d \in {"CO", "PE"}, n \in {"none", "CO", "PE"} :
            /\ remote' = [remote EXCEPT ![k] =
                 [@ EXCEPT !.doc = d, !.signed = remote[k].signed \union {s},
                           !.valid = remote[k].valid \union ok]]
            /\ Emit(k, s, "DS", n)
      BY <1>5 DEF SignerSigns
    <2>2. remote[k].doc = "PE" /\ s \in Signers(caseOf[k])
      BY <1>5 DEF SignerSigns
    <2>3. caseOf[k] # NoCase
      BY <1>0, <2>2
    <2>4. Docs
      BY <1>3, <2>1, <2>3
    <2>5. s \in remote'[k].signed
      BY <2>1 DEF Document
    <2> QED
      BY <2>1, <2>2, <2>3, <2>4, <2>5 DEF Emit
  <1>6. ASSUME NEW k \in Contracts, NEW s \in Signer, SignerDeclines(k, s) PROVE Docs /\ News
    <2>1. remote[k].doc = "PE" /\ remote' = [remote EXCEPT ![k].declined = {s}] /\ Emit(k, s, "SD", "none")
      BY <1>6 DEF SignerDeclines
    <2>2. caseOf[k] # NoCase
      BY <1>0, <2>1
    <2>3. Docs
      BY <1>3, <2>1, <2>2
    <2> QED
      BY <2>1, <2>2, <2>3 DEF Emit
  <1>7. ASSUME NEW k \in Contracts, Provider(k) PROVE Docs /\ News
    <2>1. CASE ProviderCloses(k)
      BY <1>4, <2>1 DEF ProviderCloses
    <2> QED
      BY <1>5, <1>6, <1>7, <2>1 DEF Provider
  <1>8. ASSUME NEW k \in Contracts, CancelExpiredRemotely(k) PROVE Docs /\ News
    BY <1>1, <1>4, <1>8 DEF CancelExpiredRemotely, CancelDocument
  <1>9. ASSUME NEW e \in events, HandleSignaturaWebhook(e) PROVE UNCHANGED <<remote, events>>
    BY <1>9
    DEF HandleSignaturaWebhook, WebhookNotFound, WebhookOnSigned, WebhookOnClosed, WebhookCancels,
        WebhookRejects, WebhookWaits, WebhookInvalid, WebhookSigns, WebhookRolledBack, vars, extVars
  <1>10. ASSUME \/ \E c \in Cases : CompleteContractData(c)
                \/ \E k \in Contracts : ExpiresAtPasses(k)
                \/ ExpirePendingContracts \/ Crash
                \/ \E m \in outbox : Notify(m)
                \/ UNCHANGED vars
         PROVE  UNCHANGED <<remote, events>>
    BY <1>10
    DEF CompleteContractData, ExpiresAtPasses, ExpirePendingContracts, Crash, Notify, vars, extVars
  <1> HIDE DEF Docs, News
  <1>11. Docs /\ News
    BY <1>1, <1>2, <1>7, <1>8, <1>9, <1>10 DEF Next
  <1> QED
    BY <1>11 DEF Docs, News

LEMMA SignaturesStep ==
  ASSUME TypeOK, RowsOK, SignaturesOK, [Next]_vars
  PROVE  SignaturesOK'
  <1>1. \A e \in events : e.contract \in Contracts
    BY DEF TypeOK, Event
  <1>2. \A k \in Contracts : /\ remote[k].signed \subseteq remote'[k].signed
                             /\ caseOf[k] # NoCase => caseOf'[k] = caseOf[k]
    BY SignedGrows
  <1>3. TypeOK'
    BY NextTypeOK
  <1>4. \A e \in events' : e.contract \in Contracts
    BY <1>3 DEF TypeOK, Event
  <1>5. \A k \in Contracts : remote'[k].doc # "none" => caseOf'[k] # NoCase
    BY <1>2, ProviderSide
  <1>6. ASSUME NEW e \in events'
        PROVE  /\ caseOf'[e.contract] # NoCase
               /\ e.action = "DS" =>
                    /\ e.signer \in Signers(caseOf'[e.contract]) \intersect remote'[e.contract].signed
                    /\ e.newStatus \in {"none", "CO", "PE"}
    <2>1. CASE e \in events
      BY <1>1, <1>2, <2>1 DEF SignaturesOK
    <2>2. CASE e \notin events
      BY <1>2, <1>4, <2>2, ProviderSide
    <2> QED
      BY <2>1, <2>2
  <1> QED
    BY <1>5, <1>6, TitularStep DEF SignaturesOK, Signers, UsesCodeudor, ResolveContractKind, ApprovedGuarantor

-----------------------------------------------------------------------------
(* Notifications. *)

LEMMA NoticesStep ==
  ASSUME TypeOK, RowsOK, NoticesOK, [Next]_vars
  PROVE  NoticesOK'
  <1> USE DEF TypeOK
  <1> DEFINE OK(c) == /\ LoansOf(c) = {} => notified[c] = 0 /\ SignedNotices(c) = {}
                      /\ notified[c] = 0 \/ (notified[c] = 1 /\ SignedNotices(c) = {})
                      /\ \A m, n \in SignedNotices(c) : m = n
  <1> SUFFICES ASSUME NEW c \in Cases PROVE OK(c)'
    BY DEF NoticesOK
  <1>0. OK(c)
    BY DEF NoticesOK
  <1>1. loans \subseteq loans'
    BY SignedGrows
  <1>2. LoansOf(c) \subseteq LoansOf(c)'
    BY <1>1 DEF LoansOf
  <1>3. ASSUME SignedNotices(c)' \subseteq SignedNotices(c), notified'[c] = notified[c] PROVE OK(c)'
    BY <1>0, <1>2, <1>3
  <1>4. ASSUME \/ \E k \in Contracts :
                    StartContract(k) \/ Provider(k) \/ ExpiresAtPasses(k) \/ CancelExpiredRemotely(k)
               \/ \E b \in Cases : CompleteContractData(b)
               \/ ExpirePendingContracts \/ UNCHANGED vars
        PROVE  outbox' = outbox /\ notified' = notified
    BY <1>4
    DEF StartContract, InsertContract, GeneratePdf, GeneratePdfFails, CreateDocument,
        CreateDocumentFails, MarkSignPending, MarkSignPendingFails, MarkStartFailed,
        MarkStartFailedFails, SignPendingRow, Provider, SignerSigns, SignerDeclines, ProviderCloses,
        ExpiresAtPasses, CancelExpiredRemotely, CompleteContractData, ExpirePendingContracts,
        vars, dbVars, appVars, extVars
  <1>5. ASSUME Crash PROVE outbox' = {} /\ notified' = notified
    BY <1>5 DEF Crash, extVars
  <1>6. ASSUME NEW m \in outbox, Notify(m) PROVE OK(c)'
    <2>1. outbox' = outbox \ {m}
      BY <1>6 DEF Notify
    <2>2. CASE UNCHANGED notified
      BY <1>3, <2>1, <2>2 DEF SignedNotices
    <2>3. CASE m.source = "CONTRACT_SIGNED" /\ notified' = [notified EXCEPT ![m.case] = @ + 1]
      <3>1. CASE m.case # c
        BY <1>3, <2>1, <2>3, <3>1 DEF SignedNotices
      <3>2. CASE m.case = c
        <4>1. m \in SignedNotices(c)
          BY <2>3, <3>2 DEF SignedNotices
        <4>2. notified[c] = 0 /\ LoansOf(c) # {} /\ \A n \in SignedNotices(c) : n = m
          BY <1>0, <4>1
        <4>3. notified'[c] = 1
          BY <2>3, <3>2, <4>2
        <4>4. SignedNotices(c)' = {}
          BY <2>1, <4>2 DEF SignedNotices
        <4> QED
          BY <1>2, <4>2, <4>3, <4>4
      <3> QED
        BY <3>1, <3>2
    <2> QED
      BY <1>6, <2>2, <2>3 DEF Notify
  <1>7. ASSUME NEW e \in events, HandleSignaturaWebhook(e) PROVE OK(c)'
    <2>1. notified' = notified
      BY <1>7
      DEF HandleSignaturaWebhook, WebhookNotFound, WebhookOnSigned, WebhookOnClosed, WebhookCancels,
          WebhookRejects, WebhookWaits, WebhookInvalid, WebhookSigns, WebhookRolledBack, vars, extVars
    <2>2. CASE WebhookSigns(e)
      <3> DEFINE k == e.contract
                 x == [contract |-> k, case |-> caseOf[k], source |-> "CONTRACT_SIGNED"]
      <3>1. CASE outbox' = outbox
        BY <1>3, <2>1, <3>1 DEF SignedNotices
      <3>2. CASE outbox' # outbox
        <4>1. /\ LoansOf(caseOf[k]) = {}
              /\ loans' = loans \union {NewLoan(k)}
              /\ outbox' = outbox \union {x}
          BY <2>2, <3>2 DEF WebhookSigns, CreateLoanIfEligible, NoticeOf
        <4>2. CASE caseOf[k] # c
          <5>1. SignedNotices(c)' = SignedNotices(c)
            BY <4>1, <4>2 DEF SignedNotices
          <5> QED
            BY <1>3, <2>1, <5>1
        <4>3. CASE caseOf[k] = c
          <5>1. notified[c] = 0 /\ SignedNotices(c) = {}
            BY <1>0, <4>1, <4>3
          <5>2. SignedNotices(c)' = {x}
            BY <4>1, <4>3, <5>1 DEF SignedNotices
          <5>3. NewLoan(k) \in LoansOf(c)'
            BY <4>1, <4>3 DEF LoansOf, NewLoan
          <5> QED
            BY <2>1, <5>1, <5>2, <5>3
        <4> QED
          BY <4>2, <4>3
      <3> QED
        BY <3>1, <3>2
    <2>3. CASE WebhookRejects(e) \/ WebhookInvalid(e)
      <3>1. SignedNotices(c)' = SignedNotices(c)
        BY <2>3 DEF WebhookRejects, WebhookInvalid, NoticeOf, SignedNotices
      <3> QED
        BY <1>3, <2>1, <3>1
    <2>4. CASE outbox' = outbox
      BY <1>3, <2>1, <2>4 DEF SignedNotices
    <2> QED
      BY <1>7, <2>2, <2>3, <2>4
      DEF HandleSignaturaWebhook, WebhookNotFound, WebhookOnSigned, WebhookOnClosed, WebhookCancels,
          WebhookWaits, WebhookRolledBack, vars, appVars
  <1>8. ASSUME outbox' \subseteq outbox, notified' = notified PROVE OK(c)'
    BY <1>3, <1>8 DEF SignedNotices
  <1> HIDE DEF OK
  <1> QED
    BY <1>4, <1>5, <1>6, <1>7, <1>8 DEF Next

-----------------------------------------------------------------------------

LEMMA InitIInv == Init => IInv
  <1> SUFFICES ASSUME Init PROVE IInv
    OBVIOUS
  <1>1. TypeOK
    BY InitTypeOK
  <1>2. RowsOK /\ OneActiveContractPerCase /\ LendingOK
    BY DEF Init, RowsOK, OneActiveContractPerCase, ActiveStatus, LendingOK, SignedHasLoan,
       OneLoanPerCase, OneRefinancePerLoan
  <1>3. SignaturesOK /\ NoticesOK
    BY DEF Init, SignaturesOK, TitularSignatureIsHis, NoticesOK, SignedNotices
  <1> QED
    BY <1>1, <1>2, <1>3 DEF IInv

LEMMA NextIInv == IInv /\ [Next]_vars => IInv'
  BY NextTypeOK, StepKinds, OneActiveStep, LendingStep, SignaturesStep, NoticesStep DEF IInv

\* Every reachable state satisfies the inductive invariant: contract rows, the
\* start requests that insert them and the loans stay consistent under every
\* interleaving of requests, webhooks, cron and crashes, whatever fails.
THEOREM Invariance == Spec => []IInv
  BY InitIInv, NextIInv, PTL DEF Spec

\* The rows, the requests under way and the provider's documents keep their types.
THEOREM TypeCorrect == Spec => []TypeOK
  <1>1. IInv => TypeOK
    BY DEF IInv
  <1> QED
    BY <1>1, Invariance, PTL

\* No case ever has two contracts in CREATED or SIGN_PENDING, even when a
\* COMMIT succeeds and its acknowledgement is lost.
THEOREM ActiveContractUnique == Spec => []OneActiveContractPerCase
  <1>1. IInv => OneActiveContractPerCase
    BY DEF IInv
  <1> QED
    BY <1>1, Invariance, PTL

\* Repeated webhooks, second contracts and cases competing for one loan never
\* lend twice for a case nor refinance a loan twice.
THEOREM LendingUnique == Spec => [](OneLoanPerCase /\ OneRefinancePerLoan)
  <1>1. IInv => OneLoanPerCase /\ OneRefinancePerLoan
    BY DEF IInv, LendingOK
  <1> QED
    BY <1>1, Invariance, PTL

\* A contract is never SIGNED without a loan of its case.
THEOREM SignedLends == Spec => []SignedHasLoan
  <1>1. IInv => SignedHasLoan
    BY DEF IInv, LendingOK
  <1> QED
    BY <1>1, Invariance, PTL

\* A contract that is CREATED or SIGN_PENDING has a start request at work on it
\* or is known at the provider, unless its start request was lost.
THEOREM ActiveInFlow == Spec => []ActiveContractIsInFlow
  <1>1. IInv => ActiveContractIsInFlow
    BY DEF IInv, TypeOK, RowsOK, ActiveContractIsInFlow, ActiveStatus, InProgress, StartPhase
  <1> QED
    BY <1>1, Invariance, PTL

\* If no acknowledgement of a COMMIT is lost, the contract of a loan is and
\* stays SIGNED, by all its signers, with matching identities.
THEOREM LoansBacked ==
  ASSUME "COMMIT_ACK" \notin Environment
  PROVE  Spec => []LoanIsBacked
  <1>1. IInv => LoanIsBacked
    <2> SUFFICES ASSUME IInv, NEW l \in loans
                 PROVE  /\ status[l.contract] = "SIGNED"
                        /\ caseOf[l.contract] = l.case
                        /\ Signers(l.case) \subseteq remote[l.contract].signed \intersect remote[l.contract].valid
      BY DEF LoanIsBacked
    <2>1. l.contract \in Contracts
      BY DEF IInv, TypeOK, Loan
    <2>2. status[l.contract] = "SIGNED" /\ caseOf[l.contract] = l.case
      BY DEF IInv, LendingOK, CommitAckLost
    <2>3. Signers(l.case) \subseteq remote[l.contract].valid
      BY <2>1, <2>2 DEF IInv, LendingOK
    <2>4. remote[l.contract].valid \subseteq remote[l.contract].signed
      BY <2>1 DEF IInv, RowsOK
    <2> QED
      BY <2>2, <2>3, <2>4
  <1> QED
    BY <1>1, Invariance, PTL

\* However the webhooks of the two signers are ordered, repeated or late, and
\* whichever branch of the handler answers them, the titular's column says CO
\* only when the titular signed.
THEOREM TitularSigns == Spec => []TitularSignatureIsHis
  <1>1. IInv => TitularSignatureIsHis
    BY DEF IInv, SignaturesOK
  <1> QED
    BY <1>1, Invariance, PTL

\* n8n is told of a signed contract at most once for a case, and only after
\* the case has its loan, even when a COMMIT's acknowledgement is lost.
THEOREM NoticesUnique == Spec => []NotifiedOnce
  <1>1. IInv => NotifiedOnce
    <2> SUFFICES ASSUME IInv, NEW c \in Cases
                 PROVE  notified[c] + Cardinality(SignedNotices(c)) <= Cardinality(LoansOf(c))
      BY DEF NotifiedOnce
    <2>1. /\ LoansOf(c) = {} => notified[c] = 0 /\ SignedNotices(c) = {}
          /\ notified[c] = 0 \/ (notified[c] = 1 /\ SignedNotices(c) = {})
          /\ \A m, n \in SignedNotices(c) : m = n
      BY DEF IInv, NoticesOK
    <2>2. \A l, m \in LoansOf(c) : l = m
      BY DEF IInv, LendingOK, OneLoanPerCase, LoansOf
    <2>3. Cardinality({}) = 0
      BY FS_EmptySet
    <2>4. ASSUME NEW S, \A x, y \in S : x = y, S # {} PROVE Cardinality(S) = 1
      <3>1. PICK x \in S : S = {x}
        BY <2>4
      <3> QED
        BY <3>1, FS_Singleton
    <2>5. CASE LoansOf(c) = {}
      BY <2>1, <2>3, <2>5
    <2>6. CASE LoansOf(c) # {}
      <3>1. Cardinality(LoansOf(c)) = 1
        BY <2>2, <2>4, <2>6
      <3>2. Cardinality(SignedNotices(c)) \in {0, 1}
        BY <2>1, <2>3, <2>4
      <3> QED
        BY <2>1, <2>3, <3>1, <3>2
    <2> QED
      BY <2>5, <2>6
  <1> QED
    BY <1>1, Invariance, PTL

-----------------------------------------------------------------------------
(* Steps. *)

\* If no acknowledgement of a COMMIT is lost, SIGNED, CANCELED and FAILED are
\* final; a contract never changes its case and a loan never disappears.
THEOREM ClosedFinal ==
  ASSUME "COMMIT_ACK" \notin Environment
  PROVE  Spec => ClosedIsFinal
  <1> DEFINE Keep ==
        /\ \A k \in Contracts :
             status[k] \in {"SIGNED", "CANCELED", "FAILED"} => status'[k] = status[k]
        /\ \A k \in Contracts : caseOf[k] # NoCase => caseOf'[k] = caseOf[k]
        /\ loans \subseteq loans'
  <1>1. ASSUME IInv, [Next]_vars PROVE Keep
    <2> USE DEF IInv, TypeOK
    <2>1. CASE Quiet
      BY <2>1 DEF Quiet, CommitAckLost
    <2>2. ASSUME NEW c \in Cases, NEW k \in Contracts, InsertContract(c, k) PROVE Keep
      BY <1>1, <2>2, InsertEffect
    <2>3. ASSUME NEW e \in events, WebhookSigns(e) PROVE Keep
      BY <1>1, <2>3, SignEffect
    <2> QED
      BY <1>1, <2>1, <2>2, <2>3, StepKinds
  <1>2. IInv /\ [Next]_vars => [Keep]_vars
    BY <1>1
  <1> QED
    BY <1>2, Invariance, PTL DEF Spec, ClosedIsFinal

LEMMA IssuanceInit == Init => Issuance!Init
  <1> SUFFICES ASSUME Init PROVE Issuance!Init
    OBVIOUS
  <1>1. PhaseOf("NONE") = "none"
    BY DEF PhaseOf, ActiveStatus
  <1>2. \A k \in Contracts : status[k] = "NONE"
    BY DEF Init
  <1>3. [k \in Contracts |-> PhaseOf(status[k])] = [k \in Contracts |-> "none"]
    BY <1>1, <1>2
  <1> QED
    BY <1>3 DEF Init, Issuance!Init

\* One step of the contract component opens, closes or signs, or changes
\* nothing that LoanIssuance sees.
LEMMA IssuanceStep ==
  ASSUME "COMMIT_ACK" \notin Environment, IInv, [Next]_vars
  PROVE  [Issuance!Next]_Issuance!issuance
  <1> DEFINE phase == [k \in Contracts |-> PhaseOf(status[k])]
             lent == {[contract |-> l.contract, case |-> l.case] : l \in loans}
  <1> USE DEF IInv, TypeOK
  <1>0. phase' = [k \in Contracts |-> PhaseOf(status'[k])]
    BY DEF PhaseOf
  <1>1. CASE Quiet
    <2> DEFINE S == {k \in Contracts : status[k] \in ActiveStatus /\ status'[k] \notin ActiveStatus}
    <2>1. caseOf' = caseOf /\ lent' = lent
      BY <1>1 DEF Quiet
    <2>2. ASSUME NEW k \in Contracts
          PROVE  PhaseOf(status'[k]) = IF k \in S THEN "closed" ELSE phase[k]
      <3>1. status[k] \in Status /\ status'[k] \in Status
        BY NextTypeOK
      <3> QED
        BY <1>1, <3>1 DEF Quiet, PhaseOf, Status, ActiveStatus, CommitAckLost
    <2>3. phase' = [k \in Contracts |-> IF k \in S THEN "closed" ELSE phase[k]]
      BY <1>0, <2>2
    <2>4. CASE S = {}
      BY <2>1, <2>3, <2>4 DEF Issuance!issuance
    <2>5. CASE S # {}
      <3>1. \A k \in S : phase[k] = "open"
        BY DEF PhaseOf, ActiveStatus
      <3>2. Issuance!Close(S)
        BY <2>1, <2>3, <2>5, <3>1 DEF Issuance!Close
      <3> QED
        BY <3>2 DEF Issuance!Next
    <2> QED
      BY <2>4, <2>5
  <1>2. ASSUME NEW c \in Cases, NEW k \in Contracts, InsertContract(c, k)
        PROVE  [Issuance!Next]_Issuance!issuance
    <2>1. /\ status' = [status EXCEPT ![k] = "CREATED"] /\ status[k] = "NONE"
          /\ caseOf' = [caseOf EXCEPT ![k] = c]
          /\ loans' = loans
      BY <1>2, InsertEffect
    <2>2. phase[k] = "none" /\ phase' = [phase EXCEPT ![k] = "open"]
      BY <1>0, <2>1 DEF PhaseOf, ActiveStatus
    <2>3. \A m \in Contracts : caseOf[m] = c => phase[m] # "open"
      BY <1>2 DEF InsertContract, HasActiveContract, PhaseOf, ActiveStatus
    <2>4. Issuance!Open(k, c)
      BY <2>1, <2>2, <2>3 DEF Issuance!Open
    <2> QED
      BY <2>4 DEF Issuance!Next
  <1>3. ASSUME NEW e \in events, WebhookSigns(e)
        PROVE  [Issuance!Next]_Issuance!issuance
    <2> DEFINE k == e.contract
               c == caseOf[k]
    <2>1. /\ k \in Contracts /\ caseOf' = caseOf
          /\ status[k] = "SIGN_PENDING" /\ status' = [status EXCEPT ![k] = "SIGNED"]
      BY <1>3, SignEffect
    <2>2. phase[k] = "open" /\ phase' = [phase EXCEPT ![k] = "signed"]
      BY <1>0, <2>1 DEF PhaseOf, ActiveStatus
    <2>3. lent' = IF \E l \in lent : l.case = c THEN lent
                  ELSE lent \union {[contract |-> k, case |-> c]}
      <3>1. CASE LoansOf(c) # {} /\ loans' = loans
        <4>1. \E l \in lent : l.case = c
          <5>1. PICK l \in loans : l.case = c
            BY <3>1 DEF LoansOf
          <5>2. [contract |-> l.contract, case |-> l.case] \in lent
            OBVIOUS
          <5> QED
            BY <5>1, <5>2
        <4> QED
          BY <3>1, <4>1
      <3>2. CASE /\ LoansOf(c) = {}
                 /\ loans' = loans \union
                      {[contract |-> k, case |-> c, refinances |-> CaseData[c].refinances]}
        <4>1. ~ \E l \in lent : l.case = c
          BY <3>2 DEF LoansOf
        <4>2. lent' = lent \union {[contract |-> k, case |-> c]}
          <5> DEFINE n == [contract |-> k, case |-> c, refinances |-> CaseData[c].refinances]
                     f(l) == [contract |-> l.contract, case |-> l.case]
          <5>1. lent = {f(l) : l \in loans} /\ lent' = {f(l) : l \in loans \union {n}}
            BY <3>2
          <5>2. f(n) = [contract |-> k, case |-> c]
            OBVIOUS
          <5> HIDE DEF f, n
          <5>3. {f(l) : l \in loans \union {n}} = {f(l) : l \in loans} \union {f(n)}
            OBVIOUS
          <5> QED
            BY <5>1, <5>2, <5>3
        <4> QED
          BY <4>1, <4>2
      <3> QED
        BY <1>3, <3>1, <3>2, SignEffect
    <2>4. Issuance!Sign(k)
      BY <2>1, <2>2, <2>3 DEF Issuance!Sign
    <2> QED
      BY <2>1, <2>4 DEF Issuance!Next
  <1> QED
    BY <1>1, <1>2, <1>3, StepKinds

\* If no acknowledgement of a COMMIT is lost, requests, webhooks, cron and
\* crashes together implement LoanIssuance.
THEOREM Refinement ==
  ASSUME "COMMIT_ACK" \notin Environment
  PROVE  Spec => ImplementsLoanIssuance
  <1>1. IInv /\ [Next]_vars => [Issuance!Next]_Issuance!issuance
    BY IssuanceStep
  <1> QED
    BY <1>1, IssuanceInit, Invariance, PTL DEF Spec, ImplementsLoanIssuance, Issuance!Spec

=============================================================================
