----------------------------- MODULE ContractData -----------------------------
(***************************************************************************)
(* Collecting the contract data of an approved case.                       *)
(*                                                                         *)
(* initiate-data-collection hands out one token per signer; with it the    *)
(* signer submits his data once, within 72 hours.  Calling it again renews *)
(* what has expired.  The submission that completes the case then calls    *)
(* start-contract, outside its transaction.                                *)
(*                                                                         *)
(* Both operations lock the case row first, so each is one step.           *)
(***************************************************************************)
EXTENDS Naturals

CONSTANTS
  Cases,         \* cases that were approved
  WithCodeudor,  \* those that require, and have, an approved guarantor
  Tokens,        \* identities for the rows of contract_data_tokens
  NoCase         \* the case of a token that does not exist yet

ASSUME ContractDataAssumption ==
  /\ WithCodeudor \subseteq Cases
  /\ NoCase \notin Cases

VARIABLES
  caseStatus,  \* cases.status
  tokenStatus, \* contract_data_tokens.status, "NONE" before the row exists
  tokenCase,   \* contract_data_tokens.case_id
  tokenSubject,\* contract_data_tokens.subject
  stale,       \* tokens with expires_at in the past
  saved,       \* <<case, subject>> whose data was written
  named,       \* cases whose guarantor has first and last name
  phone,       \* cases whose guarantor has a phone
  starting,    \* cases whose last submission has still to call start-contract
  started      \* cases for which start-contract inserted a contract

tokenVars == <<tokenStatus, tokenCase, tokenSubject>>
vars == <<caseStatus, tokenVars, stale, saved, named, phone, starting, started>>

CaseStatus == {"APROBADO_FINAL", "PENDING_CONTRACT_DATA", "CONTRACT_DATA_COMPLETED"}
TokenStatus == {"NONE", "PENDING", "USED", "EXPIRED"}
Subject == {"TITULAR", "CODEUDOR"}

ExpectedSubjects(c) == IF c \in WithCodeudor THEN Subject ELSE {"TITULAR"}

TypeOK ==
  /\ caseStatus \in [Cases -> CaseStatus]
  /\ tokenStatus \in [Tokens -> TokenStatus]
  /\ tokenCase \in [Tokens -> Cases \union {NoCase}]
  /\ tokenSubject \in [Tokens -> Subject]
  /\ stale \subseteq Tokens
  /\ saved \subseteq Cases \X Subject
  /\ named \subseteq WithCodeudor
  /\ phone \subseteq WithCodeudor
  /\ starting \subseteq Cases
  /\ started \subseteq Cases

\* A guarantor's name comes from BCRA when it is reliable; his phone only from
\* his own submission.
Init ==
  /\ caseStatus = [c \in Cases |-> "APROBADO_FINAL"]
  /\ tokenStatus = [t \in Tokens |-> "NONE"]
  /\ tokenCase = [t \in Tokens |-> NoCase]
  /\ tokenSubject = [t \in Tokens |-> "TITULAR"]
  /\ stale = {}
  /\ saved = {}
  /\ named \in SUBSET WithCodeudor
  /\ phone = {}
  /\ starting = {}
  /\ started = {}

-----------------------------------------------------------------------------
TokensOf(c, s, st) ==
  {t \in Tokens : tokenCase[t] = c /\ tokenSubject[t] = s /\ tokenStatus[t] = st}

Unissued == {t \in Tokens : tokenStatus[t] = "NONE"}

(* POST /cases/:caseId/initiate-data-collection *)

\* insertTokens for the subjects S of case c, after the tokens E have expired.
InsertTokens(c, S, E) ==
  \E f \in [S -> Unissued] :
    /\ \A s, r \in S : f[s] = f[r] => s = r
    /\ tokenStatus' = [t \in Tokens |-> IF t \in E THEN "EXPIRED"
                                        ELSE IF \E s \in S : f[s] = t THEN "PENDING"
                                        ELSE tokenStatus[t]]
    /\ tokenCase' = [t \in Tokens |-> IF \E s \in S : f[s] = t THEN c ELSE tokenCase[t]]
    /\ tokenSubject' = [t \in Tokens |-> IF \E s \in S : f[s] = t
                                         THEN CHOOSE s \in S : f[s] = t
                                         ELSE tokenSubject[t]]

InitiateFirst(c) ==
  /\ caseStatus[c] = "APROBADO_FINAL"
  /\ InsertTokens(c, ExpectedSubjects(c), {})
  /\ caseStatus' = [caseStatus EXCEPT ![c] = "PENDING_CONTRACT_DATA"]
  /\ UNCHANGED <<stale, saved, named, phone, starting, started>>

\* Subjects whose pending token is past its time.
Overdue(c) == {s \in ExpectedSubjects(c) : TokensOf(c, s, "PENDING") \intersect stale # {}}

\* Mutant: a subject that has submitted its data is not recognised.
MissingOrUsed(c) == {s \in ExpectedSubjects(c) : TokensOf(c, s, "PENDING") = {}}

\* Subjects with neither a pending nor a used token.
Missing(c) ==
  {s \in ExpectedSubjects(c) : TokensOf(c, s, "PENDING") \union TokensOf(c, s, "USED") = {}}

\* Mutant: the renewal leaves the old token PENDING.
NothingToExpire(c) == {}

ToExpire(c) == UNION {TokensOf(c, s, "PENDING") : s \in Overdue(c)}

\* Unexpired tokens are handed out again; the others are replaced.
InitiateAgain(c) ==
  /\ caseStatus[c] = "PENDING_CONTRACT_DATA"
  /\ InsertTokens(c, Overdue(c) \union Missing(c), ToExpire(c))
  /\ UNCHANGED <<caseStatus, stale, saved, named, phone, starting, started>>

-----------------------------------------------------------------------------
(* PUT /cases/:caseId/contract-data *)

\* Mutant: the token's case is not compared with the submission's.
UsableByAnyCase(c, t, s) ==
  tokenSubject[t] = s /\ tokenStatus[t] = "PENDING" /\ t \notin stale

Usable(c, t, s) ==
  /\ tokenSubject[t] = s
  /\ tokenCase[t] = c
  /\ tokenStatus[t] = "PENDING"
  /\ t \notin stale

\* Mutant: the tokens are counted before the submission's is marked.
CompletedBefore(c) == \A t \in Tokens : tokenCase[t] = c => tokenStatus[t] = "USED"

\* countUsedTokensByCaseId, after markTokenUsed: every token of the case is used.
Completed(c) == \A t \in Tokens : tokenCase[t] = c => tokenStatus'[t] = "USED"

\* The subject's columns are overwritten; p says whether the submission carries
\* a phone (the codeudor's DTO makes it optional, and none is written as NULL).
Save(c, s, p) ==
  /\ saved' = saved \union {<<c, s>>}
  /\ phone' = IF s = "TITULAR" THEN phone ELSE IF p THEN phone \union {c} ELSE phone \ {c}

\* A submission whose data are valid.
Submit(c, t, s, p) ==
  /\ caseStatus[c] = "PENDING_CONTRACT_DATA"
  /\ Usable(c, t, s)
  /\ s = "CODEUDOR" => c \in named
  /\ Save(c, s, p)
  /\ tokenStatus' = [tokenStatus EXCEPT ![t] = "USED"]
  /\ IF Completed(c)
     THEN /\ caseStatus' = [caseStatus EXCEPT ![c] = "CONTRACT_DATA_COMPLETED"]
          /\ starting' = starting \union {c}
     ELSE UNCHANGED <<caseStatus, starting>>
  /\ UNCHANGED <<tokenCase, tokenSubject, stale, named, started>>

\* What start-contract asks of a case and its guarantor.
Startable(c) ==
  /\ caseStatus[c] = "CONTRACT_DATA_COMPLETED"
  /\ c \in WithCodeudor => c \in phone

\* The submission's own call, whose exception reaches the caller; or
\* POST /cases/:caseId/start-contract.
StartContract(c) ==
  /\ starting' = starting \ {c}
  /\ IF Startable(c)
     THEN started' = started \union {c}
     ELSE c \in starting /\ UNCHANGED started
  /\ UNCHANGED <<caseStatus, tokenVars, stale, saved, named, phone>>

-----------------------------------------------------------------------------
\* applyGuarantorManualIdentity.
NameGuarantor(c) ==
  /\ c \in WithCodeudor
  /\ named' = named \union {c}
  /\ UNCHANGED <<caseStatus, tokenVars, stale, saved, phone, starting, started>>

TokenTtlPasses(t) ==
  /\ tokenStatus[t] = "PENDING"
  /\ stale' = stale \union {t}
  /\ UNCHANGED <<caseStatus, tokenVars, saved, named, phone, starting, started>>

\* The process dies before a submission has called start-contract.
Crash ==
  /\ starting # {}
  /\ starting' = {}
  /\ UNCHANGED <<caseStatus, tokenVars, stale, saved, named, phone, started>>

Next ==
  \/ \E c \in Cases :
       \/ InitiateFirst(c) \/ InitiateAgain(c) \/ StartContract(c) \/ NameGuarantor(c)
       \/ \E t \in Tokens, s \in Subject, p \in BOOLEAN : Submit(c, t, s, p)
  \/ \E t \in Tokens : TokenTtlPasses(t)
  \/ Crash

Spec == Init /\ [][Next]_vars

-----------------------------------------------------------------------------
(* What the component promises. *)

\* However often a collection is initiated, a subject of a case has at most
\* one token he can submit with.
OneUsableToken ==
  \A t, u \in Tokens :
    /\ tokenStatus[t] = "PENDING" /\ tokenStatus[u] = "PENDING"
    /\ tokenCase[t] = tokenCase[u] /\ tokenSubject[t] = tokenSubject[u]
    => t = u

\* A subject submits once: what he submitted is never overwritten by a second
\* link, renewed or not, and each submission used a token of its own case.
SubmittedOnce ==
  /\ \A t, u \in Tokens :
       /\ tokenStatus[t] = "USED" /\ tokenStatus[u] \in {"PENDING", "USED"}
       /\ tokenCase[t] = tokenCase[u] /\ tokenSubject[t] = tokenSubject[u]
       => t = u
  /\ saved = {<<tokenCase[t], tokenSubject[t]>> : t \in {u \in Tokens : tokenStatus[u] = "USED"}}

\* No contract is started before every signer of the case has submitted his
\* data, whichever request completes the case or calls start-contract.
StartedIsCollected ==
  \A c \in started : \A s \in ExpectedSubjects(c) : <<c, s>> \in saved

\* Once everyone has submitted, the case is complete.
CollectedIsCompleted ==
  \A c \in Cases :
    (\A s \in ExpectedSubjects(c) : <<c, s>> \in saved)
      => caseStatus[c] = "CONTRACT_DATA_COMPLETED"

\* It is, when none of its tokens had to be replaced.
InTimeIsCompleted ==
  \A c \in Cases :
    /\ \A s \in ExpectedSubjects(c) : <<c, s>> \in saved
    /\ \A t \in Tokens : tokenCase[t] = c => tokenStatus[t] # "EXPIRED"
    => caseStatus[c] = "CONTRACT_DATA_COMPLETED"

=============================================================================
