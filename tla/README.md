# Zaga backend: verification project

TLA+ modules, TLC configurations and TLAPS proofs for the Zaga loan back end
(NestJS, PostgreSQL).  Source paths are relative to `src/src/`.

    tlc -config CC_retry.cfg MCCaseContract     # a run of section 5
    tlapm CaseContractProofs.tla                # the proofs of section 6

## 1. The system

Zaga gives consumer loans over WhatsApp.  A lead becomes a case, a case gets an
offer, a guarantor and contract data, then a contract that is signed at an
external provider; the signature creates a loan, which is disbursed and
collected in instalments.  n8n workflows drive the conversation and call this
back end; a back office calls it too; all state is in PostgreSQL, except a queue
of BCRA requests in memory.  Several requests, a cron job and the provider's
webhooks run at once in one Node process (or several), each operation in one
transaction or, where the code does without, in several statements.

| component | state it keeps | operations | interacts with |
|---|---|---|---|
| database access (`db`) | a pool of connections | `query`, `withTransaction` | everything |
| prequalification (`prequal`) | leads.stage, user_prequals | `runPrequal`, scoring | BCRA requests, consents, leads |
| BCRA requests (`prequal`) | active slots and waiting calls, in memory | `add`, `fetchWithRetry` | BCRA over HTTP |
| consents (`consents`) | consents.status, leads.stage | show, accept | leads |
| cases (`cases`) | cases.status, leads.current_case_id | create from requested amount | leads, users |
| offers (`offerEngine`) | case_offers.status, cases.current_offer_id | create an offer | cases |
| guarantors (`case-guarantors`) | case_guarantors.status, cases.status | evaluate, resolve, final approval, manual identities | cases, BCRA requests |
| contract data (`contracts/services`) | contract_data_tokens, cases.status, bank accounts | initiate, submit | cases, guarantors, start-contract |
| contracts (`contracts`) | case_contracts, loans | start-contract, webhook, expiration cron, notify | Signatura, Gotenberg, n8n, loans |
| disbursement (`loans`) | loans.status | disburse, generate the schedule | collections |
| collections (`cobranzas`) | cuotas, pagos, pagos_cuotas, historial | mark overdue, register, validate, apply | loans |
| back-office authentication (`zaga-auth`) | admin_users, admin_sessions | login, logout, guard | audit |
| audit, dashboard, lists, reference data, seeds | logs and read models | queries | everything |

What makes each component correct, in one line:

- **BCRA requests**: the limit holds through every hand-over of a slot, nobody
  waits while a slot is idle, every call ends.
- **consents, prequalification, cases**: a lead has one case in its life; a late
  answer of BCRA does not take a lead away from its case.
- **offers, guarantors**: one offer stands; candidates are tried once each, in
  sequence; a final approval is backed by decisions that stand.
- **contract data**: a signer has one usable link and submits once; nothing
  starts before all have submitted; once all have, the case is complete.
- **contracts**: one active contract and one loan per case, one refinancing per
  loan; no loan without every signature; what is closed stays closed; what is
  pending ends.
- **prequalification score, offers, disbursement**: a worse debtor never scores
  better; a schedule adds up; a loan is charged what its offer had quoted.
- **collections**: money is applied once, in the contractual order, never taken
  back, and the stored balances agree with what was applied; what a customer is
  quoted, and the bucket a loan is in, follow from it.
- **back-office authentication**: everybody's failures count and none is lost;
  a session is revoked by one logout and the audit trail says which.
- **database access**: every request gets its connection, its rows and an end.

What is hard in it: start-contract is a saga of two transactions around two
remote calls; webhooks arrive late, twice, out of order or never, and race with
the cron; guards are read before a lock or outside a transaction in some
components and under a lock in others; transactions lock the same rows in
opposite orders; the clock is read again at each step of a calculation; retries
and timeouts surround a queue of a few slots.  `PROJECT.json` lists the hazards
line by line with the properties that cover them.

## 2. The modules

| module | what it is |
|---|---|
| `CaseContract` | the contract of a case: start-contract, webhook, cron, loan |
| `LoanIssuance` | what the rest of the system relies on of it; `CaseContract` implements it |
| `ContractData` | tokens and submissions before the contract |
| `CaseOrigination` | from a lead's consent to the case's final approval |
| `BcraRequests` | the queue, timers and retries of the calls to BCRA |
| `Zcore` | the score of BCRA's answers |
| `FrenchSchedule` | the schedule of a loan, as it is quoted and as it is charged |
| `Credit` | score, offer, contract and disbursement in one; uses both |
| `Cobranzas` | disbursement, payments and their application to instalments |
| `Cartera` | the portfolio and the quote of a balance, read while `Cobranzas` runs |
| `ZagaAuth` | logins, locks, sessions and logouts of the back office |
| `DbPool` | the pool of connections and the rows that transactions lock |
| `Sums` | the sum of a function over a part of its domain |
| `MC*` | instances for TLC |
| `CaseContractProofs`, `CobranzasProofs`, `BcraRequestsProofs`, `ContractDataProofs`, `CaseOriginationProofs`, `CreditProofs`, `ZagaAuthProofs` | theorems and proofs |
| `SumTheorems` | lemmas on sums, largest values, induction on the naturals and recursive functions, for the proofs |

`Credit` extends `Zcore` and `FrenchSchedule`, and `Cartera` extends `Cobranzas`;
`FrenchSchedule` and `Cobranzas` extend `Sums`; `CaseContract` instantiates `LoanIssuance`.  The others meet only through
columns that each of them models for itself, with what the neighbours do to the
column as an external action.

A definition whose comment begins with "Mutant" is a plausible mistake kept to
show that a property would notice it; nothing in the specification uses it,
except where its comment gives it a second, regular use.

## 3. Conventions

A transaction is one action when all it decides on is read under a row lock:
nothing it writes is visible before COMMIT, and whoever would change what it
read waits for it.  Where that does not hold (the application of a payment reads
the clock while others may go on; start-contract and prequalification call
remote systems between transactions) the steps are separate.  A transaction
that fails is rolled back and changes nothing; it is modelled by its action not
happening, or by an action of its own where something follows the failure.
Requests that a guard refuses change nothing and are not actions.

## 4. The models

### CaseContract, LoanIssuance: the contract of a case

`CaseContract` models `startCaseContract`, `handleSignaturaWebhook` with
`finalizeCodeudorWebhook` and `createLoanIfEligible`, the expiration job and the
notification to n8n.  The remote calls between two transactions are actions of
their own, and `start[k]` is the point the request that inserted contract `k` has
reached.

| state | code |
|---|---|
| `caseStatus`, `status`, `caseOf`, `linked`, `tracked`, `overdue` | cases.status and the columns of case_contracts (status, case_id, external ids, provider statuses, expires_at) |
| `loans` | rows of loans with their case and refinances_loan_id |
| `start`, `cancelQueue`, `outbox` | requests, the cron's list and un-awaited notifications: memory of the process, lost by `Crash` |
| `remote`, `events`, `notified` | external: the provider's documents, every webhook it has sent, what n8n has received |

A webhook that was sent stays in `events`: it may be handled at any time, again,
or never, which covers reordering, duplication, loss, and a handler that fails
on a remote read and rolls back.  `Environment` says which failures an instance
allows: `CRASH`, `PDF`, `DB` (a transaction fails), `COMMIT_ACK` (it commits and
still raises), `DECLINE`, `CLOSE`, `NEW_STATUS` (webhooks carry the document's
status).  A COMMIT whose acknowledgement is lost is modelled for the second
transaction of start-contract, where the catch block acts on it; for the first
it leaves what `GeneratePdfFails` leaves, for the third and for the webhook it
changes nothing but the answer.

A start request is *lost* (`start[k] = "lost"`) when nothing is left that would
settle its contract: the process died, the renderer failed outside the `try`, or
the catch block failed itself.  The properties say what holds of the others, and
that there is no further way to be lost.

`LoanIssuance` is what the rest of the system relies on: contracts are opened
one at a time per case, closed for good, or signed, and the first signature
lends.  `CaseContract` implements it (`Issuance`).

Fairness: an accepted start request runs on (Node schedules it and its calls
return or fail), time passes, and the cron fires every five minutes.  No
fairness for signers, the provider, webhooks, whoever starts contracts, the
remote cancel or notifications.

### ContractData: collecting the data of the signers

`InitiateFirst`, `InitiateAgain` are the two branches of
initiate-data-collection, `Submit` is a submission whose data are valid (an
invalid one writes nothing), `StartContract` is the call after the last
submission or a person's, `NameGuarantor` the hand-typed identity without which
a codeudor's submission is refused.  A token's 72 hours pass at any time
(`TokenTtlPasses`).  What a field holds is abstracted to `saved`; the
codeudor's phone is kept (`phone`), for start-contract asks for it.  `starting`
is memory of the process and lost by `Crash`.

### CaseOrigination: from the lead to the final approval

One action per operation of consents, cases, offers and guarantors; the
prequalification alone is two (`StartPrequal`, `FinishPrequal`), because it asks
BCRA outside its transaction and anything may happen to the lead meanwhile.
It is asked for at any stage, for `runPrequal` looks at none, and several
may be under way for one lead (`evaluating` holds the leads with at least one).
What BCRA and the scoring answer is chosen freely.  Statuses that the workflows
write directly in the database are external actions, kept to the moves that the
guards of this code imply: `CompleteData` (`NEED_DATA` to `DATA_COMPLETE`),
`AskAmount`, `SendToNosis`, `ReturnToAnalysis` and `ReopenCase` (without the last
no case could have a second offer, which `createCaseOffer` provides for).
`OneCasePerLead` assumes that no workflow clears `leads.current_case_id`, as
nothing in this code does, and is about the cases made from a requested amount.

### BcraRequests: the queue of requests

`at[k]` is the await a call of `fetchWithRetry` is suspended at.  Node runs one
callback at a time, so what lies between two awaits is a step.  A timer starts
with an attempt, before the slot is asked for, so `TimerFires` may come in the
queue; `fetch` then rejects as soon as it starts.  The body is read after the
slot was released, with no timer left: `CallsEnd` stops there.

Fairness: timers fire, and an aborted `fetch` rejects.  Nothing is assumed of
BCRA, and callers may call for ever.

### Cobranzas: disbursement and payments

The loan's schedule is a constant here, and `FrenchSchedule`'s subject; amounts
are cents, instants are thirds of an
Argentine day (until 17:00, until 21:00, until midnight, when the UTC date is
the next one), which is what `mora.service` distinguishes.  The application of
a payment is a transaction that reads the clock for every instalment, so it is
a sequence of steps: `Imputar` locks and decides, `ImputarCuota` and
`SaltarCuota` walk the instalments, `MarkImputado` commits, `Rollback` undoes,
and `Tick` may come between them.  `calcularDPD` and `calcularMoraParaCuota`
read the clock one after the other in the same turn; the model gives one
instalment one reading.  `tx.desde` is history: it lets two properties say
"unless the clock moved".


### Cartera: what is read while payments are applied

`EffectiveDpd` and `AsignarBucket` are the portfolio's one SELECT, which sees one
committed state; the database session is taken to be in UTC.  The quote of a
balance is not one statement: `Consultar` reads the instalments, `LeerSums` the
payments of one of them and the clock, as often as there are instalments due,
and everything in `Cobranzas` may happen in between.

### Zcore, FrenchSchedule, Credit: what is lent and charged

`Zcore` is `computeZcoreBcraV1` with the normalisation and classification of the
answers, `FrenchSchedule` the two `buildFrenchSchedule` of
`offerEngine/offer-engine.service.ts` and `cobranzas/cuotas.service.ts`.  The code
computes both in floating point.  Fractions in `Zcore` are whole numbers of
1/10000, rounded down; its one irrational function, the load of a debt, is the
constant `DebtCurve`, of which only monotony is assumed.  `Places` is the
stable sort of the months by date.  In `FrenchSchedule`
amounts before rounding are exact (cents and a rest in units of a common
denominator `Den`), so that `Round2` decides half cents as the formula does; the
definitions gave the amounts of the code's own arithmetic for the terms of the
instance and for sampled answers.  A rate of zero is a branch of the code and of
the definitions, though the request's validation asks for a positive one.

`Credit` follows one lead through `RunPrequal`, `CreateCaseOffer`, `AcceptOffer`,
`StartContract`, `EndContract` and `RegistrarDesembolso`, each under its own guards
only: offers may be made and accepted while a contract is out or a loan waits
for its money, which is when the terms could be confused.

### ZagaAuth: logins and logouts

Nothing in `zaga-auth.service.ts` runs in a transaction: each statement of a login
or logout is a step, and requests interleave between any two.  The row a login
reads first decides whether it compares the password at all; what
`incrementFailedAttempts` adds is added by the database; the count is read again
before the lock.  The clock (`LockPasses`, `SessionExpires`) and whoever
administers the users (`SetActive`) are external.  `Lose` is a statement that
fails or a process that dies: the request stops, what it wrote stays.

### DbPool: connections and rows

A request is a program: rows to lock in order, and queries outside its
transaction (`Query`), which take a connection of their own.  The pool's queue is
first come, first served and has no limit of time (`db.service.ts` sets no
`connectionTimeoutMillis`); the rows, and that PostgreSQL breaks a cycle of two
by failing one of them, are external.

Fairness: the database answers (`WF` of a request's steps) and a row goes, in the
end, to one that waits for it (`SF` of `LockRow`).  Nobody has to send a request.
## 5. What the runs check

Every property of a passing run is broken by a mutant of the code (PROJECT.json,
"mutants"), so none holds by the shape of the model alone.

| run | bounds | shows |
|---|---|---|
| `CC_codeudor` | 1 case with a codeudor, 2 contracts; crashes, declines, closed documents | a loan needs both signatures and identities; a signature of the codeudor is not the titular's; closed is final; refinement of `LoanIssuance` |
| `CC_retry` | 2 cases that refinance one loan, 2 contracts; crashes, lost COMMIT acknowledgements | one active contract per case, one refinancing per loan, no SIGNED without a loan, at most one notification |
| `CC_live` | 1 case with one signer, 2 contracts; every kind of failure | SIGN_PENDING ends; CREATED ends unless its request was lost; an active contract is in a flow |
| `CD_tokens` | 2 cases, one with codeudor, 5 tokens | one usable token, one submission, nothing starts before all submitted, completion without renewal |
| `CD_renewal` (violation) | 1 case, 3 tokens | after a renewal the case never completes |
| `CO_origination` | 1 lead, 2 consents, 2 case identities, 3 offers, 4 candidates for 3 attempts | one case per lead, one standing offer, sound attempts, decisions that stand, a backed approval |
| `BQ_queue` | 4 calls, 2 slots, 1 retry | the slots' count, no vain wait, order, every call ends |
| `CR_credit` | 14 022 pairs of answers, 24 terms (8 amounts, 3 rates), 2 offers of 4 instalments | a worse debtor never scores better; a loan is charged what was quoted; a schedule adds up |
| `CB_imputar` | 2 instalments, 2 payments of 6 amounts, 5 instants, 1 quote at a time | money is applied once, in order, completely and for good; balances agree; a full payment settles; a quote lies between what was and what is owed; only a paid instalment makes the bucket milder |
| `CB_parcial` (violation) | the same, 2 amounts | a payment of all that is left is recorded as partial |
| `ZA_auth` | 1 user, 4 logins, 2 logouts, a limit of 2 | failures lock, none is lost, one logout revokes a session |
| `DB_pool` | 2 connections; one payment applied twice at once, a start request and a webhook of one case, a list | every request ends, unless applications have taken every connection |

Why the bounds are enough.  *Contracts*: the properties relate two rows; two
contracts give a case that is contracted again after each kind of end, two cases
the race for one refinanced loan, and a third row would only repeat a start
request.  Webhooks are unbounded in number and order.  *Contract data*: five
tokens let a case with two signers renew both tokens and one of them again while
another case goes on.  *Origination*: two consents let a lead that has a case go
through everything again; the second case identity is there to be used wrongly;
four candidates fill three attempts and leave one to be refused; three offers
let an offer be superseded twice.  *BCRA*: four calls keep two waiting behind two
slots, one retry has a first and a last attempt.  *Collections*: the amounts
(600, 1132, 1142, 1206, 1279, 2264 cents) lie below and at 40%, at and around
each total asked for on the chosen instants; the last is above the whole loan on
the first of them, and on the day the second instalment is due just what is asked
for both, a cent less than their parts, for that instalment's total is rounded down; the
instants are the evening of the first due date, the next morning and evening
(bonus and no bonus), and the days the second instalment is due and after, when
the first is seven days late and the two are owed together.  *Credit*: the
answers combine two debts with every situation and flag that has a weight of its
own, on time or very late, and eight months of history that are level, falling and rising; the
amounts lie where the roundings of four instalments go up, go down and cancel;
the smallest lends too little for every instalment to repay a cent.
Twelve instalments, the code's number, overflow the integers of TLC in the
common denominator; four have a first, two middle ones and the last that absorbs
the rest.  Two offers let one supersede the other, or follow an accepted one.
*Authentication*: four logins make two concurrent failures reach the limit while
a third resets the count; two logouts race for a session.  *Pool*: the start
request and the webhook lock case and contract in opposite orders, and two
applications hold two connections.

`CHECK_DEADLOCK FALSE` is set where the system may stop: all contracts closed,
all tokens used, the loan paid, every login answered, a pool whose connections
are all taken by applications (`Starved`).  `BQ_queue` never stops.

### What the violations say

- `CD_renewal`: `countUsedTokensByCaseId`
  (`contracts/repositories/contract-data-tokens.repository.ts:163`) counts the
  EXPIRED tokens too, so a case whose token was renewed never completes.
- `CB_parcial`: `saldo_actualizado` does not take off the mora already paid
  (`cobranzas/mora.service.ts:90`), `imputar` does.

### Observations

What the models show of the code beside the properties, or leave out of them:

- `generateContractPdf` runs outside the `try`
  (`contracts/contracts.service.ts:201`): a contract whose PDF fails stays
  CREATED, has no `expires_at`, and every later start request of its case is
  refused.  It is one of the lost requests that `CreatedEnds` excepts; a process
  that dies at the same point is another.
- When the transaction that stores the provider's ids fails
  (`contracts/contracts.service.ts:275`), the document stays with the provider:
  nothing cancels it, and its webhooks find no contract.  `CreatedEnds` shows
  only that the contract leaves CREATED.
- When that transaction commits and its acknowledgement is lost, the catch block
  (`contracts/contracts.service.ts:314`) marks the contract FAILED without
  looking at its status: it may be SIGNED by then, with a loan.  `ClosedIsFinal`,
  `LoanIsBacked` and `ImplementsLoanIssuance` do not hold with `COMMIT_ACK` in
  `Environment`, and `CC_codeudor` leaves it out; `CC_retry` has it and shows what
  remains true.
- With as many double clicks on "apply" as the pool has connections, every
  connection is held by a request that waits for one more
  (`cobranzas/pagos.service.ts:161`); `RequestsEnd` excepts this state, `Starved`,
  and shows that there is no other.
- Days are counted by the UTC date (`cobranzas/mora.service.ts:228`), hours in
  Argentina: from 21:00 of the due date there is a day of mora.
- The branch 'Sin acción inmediata' (`cobranzas/cobranzas-backoffice.service.ts:34`)
  is for days below -3; it is given `dpd_max`, which is never below zero.
- `total_bonificado` is always the total of what is overdue
  (`cobranzas/mora.service.ts:192`).
- The remote cancel of an expired document and the notification to n8n are tried
  once; a payment validated by a request that then dies is applied by nobody but
  a later call.
- A codeudor's refusal is recorded in the titular's column
  (`contracts/contracts.service.ts:506`): `markCaseContractFailed` takes the
  effective status of the event whoever it is from.
- The codeudor's phone is optional in the submission and required by
  start-contract (`contracts/services/contract-data-submit.service.ts:203`): the
  case is then complete and cannot be contracted, nor submitted again.
- No operation writes the status that `getCarteraActiva` leaves out
  (`cobranzas/cobranzas-backoffice.service.ts:121`): a paid loan stays in the
  active portfolio.
- With `hour12: false` some builds of ICU print midnight as 24
  (`cobranzas/mora.service.ts:266`), which is past 17; the model leaves that hour
  out.
- `applyGuarantorManualIdentity` names every APPROVED candidate of the case
  (`case-guarantors/case-guarantors.repository.ts:96`).
- After the third rejected candidate nothing in this code moves the case on
  (`case-guarantors/case-guarantors.service.ts:318`).
- `calcularSaldoActualizado` reads the instalments and their sums in separate
  statements (`cobranzas/mora.service.ts:115`): an application that commits
  between them is half seen in the amount the customer is told.  `QuoteIsBetween`
  bounds the difference.
- A loan of a few cents has instalments that repay nothing
  (`offerEngine/offer-engine.service.ts:263`); nothing asks for more than an
  amount above 0.

## 6. What is proved

TLAPS checks these for every value of the constants that meets the modules'
assumptions (`CaseContractAssumption`, `CobranzasAssumption`,
`BcraRequestsAssumption`, `ContractDataAssumption`, `CaseOriginationAssumption`,
`ZagaAuthAssumption`, and for `CreditProofs` `CreditAssumption`,
`InstallmentsAssumption` and `DebtCurveAssumption`).  Type
invariants are theorems (`TypeCorrect`, part of `Invariance` where there is no
theorem of that name) and no property of a run.

| module | theorems |
|---|---|
| `CaseContractProofs` | `Invariance` (`IInv`), `TypeCorrect`, `ActiveContractUnique`, `LendingUnique`, `SignedLends`, `ActiveInFlow`, `TitularSigns`, `NoticesUnique`; and, if no COMMIT acknowledgement is lost, `LoansBacked`, `ClosedFinal`, `Refinement` (of `LoanIssuance`) |
| `CobranzasProofs` | `Invariance`, `TypeCorrect`, `PaymentAppliedOnce`, `NoSurplusBeforePaid`, `BalanceAgrees`, `OrderOfApplication`, `NothingUndone`, `FullPayment`; of the composition with `Cartera`: `CarteraRefinesCobranzas`, `CarteraInvariance`, `QuoteBounds`, `BucketsOnlyWorsen` |
| `BcraRequestsProofs` | `Invariance`, `TypeCorrect`, `SlotsCounted`, `NoVainWait`, `FirstServed` |
| `ContractDataProofs` | `Invariance`, `UsableTokenUnique`, `SubmitsOnce`, `StartsCollected`, `CompletesInTime` |
| `CaseOriginationProofs` | `Invariance`, `TypeCorrect`, `OneCase`, `OneOffer`, `FinalBacked`, `AttemptsSound`, `DecisionsKept`, `LeadLeaves` |
| `CreditProofs` | `Invariance` (`Inv`), `LoanKeepsItsTerms`, `SameSchedule`, `OfferIsCharged`, `QuoteAddsUp`, `OffersAddUp`, `NothingIsLeftOwed`, `LoansAreCollectable`, `WorseReportsScoreNoBetter`, `DebtorsAreScoredInOrder` |
| `ZagaAuthProofs` | `Invariance` (`IInv`), `TypeCorrect`, `LockFollows`, `FailuresCounted`, `RevocationAudited` |

**CaseContract.**  Every step is a start request's insert, a webhook that signs,
or *quiet* (`Quiet`: it opens nothing, signs nothing, reopens nothing).  The
safety properties are not inductive alone: `RowsOK` ties the status of a row to
the point its start request has reached (so that the second transaction, which
updates without looking, finds the row CREATED) and to the external ids (so
that a webhook finds only rows that have passed it); `LendingOK` ties loans to
the rows that gave them.  `SignaturesOK` says of every webhook on its way that
the provider has the signature it reports, which is what keeps the titular's
column his own, and `NoticesOK` that the one notification of a case's loan is
under way, received or lost.  The first two are weakened by `CommitAckLost`, and the theorems
that need the strong form assume `"COMMIT_ACK" \notin Environment`.

**Cobranzas.**  `CuotaOK` says what the sums of one instalment are bounded by
and how they agree with its balance and state, `OldestFirst` orders the
instalments, and `TxOK` says the same of the uncommitted copy a running
application works on, with what it has spent and passed so far; the committed
state gets its properties from the copy when `MarkImputado` commits.  Amounts
and rates are arbitrary: rounding appears only as a natural number.

Three properties compare walks over the instalments that add up what is asked for
(`calcularTotalAdeudado`, the quote), so they need the lemmas of `SumTheorems`.
`CoversOK` says that while no time passes a payment which is not partial still
has what is asked for all the instalments it has to come to, and has settled
those it has passed, from which `FullPaymentSettles` follows at the commit.  The
proof found what the run's amounts had not: an instalment whose rounded total is
a cent short of its parts keeps that cent when the total is paid, and the
property says so now (the run has such an instalment and amount).  `ConsultaOK`
bounds what a quote has added up by what its instalments owed when it began and
what they owe now.  `Cartera` composes with `Cobranzas` without touching its
variables (`CarteraRefinesCobranzas`), so every theorem about `Cobranzas` holds
beside it.

**BcraRequests.**  `IInv` adds to the count of the slots that the queue holds
exactly the waiting calls (`QueueOK`), that slots are all in use while it is not
empty, and that only a call with an attempt left makes a pause (`BackoffOK`),
without which the bound on attempts is not inductive.

**ContractData.**  That a signer has one *usable* token is not inductive: an
initiation looks at pending, expired and used tokens together.  `LiveOK` says it
of the tokens that were not replaced, pending or used, and that a collecting
case has one for each signer and at least one that is not used, which is what
makes the count of used tokens reach the total only with the last submission.
`SavedOK` ties what was written to the used tokens, so that a complete case has
all of it; `RowsOK` ties a token to a signer that its case expects.

**CaseOrigination.**  `OfferOK` makes the current offer the last one and the only
one that is not superseded; since it is accepted only in a case that is
approved, a case that waits for the CEO has none that a new offer would fail to
supersede.  `AttemptsOK` numbers the candidates without gaps and leaves only the
last pending: a further candidate (`AddAttempt`) and a decision
(`DecideAttempt`) both keep it, for which the cardinality theorems are needed.
`BackedOK` says that a case in PENDING_NOSIS, not only an approved one, has a
guarantor of the CEO's when it needs one: the candidate decided upon is the
newest, and none is added before the case leaves that status.

**Credit.**  `Inv` says that every offer's quote is of its own terms, that contract
and loan name accepted offers, and that a disbursed loan has the schedule of its
offer's terms; that an accepted offer keeps its terms and status is what makes
it inductive.  `SameSchedule` then shows the two services' schedules equal: they
differ only in how they make an instalment's gross (the quota and its VAT, or
the sum of the parts), which is the same number by `PlusMinus`, because the
interest taken off the quota is added again (`DivisionIsUnique`), and the last
instalment's gross is computed anew in both.  
That the instalments add up is an induction over a balance defined by recursion.
The library's induction cannot be instantiated here, so `SumTheorems` proves its
own, over sets of numbers (`NaturalInduction`), and from it that a function
defined by recursion on `0..n` satisfies its equation (`Recursion`).  With them
the powers and the balances exist, every unrounded amount is a whole number of
units of `1/Den` (`BaseUnits`, `InterestUnits`, `VatUnits`,
`AmortizationUnits`), the balance after `i` instalments has a closed form
(`SaldosAreBalances`), and it is nothing after the last one
(`NothingIsLeftOwed`).  `QuoteAddsUp` follows by bounding what rounding moves in
each part.  Amounts so small that an instalment's share is below a cent are
excepted where they must be (`Amortises`): the code lends any amount above 0.
`LoansAreCollectable` closes the gap between the two models of a schedule: a
disbursed loan's instalments are what `CobranzasAssumption` asks of `Schedule`.
The amounts are the exact ones; that floating point rounds to the same cents was
compared for the instance, not proved.

`WorseReportsScoreNoBetter` compares the score of any two answers, with any number of
debts and months, of which one says something worse.  It goes in three stages.
The debts: each sum, largest value and share of worse debts is no smaller
(`DebtsOrder`, `BadDebtsOrder`, `WorstDebtOrder`).  The months: a month keeps its
place when it gets worse (`SortedWorse`), the places do not depend on the order
of the list (`SortedReversed`), and then there are no fewer bad months, the last is
no longer ago, the debt has risen for no shorter and fallen for no longer
(`HistoricalOrder`).  The score: each part of the risk, the total and the adjustment
for the trend move in the right direction, every rounding included (`TotalGrows`,
`TrendFalls`, `ScoreFalls`).  The proof needs that an answer lists a month once
(`CreditAssumption`), or its last month is not determined, and that `DebtCurve`
grows.  Two definitions had to be made exact for it: the consistency points are the
code's chain of `else if`, not a CASE whose arms overlap, and the sort is stable.
What is compared is the model's score, whose fractions are rounded down; that the
code's floating point never reverses two scores is not proved.

**ZagaAuth.**  `LoginsOK` ties a login's place to its user and its session,
`LogoutsOK` a logout's place to the session it has revoked or found revoked;
with them the three properties are inductive.  `NoFailureIsLost` is kept by
`IncrementFailedAttempts` alone, through the cardinality theorems.

Only model-checked: liveness (`PendingEnds`, `CreatedEnds`, `CallsEnd`,
`RequestsEnd`), which is beyond the prover, and the two violations.

## 7. What is not modelled

- Lists, filters, pages and the dashboard, and the list of the audit log: queries
  that change nothing.
- Documents: the PDF's layout, number words, Gotenberg's conversion (its success
  or failure is in `CaseContract`).
- Text: the parts of a debtor's name (`parseDenominacion`), the checksum of a CUIT,
  the wording of answers.
- The yearly rates printed beside an offer (TEA, CFTNA, CFTEA).
- Promises to pay and free history entries: single inserts that nothing reads to
  decide on.  `user_prequals` and the upsert of a user follow the outcome of a
  prequalification and decide nothing.
- The hand-typed identity of the applicant.
- Reference data, seeds, scripts, start-up.
- n8n, Signatura, Gotenberg, BCRA and PostgreSQL are external and modelled by what
  this code expects of them.

Five hazards have no property, four of them because the code has no defence
against them (see the observations): the document left with the provider, the
contract marked FAILED after its COMMIT, the pool taken by applications, and the
body of an answer of BCRA, which is read without a timer and may never come.  The
fifth, the refusal of a codeudor recorded as the titular's, decides nothing once
the contract is closed.

Cases that refinance a loan are inserted by nobody in this code: `CaseContract`
is given them, `CaseOrigination` does not have them.

## 8. Plan

1. Composition of `ContractData` and `CaseContract` through cases.status, and
   an abstract specification of a case's life that `CaseOrigination` and
   `ContractData` implement.
2. `DbPool` with `cobranzas` and `contracts` programs read from a larger set, and the
   pool's invariant (connections in use are held, the queue is empty while one
   is free) as a theorem.
