------------------------------- MODULE Credit -------------------------------
(* What a lead is lent and charged: the prequalification scores BCRA's        *)
(* answers (Zcore), the case is offered a schedule (FrenchSchedule), a        *)
(* contract is made of the accepted offer, and the loan it becomes is charged *)
(* a schedule computed anew when it is disbursed.                             *)
(*                                                                            *)
(* Each operation is one transaction on a locked row and one step here.  The  *)
(* signing of the contract is CaseContract's subject and one step here, and   *)
(* the case's statuses are CaseOrigination's; here an operation of this code  *)
(* may come whenever its own guards let it.                                   *)
EXTENDS Zcore, FrenchSchedule

CONSTANTS
  Reports,      \* pairs of answers of BCRA
  NoReport,     \* no prequalification waits for its answers
  Terms,        \* pre-approved amount and rate of an offer
  MaxOffers     \* bound on the offers of the case

ASSUME CreditAssumption ==
  /\ NoReport \notin Reports
  /\ \A r \in Reports :
       /\ r \in [latest : LatestAnswer, historical : HistoricalAnswer]
       /\ \A i, j \in DOMAIN r.historical.periodos :     \* BCRA lists a month once
            r.historical.periodos[i].periodo = r.historical.periodos[j].periodo => i = j
  /\ MaxOffers \in Nat \ {0}
  /\ \A terms \in Terms :
       /\ terms.amount \in Nat \ {0}
       /\ terms.rate.num \in Nat \ {0}
       /\ terms.rate.den \in Nat \ {0}

VARIABLES
  report,       \* the answers runPrequal has in hand
  prequal,      \* what it has answered to n8n and kept in user_prequals
  offers,       \* case_offers by version: terms, status, and the quote sent
  contract,     \* offer of the case's active contract, 0 without one
  loan          \* its offer, whether it is disbursed, and its cuotas

vars == <<report, prequal, offers, contract, loan>>

Init ==
  /\ report \in Reports
  /\ prequal = [answer |-> "NONE"]
  /\ offers = <<>>
  /\ contract = 0
  /\ loan = [offer |-> 0, disbursed |-> FALSE, cuotas |-> <<>>]

(* POST /prequal/run once BCRA has answered.  The score itself is read by     *)
(* nobody after the risk level is made of it.                                 *)
Evaluation(r) ==
  LET class == ClassifyBcraResponses(r.latest, r.historical)
  IN  IF class # "SUCCESS"
      THEN [answer |-> class,
            mayBeOffered |-> class \in {"BCRA_NO_DATA", "BCRA_UNAVAILABLE"}]
      ELSE [answer |-> RiskLevel(Score(r)), mayBeOffered |-> Eligible(Score(r))]

RunPrequal ==
  /\ report # NoReport
  /\ prequal' = Evaluation(report)
  /\ report' = NoReport
  /\ UNCHANGED <<offers, contract, loan>>

(* POST /cases/:caseId/create-offer: the quote is sent to the client, and the *)
(* offers still open are superseded; an accepted one stays accepted.          *)
Quote(terms) ==
  LET schedule == OfferedSchedule(terms)
  IN  [schedule       |-> schedule,
       payment_amount |-> schedule[1].gross,
       total_interest |-> SumOf(schedule, "interest"),
       total_vat      |-> SumOf(schedule, "vat"),
       total_payable  |-> SumOf(schedule, "gross")]

Superseded(offer) ==
  [offer EXCEPT !.status = IF @ = "SENT" THEN "SUPERSEDED" ELSE @]

CreateCaseOffer(terms) ==
  /\ prequal.answer # "NONE" /\ prequal.mayBeOffered
  /\ Len(offers) < MaxOffers
  /\ offers' = Append([v \in DOMAIN offers |-> Superseded(offers[v])],
                      [terms |-> terms, status |-> "SENT", quote |-> Quote(terms)])
  /\ UNCHANGED <<report, prequal, contract, loan>>

(* The current offer, the last one, is accepted with the final approval. *)
AcceptOffer ==
  /\ offers # <<>>
  /\ offers[Len(offers)].status = "SENT"
  /\ offers' = [offers EXCEPT ![Len(offers)].status = "ACCEPTED"]
  /\ UNCHANGED <<report, prequal, contract, loan>>

(* POST start-contract: the contract names the current offer when it is       *)
(* accepted, else the one accepted last.                                      *)
AcceptedOffers == {v \in DOMAIN offers : offers[v].status = "ACCEPTED"}
StartContract ==
  /\ contract = 0
  /\ \E v \in AcceptedOffers :
       /\ \A w \in AcceptedOffers : w <= v
       /\ contract' = v
  /\ UNCHANGED <<report, prequal, offers, loan>>

(* The contract ends: signed, it becomes the case's loan unless it has one. *)
EndContract(signed) ==
  /\ contract # 0
  /\ contract' = 0
  /\ loan' = IF signed /\ loan.offer = 0 THEN [loan EXCEPT !.offer = contract] ELSE loan
  /\ UNCHANGED <<report, prequal, offers>>

(* Mutant: the loan is charged on the offer the case has now. *)
CurrentOffer == Len(offers)

(* POST the disbursement of a loan: its schedule is made of its offer's terms. *)
DisbursedOffer == loan.offer
RegistrarDesembolso ==
  /\ loan.offer # 0
  /\ ~loan.disbursed
  /\ loan' = [loan EXCEPT !.disbursed = TRUE,
                          !.cuotas = ChargedSchedule(offers[DisbursedOffer].terms)]
  /\ UNCHANGED <<report, prequal, offers, contract>>

Next ==
  \/ RunPrequal
  \/ \E terms \in Terms : CreateCaseOffer(terms)
  \/ AcceptOffer
  \/ StartContract
  \/ \E signed \in BOOLEAN : EndContract(signed)
  \/ RegistrarDesembolso

Spec == Init /\ [][Next]_vars

----------------------------------------------------------------------------
(* Reports that say something worse of the same debtor. *)
WorseEntity(e) ==
  {[e EXCEPT !.situacion = @ + 1], [e EXCEPT !.dias = @ + 30]}
    \union {[e EXCEPT !.flags = @ \union {f}] : f \in HardFlags \union SoftFlags}
WorseLatest(latest) ==
  UNION {{[latest EXCEPT !.periodos[1].entidades[i] = e] :
            e \in WorseEntity(latest.periodos[1].entidades[i])} :
         i \in DOMAIN latest.periodos[1].entidades}
LastMonth(periodos) ==
  CHOOSE i \in DOMAIN periodos :
    \A j \in DOMAIN periodos : periodos[j].periodo <= periodos[i].periodo
WorseHistorical(historical) ==
  LET months == historical.periodos
  IN  {[historical EXCEPT !.periodos[i].entidades[1].situacion = @ + 1] : i \in DOMAIN months}
        \union {[historical EXCEPT !.periodos[LastMonth(months)].entidades[1].monto = @ + more] :
                  more \in IF months = <<>> THEN {} ELSE {1, 10, 40}}
Reordered(historical) ==
  LET months == historical.periodos
  IN  {[historical EXCEPT !.periodos = [i \in DOMAIN months |-> months[Len(months) + 1 - i]]]}
Worse(r) ==
  {[r EXCEPT !.latest = l] : l \in WorseLatest(r.latest)}
    \union {[r EXCEPT !.historical = h] :
              h \in WorseHistorical(r.historical) \union Reordered(r.historical)}

(* A debtor's score never rises when one of his debts is in a worse           *)
(* situation, more days late or flagged, when a month before was worse, or    *)
(* when his debt has grown in the last month; and it does not depend on the   *)
(* order in which BCRA lists the months.                                      *)
WorseNeverScoresBetter ==
  (report # NoReport /\ ClassifyBcraResponses(report.latest, report.historical) = "SUCCESS") =>
    LET score == Score(report)
    IN  \A worse \in Worse(report) : Score(worse) <= score

(* A disbursed loan is charged, instalment by instalment and to the cent,     *)
(* what the offer its signed contract named had quoted: two services compute  *)
(* the schedule, weeks apart, and the case may have been offered other terms  *)
(* in between.  A loan's contract was of an accepted offer.                   *)
OfferedIsCharged ==
  /\ loan.offer # 0 => offers[loan.offer].status = "ACCEPTED"
  /\ loan.disbursed =>
       LET quote == offers[loan.offer].quote
       IN  /\ loan.cuotas = quote.schedule
           /\ SumOf(loan.cuotas, "gross") = quote.total_payable

(* A quoted schedule adds up: the capital is amortised exactly, every part is *)
(* rounded by itself and yet an instalment is within a cent of its parts, no  *)
(* instalment is above the payment quoted by more than the rounding of the    *)
(* others, and the totals are those of the instalments within a cent each.    *)
(* Every instalment amortises something, unless so little is lent that the    *)
(* first one's share, the smallest, is less than a cent for each instalment:  *)
(* the code only asks for an amount above 0.                                  *)
Distance(a, b) == Max({a - b, b - a})
Amortises(terms) == Amortization(terms, 1, Cents(terms.amount)).whole >= Installments
AddsUp(quote, terms) ==
  LET s == quote.schedule
      Parts(i) == s[i].amortization + s[i].interest + s[i].vat
  IN  /\ SumOf(s, "amortization") = terms.amount
      /\ \A i \in Numbers :
           /\ Amortises(terms) => s[i].amortization > 0
           /\ Distance(s[i].gross, Parts(i)) <= 1
           /\ s[i].gross <= quote.payment_amount + Installments
      /\ Distance(quote.total_payable,
                  terms.amount + quote.total_interest + quote.total_vat)
           <= Installments - 1
ScheduleAddsUp ==
  \A v \in DOMAIN offers : AddsUp(offers[v].quote, offers[v].terms)

=============================================================================
