------------------------------- MODULE Cartera -------------------------------
(***************************************************************************)
(* Reading a loan that is being paid: the portfolio, its buckets, and the   *)
(* quote of what is owed, beside the payments of Cobranzas.                 *)
(*                                                                         *)
(* The portfolio is one SELECT.  The quote is not: calcularSaldoActualizado *)
(* reads the instalments, and then the payments and the clock once for each *)
(* of them that is due, outside any transaction, while payments are being   *)
(* applied.                                                                *)
(***************************************************************************)
EXTENDS Cobranzas

VARIABLE consulta   \* the quote being computed or answered, SinConsulta without one

carteraVars == <<vars, consulta>>

SinConsulta == [running |-> FALSE]

CarteraInit == Init /\ consulta = SinConsulta

-----------------------------------------------------------------------------
(* The portfolio: cobranzas-backoffice.service.ts, getCarteraActiva.  The   *)
(* session of the database is taken to be in UTC.                           *)

\* Mutant: an instalment paid in part counts as paid.
SinPagar(cs) == {i \in Cuotas : cs[i].estado \in {"pendiente", "vencida"}}

\* estado NOT IN ('pagada', 'refinanciada')
Abiertas(cs) == Activas(cs)

\* Days the loan is late: of its oldest unpaid instalment, or, when none is
\* due, less the days that are left until the next.
SinCuotas == -999
EffectiveDpd(cs, t) ==
  LET dpds    == {DPD(i, t) : i \in Abiertas(cs)}
      overdue == {d \in dpds : d > 0}
  IN  IF overdue # {} THEN Max(overdue)
      ELSE IF dpds # {} THEN Max(dpds) ELSE SinCuotas

\* asignarBucket: the first day of each bucket, the mildest first.
BucketStarts == <<-3, 1, 3, 7, 14, 21, 30, 45, 90>>
AsignarBucket(dpd) == Cardinality({b \in DOMAIN BucketStarts : dpd >= BucketStarts[b]})

-----------------------------------------------------------------------------
(* The quote: mora.service.ts, calcularSaldoActualizado. *)

\* The loop goes on from instalment i to the next that is due now, which it
\* asks the payments of; without one it has met the current instalment.
Seguir(c, i) ==
  LET rest == {j \in Activas(c.cuotas) : j > i}
      due  == {j \in rest : DPD(j, now) > 0}
  IN  IF due # {} THEN [c EXCEPT !.i = Min(due)]
      ELSE [c EXCEPT !.i = 0, !.vigente = IF rest = {} THEN 0 ELSE Min(rest)]

\* GET /loans/:loanId/saldo-actualizado, and getLoanDetail, which asks for it.
\* desde and alPrincipio are for the property.
Consultar ==
  /\ consulta = SinConsulta
  /\ loan = "DISBURSED"
  /\ consulta' = Seguir([running |-> TRUE, i |-> 0, cuotas |-> cuotas, vencido |-> 0,
                         solapada |-> FALSE, vigente |-> 0, desde |-> now,
                         alPrincipio |-> TotalAdeudado(cuotas, now)], 0)
  /\ UNCHANGED vars

\* Mutant: the payments are not asked for.
SumsSinPagos(i) == NoSums

\* getSumsForCuota, and calcularMoraParaCuota at the time it answers.
SumsLeidas(i) == cuotas[i].aplicado

LeerSums ==
  /\ consulta # SinConsulta
  /\ consulta.i # 0
  /\ LET i == consulta.i
         saldo == SaldoActualizado(i, SumsLeidas(i), now)
     IN  consulta' = Seguir([consulta EXCEPT !.vencido = @ + saldo,
                                             !.solapada = @ \/ DPD(i, now) >= 7], i)
  /\ UNCHANGED vars

\* total_para_quedar_al_dia
TotalParaQuedarAlDia(c) ==
  c.vencido + (IF c.solapada /\ c.vigente # 0 THEN c.cuotas[c.vigente].saldo ELSE 0)

Responder ==
  /\ consulta # SinConsulta
  /\ consulta.i = 0
  /\ consulta' = SinConsulta
  /\ UNCHANGED vars

CarteraNext ==
  \/ Next /\ UNCHANGED consulta
  \/ Consultar \/ LeerSums \/ Responder

CarteraSpec == CarteraInit /\ [][CarteraNext]_carteraVars

-----------------------------------------------------------------------------
\* A quote mixes instalments read before a payment with payments read after it:
\* it asks for no more than was owed when it was asked for, and for no less than
\* is owed when it is answered, at the same instant.
QuoteIsBetween ==
  (consulta # SinConsulta /\ consulta.i = 0 /\ consulta.desde = now) =>
    /\ TotalParaQuedarAlDia(consulta) <= consulta.alPrincipio
    /\ TotalParaQuedarAlDia(consulta) >= TotalAdeudado(cuotas, now)

\* The portfolio never moves a loan to a milder bucket unless an instalment has
\* just been paid in full: not as time goes by, not by a partial payment, not
\* by the nightly marking.
MilderOnlyWhenPaid ==
  [][AsignarBucket(EffectiveDpd(cuotas', now')) < AsignarBucket(EffectiveDpd(cuotas, now))
       => \E i \in Cuotas : cuotas'[i].estado = "pagada" /\ cuotas[i].estado # "pagada"]_vars

-----------------------------------------------------------------------------
(* The inductive invariant of the proofs. *)

Consulta ==
  [running : {TRUE}, i : 0..N, cuotas : [Cuotas -> Cuota], vencido : Nat, solapada : BOOLEAN,
   vigente : 0..N, desde : Nat, alPrincipio : Int]

\* The overdue instalments whose payments the quote has asked for.
Leidas(c) == {i \in Vencidas(c.cuotas, c.desde) : c.i = 0 \/ i < c.i}

\* What each instalment owes if it is overdue.
Debido(cs, t) == [i \in Cuotas |-> SaldoActualizado(i, cs[i].aplicado, t)]

\* While no time passes, what the quote has added up lies between what its
\* instalments owed when it began and what they owe now.
ConsultaOK ==
  consulta # SinConsulta =>
    LET c == consulta
        futuras == Activas(c.cuotas) \ Vencidas(c.cuotas, c.desde)
    IN  /\ c \in Consulta
        /\ c.desde <= now
        /\ c.alPrincipio = TotalAdeudado(c.cuotas, c.desde)
        /\ \A i \in Cuotas : /\ CuotaOK(i, c.cuotas[i])
                             /\ Crece(c.cuotas[i].aplicado, cuotas[i].aplicado)
        /\ c.desde = now =>
             /\ c.i # 0 => c.i \in Vencidas(c.cuotas, now)
             /\ c.i = 0 => c.vigente = IF futuras = {} THEN 0 ELSE Min(futuras)
             /\ c.vencido <= SumOn(Debido(c.cuotas, now), Leidas(c))
             /\ c.vencido >= SumOn(Debido(cuotas, now), Leidas(c))
             /\ c.solapada <=> \E i \in Leidas(c) : DPD(i, now) >= 7
=============================================================================
