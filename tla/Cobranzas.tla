------------------------------- MODULE Cobranzas -------------------------------
(***************************************************************************)
(* Collecting one disbursed loan: instalments (cuotas), payments (pagos),  *)
(* and the application (imputación) of payments to instalments.            *)
(*                                                                         *)
(* Applying a payment is one transaction that walks the instalments and    *)
(* reads the clock at each of them; its steps are separate here and its    *)
(* writes stay in tx until MarkImputado commits them.  It holds a lock on  *)
(* every unpaid instalment, so whatever updates them waits for tx = Idle.  *)
(*                                                                         *)
(* Amounts are cents.  Time is a day in Argentina (UTC-3) cut in three:    *)
(* until 17:00, until 21:00, and until midnight, when the UTC date is      *)
(* already the next one.  (The hour after midnight, which some builds of   *)
(* ICU print as 24 and so as past 17:00, is left out.)                     *)
(***************************************************************************)
EXTENDS Integers, Sequences, Sums

CONSTANTS
  Schedule,  \* instalments by due date: [capital, interes, iva, total, vence]
  Tna,       \* the offer's tasa_nominal_anual, in percent
  Pagos,     \* identities for the rows of pagos
  Montos,    \* amounts that are paid
  Instants   \* the instants at which something happens

N == Len(Schedule)
Cuotas == 1..N

ASSUME CobranzasAssumption ==
  /\ Schedule \in Seq([capital : Nat \ {0}, interes : Nat, iva : Nat, total : Nat, vence : Nat])
  /\ \A i, j \in Cuotas : i < j => Schedule[i].vence < Schedule[j].vence
  \* The parts and their sum are rounded apart: FrenchSchedule.
  /\ \A i \in Cuotas :
       LET q == Schedule[i] IN q.total - (q.capital + q.interes + q.iva) \in -1..1
  /\ Tna \in Nat
  /\ Montos \subseteq Nat \ {0}
  /\ Instants \subseteq Nat

VARIABLES
  now,     \* the current instant
  loan,    \* loans.status
  cuotas,  \* rows of cuotas, with the sums of their pagos_cuotas
  pagos,   \* rows of pagos, with the sum of their pagos_cuotas
  tx       \* the transaction that applies a payment, Idle if there is none

vars == <<now, loan, cuotas, pagos, tx>>

EstadoCuota == {"pendiente", "vencida", "parcialmente_pagada", "pagada"}
EstadoPago == {"none", "recibido", "dudoso", "validado", "rechazado"}

Sums == [mora : Nat, ivaMora : Nat, interes : Nat, iva : Nat, capital : Nat]
Cuota == [estado : EstadoCuota, saldo : Nat, aplicado : Sums]
Pago == [estado : EstadoPago, monto : Nat, imputado : BOOLEAN, esParcial : BOOLEAN, aplicado : Nat]

NoSums == [mora |-> 0, ivaMora |-> 0, interes |-> 0, iva |-> 0, capital |-> 0]
NoPago == [estado |-> "none", monto |-> 0, imputado |-> FALSE, esParcial |-> FALSE, aplicado |-> 0]
Idle == [running |-> FALSE]
\* desde is for the properties: the code keeps no instant of a transaction.
Tx == [running : {TRUE}, pago : Pagos, i : Nat \ {0}, saldo : Nat, aplicado : Nat,
       parcial : BOOLEAN, desde : Nat, cuotas : [Cuotas -> Cuota]]

TypeOK ==
  /\ now \in Nat
  /\ loan \in {"CREATED", "DISBURSED"}
  /\ cuotas \in [Cuotas -> Cuota]
  /\ pagos \in [Pagos -> Pago]
  /\ tx \in {Idle} \union Tx

\* The rows generarSchedule inserts; nothing reads them before Desembolsar.
Init ==
  /\ now \in Instants
  /\ loan = "CREATED"
  /\ cuotas = [i \in Cuotas |->
                 [estado |-> "pendiente", saldo |-> Schedule[i].total, aplicado |-> NoSums]]
  /\ pagos = [p \in Pagos |-> NoPago]
  /\ tx = Idle

-----------------------------------------------------------------------------
(* mora.service.ts *)

UtcDay(t) == (t + 1) \div 3
Before17(t) == t % 3 = 0

\* Math.round(num / den) for what is not negative.
Round(num, den) == (2 * num + den) \div (2 * den)

\* Math.max(0, a - b).
Resta(a, b) == IF a > b THEN a - b ELSE 0

Menor(a, b) == IF a < b THEN a ELSE b

DPD(i, t) == UtcDay(t) - Schedule[i].vence

Bonificable(i, t) == DPD(i, t) \in 1..2 /\ Before17(t)

Mora(i, capital, t) ==
  IF DPD(i, t) <= 0 \/ Bonificable(i, t) THEN 0
  ELSE Round(capital * Tna * DPD(i, t), 36500)

IvaMora(mora) == Round(21 * mora, 100)

\* What is still to be paid of each concept; s are the sums applied so far.
Pendiente(i, s, t) ==
  LET capital == Resta(Schedule[i].capital, s.capital)
      mora == Mora(i, capital, t)
  IN [mora    |-> Resta(mora, s.mora),
      ivaMora |-> Resta(IvaMora(mora), s.ivaMora),
      interes |-> Resta(Schedule[i].interes, s.interes),
      iva     |-> Resta(Schedule[i].iva, s.iva),
      capital |-> capital]

Nucleo(s) == s.capital + s.interes + s.iva
Suma(s) == s.mora + s.ivaMora + Nucleo(s)

\* calcularMoraParaCuota: the mora already paid is not taken off.
SaldoActualizado(i, s, t) ==
  LET mora == Mora(i, Resta(Schedule[i].capital, s.capital), t)
  IN mora + IvaMora(mora) + Nucleo(Pendiente(i, s, t))

Activas(cs) == {i \in Cuotas : cs[i].estado # "pagada"}
Vencidas(cs, t) == {i \in Activas(cs) : DPD(i, t) > 0}
Solapada(cs, t) == \E i \in Vencidas(cs, t) : DPD(i, t) >= 7

\* The instalment that is not yet due and comes next, if any.
Vigente(cs, t) ==
  LET futuras == Activas(cs) \ Vencidas(cs, t)
  IN {i \in futuras : \A j \in futuras : i <= j}

\* What is asked for an instalment, by each of the two rules.
Exigible(cs, t) == Vencidas(cs, t) \union (IF Solapada(cs, t) THEN Vigente(cs, t) ELSE {})

\* Mutant: no VAT on the mora.
TotalSinIvaMora(cs, t) ==
  SumOn([i \in Cuotas |-> IF i \in Vencidas(cs, t)
                          THEN Mora(i, Resta(Schedule[i].capital, cs[i].aplicado.capital), t)
                               + Nucleo(Pendiente(i, cs[i].aplicado, t))
                          ELSE cs[i].saldo],
        Exigible(cs, t))

\* What is asked for instalment i when it is.
Exigido(cs, t) ==
  [i \in Cuotas |-> IF i \in Vencidas(cs, t) THEN SaldoActualizado(i, cs[i].aplicado, t)
                    ELSE cs[i].saldo]

\* calcularTotalAdeudado.
TotalAdeudado(cs, t) == SumOn(Exigido(cs, t), Exigible(cs, t))

Minimo(total) == Round(4 * total, 10)

-----------------------------------------------------------------------------
(* Disbursement, payments and their validation. *)

\* POST /private/loans/:loanId/desembolso.
Desembolsar ==
  /\ loan = "CREATED"
  /\ loan' = "DISBURSED"
  /\ UNCHANGED <<now, cuotas, pagos, tx>>

\* POST /loans/:loanId/pagos.
Registrar(p, monto) ==
  /\ loan = "DISBURSED"
  /\ pagos[p].estado = "none"
  /\ pagos' = [pagos EXCEPT ![p] = [NoPago EXCEPT !.estado = "recibido", !.monto = monto]]
  /\ UNCHANGED <<now, loan, cuotas, tx>>

\* Mutant: a rejected payment may be looked at again.
ValidableOrRejected(p) == pagos[p].estado \in {"recibido", "dudoso", "rechazado"}

\* ESTADOS_IMPUTABLES, but for pendiente_validacion, which nothing sets.
Validable(p) == pagos[p].estado \in {"recibido", "dudoso"}

\* PATCH /private/cobranzas/pagos/:pagoId/validar.
Validar(p, estado) ==
  /\ Validable(p)
  /\ pagos' = [pagos EXCEPT ![p].estado = estado]
  /\ UNCHANGED <<now, loan, cuotas, tx>>

\* POST /cobranzas/internal/marcar-vencidas.
MarcarVencidas ==
  /\ tx = Idle
  /\ loan = "DISBURSED"
  /\ cuotas' = [i \in Cuotas |->
                  IF cuotas[i].estado = "pendiente" /\ DPD(i, now) > 0
                  THEN [cuotas[i] EXCEPT !.estado = "vencida"]
                  ELSE cuotas[i]]
  /\ UNCHANGED <<now, loan, pagos, tx>>

-----------------------------------------------------------------------------
(* imputar, called by validar and by POST .../pagos/:pagoId/imputar. *)

\* Mutant: a payment may be applied again.
ImputableAgain(p) == pagos[p].estado = "validado"

Imputable(p) == pagos[p].estado = "validado" /\ ~ pagos[p].imputado

\* Locks, checks, the 40% rule.
Imputar(p) ==
  /\ tx = Idle
  /\ Imputable(p)
  /\ pagos[p].monto >= Minimo(TotalAdeudado(cuotas, now))
  /\ tx' = [running |-> TRUE, pago |-> p, i |-> 1, saldo |-> pagos[p].monto, aplicado |-> 0,
            parcial |-> pagos[p].monto < TotalAdeudado(cuotas, now), desde |-> now,
            cuotas |-> cuotas]
  /\ UNCHANGED <<now, loan, cuotas, pagos>>

\* Mutant: capital before interest.
AplicarCapitalAntes(pend, saldo) ==
  LET mora    == Menor(saldo, pend.mora)
      ivaMora == Menor(saldo - mora, pend.ivaMora)
      capital == Menor(saldo - mora - ivaMora, pend.capital)
      interes == Menor(saldo - mora - ivaMora - capital, pend.interes)
      iva     == Menor(saldo - mora - ivaMora - capital - interes, pend.iva)
  IN [mora |-> mora, ivaMora |-> ivaMora, interes |-> interes, iva |-> iva, capital |-> capital]

\* mora, its VAT, interest, its VAT, capital.
Aplicar(pend, saldo) ==
  LET mora    == Menor(saldo, pend.mora)
      ivaMora == Menor(saldo - mora, pend.ivaMora)
      interes == Menor(saldo - mora - ivaMora, pend.interes)
      iva     == Menor(saldo - mora - ivaMora - interes, pend.iva)
      capital == Menor(saldo - mora - ivaMora - interes - iva, pend.capital)
  IN [mora |-> mora, ivaMora |-> ivaMora, interes |-> interes, iva |-> iva, capital |-> capital]

Mas(s, a) == [mora |-> s.mora + a.mora, ivaMora |-> s.ivaMora + a.ivaMora,
              interes |-> s.interes + a.interes, iva |-> s.iva + a.iva,
              capital |-> s.capital + a.capital]

\* Mutant: what was applied to the mora counts as capital.
ResolverEstadoConMora(c, saldo, a) ==
  IF saldo <= Suma(a) - Nucleo(a) THEN "pagada"
  ELSE IF Nucleo(a) > 0 THEN "parcialmente_pagada" ELSE c.estado

ResolverEstado(c, saldo, a) ==
  IF saldo <= 0 THEN "pagada"
  ELSE IF Nucleo(a) > 0 THEN "parcialmente_pagada" ELSE c.estado

\* An instalment after a was applied to what was pending of it.
Imputada(c, pend, a) ==
  LET saldo == Nucleo(pend) - Nucleo(a)
  IN [estado |-> ResolverEstado(c, saldo, a), saldo |-> saldo, aplicado |-> Mas(c.aplicado, a)]

\* What ImputarCuota finds to be paid of the instalment it has come to.
Turno == Pendiente(tx.i, tx.cuotas[tx.i].aplicado, now)

\* One turn of the loop.
ImputarCuota ==
  /\ tx # Idle
  /\ tx.saldo > 0
  /\ tx.i \in Activas(tx.cuotas)
  /\ Suma(Turno) > 0
  /\ LET a == Aplicar(Turno, tx.saldo)
     IN tx' = [tx EXCEPT !.i = tx.i + 1,
                         !.saldo = tx.saldo - Suma(a),
                         !.aplicado = tx.aplicado + Suma(a),
                         !.cuotas = [tx.cuotas EXCEPT ![tx.i] = Imputada(tx.cuotas[tx.i], Turno, a)]]
  /\ UNCHANGED <<now, loan, cuotas, pagos>>

\* Mutant: only what is due gets money.
SaltarNoVencida ==
  /\ tx # Idle
  /\ tx.saldo > 0
  /\ tx.i \in Cuotas
  /\ tx.i \in Vencidas(tx.cuotas, now) => Suma(Turno) = 0
  /\ tx' = [tx EXCEPT !.i = tx.i + 1]
  /\ UNCHANGED <<now, loan, cuotas, pagos>>

\* findByLoanIdForUpdate has left out what is paid; the loop skips what has
\* nothing pending.
SaltarCuota ==
  /\ tx # Idle
  /\ tx.saldo > 0
  /\ tx.i \in Cuotas
  /\ tx.i \in Activas(tx.cuotas) => Suma(Turno) = 0
  /\ tx' = [tx EXCEPT !.i = tx.i + 1]
  /\ UNCHANGED <<now, loan, cuotas, pagos>>

\* markImputado, and COMMIT.
MarkImputado ==
  /\ tx # Idle
  /\ tx.saldo = 0 \/ tx.i > N
  /\ cuotas' = tx.cuotas
  /\ pagos' = [pagos EXCEPT ![tx.pago] =
                 [pagos[tx.pago] EXCEPT !.imputado = TRUE, !.esParcial = tx.parcial,
                                        !.aplicado = pagos[tx.pago].aplicado + tx.aplicado]]
  /\ tx' = Idle
  /\ UNCHANGED <<now, loan>>

\* A statement fails or the process dies: everything is rolled back.
Rollback ==
  /\ tx # Idle
  /\ tx' = Idle
  /\ UNCHANGED <<now, loan, cuotas, pagos>>

Tick ==
  /\ now' \in {t \in Instants : t > now}
  /\ UNCHANGED <<loan, cuotas, pagos, tx>>

Next ==
  \/ Desembolsar \/ MarcarVencidas \/ Tick
  \/ ImputarCuota \/ SaltarCuota \/ MarkImputado \/ Rollback
  \/ \E p \in Pagos :
       \/ Imputar(p)
       \/ \E monto \in Montos : Registrar(p, monto)
       \/ \E estado \in {"validado", "rechazado", "dudoso"} : Validar(p, estado)

Spec == Init /\ [][Next]_vars

-----------------------------------------------------------------------------
(* What the component promises. *)

\* A payment is applied at most once, when it was validated, and never gives the
\* instalments more than its amount, whatever is rolled back or retried.
AppliedOnce ==
  \A p \in Pagos :
    /\ pagos[p].aplicado <= pagos[p].monto
    /\ pagos[p].aplicado > 0 => pagos[p].imputado
    /\ pagos[p].imputado => pagos[p].estado = "validado"

\* Money is left over from an applied payment only when the whole loan is paid.
SurplusOnlyWhenPaid ==
  \A p \in Pagos :
    pagos[p].imputado /\ pagos[p].aplicado < pagos[p].monto => Activas(cuotas) = {}

\* saldo_pendiente, which the portfolio sums up, is what has not been applied
\* of capital, interest and VAT, and an instalment is paid exactly when that is
\* nothing (an instalment nobody paid anything of keeps its rounded total).
SaldoAgrees ==
  \A i \in Cuotas :
    LET c == cuotas[i] IN
    /\ Suma(c.aplicado) > 0 => c.saldo + Nucleo(c.aplicado) = Nucleo(Schedule[i])
    /\ c.estado = "pagada" <=> Nucleo(c.aplicado) = Nucleo(Schedule[i])
    /\ Nucleo(c.aplicado) <= Nucleo(Schedule[i])

\* The contractual order: no capital before the instalment's interest and VAT,
\* and nothing for an instalment before the ones due earlier are paid.
ContractualOrder ==
  \A i \in Cuotas :
    LET s == cuotas[i].aplicado IN
    /\ s.iva > 0 => s.interes = Schedule[i].interes
    /\ s.capital > 0 => s.interes = Schedule[i].interes /\ s.iva = Schedule[i].iva
    /\ Suma(s) > 0 => \A j \in 1..(i - 1) : cuotas[j].estado = "pagada"

\* What was applied stays applied: neither a later payment, the nightly marking
\* nor a rolled back attempt takes anything from an instalment or a payment.
NothingIsUndone ==
  [][/\ \A i \in Cuotas :
          /\ Suma(cuotas'[i].aplicado) >= Suma(cuotas[i].aplicado)
          /\ cuotas[i].estado = "pagada" => cuotas'[i] = cuotas[i]
     /\ \A p \in Pagos :
          /\ pagos[p].imputado => pagos'[p] = pagos[p]
          /\ pagos[p].estado \in {"validado", "rechazado"} => pagos'[p].estado = pagos[p].estado]_vars

\* A payment that is not recorded as partial leaves nothing overdue, and of the
\* current instalment, when it was asked for too, at most the cent by which its
\* rounded total can fall short of its parts, unless the clock moved on to a
\* dearer moment while it was applied.
FullPaymentSettles ==
  [][\A p \in Pagos :
       /\ pagos'[p].imputado /\ ~ pagos[p].imputado
       /\ ~ pagos'[p].esParcial /\ tx.desde = now
       => \A i \in Exigible(cuotas, now) \intersect Activas(cuotas') :
            i \notin Vencidas(cuotas, now) /\ cuotas'[i].saldo <= 1]_vars

\* A payment that is recorded as partial leaves something overdue.
PartialPaymentLeavesDebt ==
  [][\A p \in Pagos :
       /\ pagos'[p].imputado /\ ~ pagos[p].imputado
       /\ pagos'[p].esParcial /\ tx.desde = now
       => Exigible(cuotas, now) \intersect Activas(cuotas') # {}]_vars

-----------------------------------------------------------------------------
(* The inductive invariant of the proofs. *)

CuotaOK(i, c) ==
  LET s == c.aplicado IN
  /\ s.interes <= Schedule[i].interes /\ s.iva <= Schedule[i].iva /\ s.capital <= Schedule[i].capital
  /\ Suma(s) = 0 => c.saldo = Schedule[i].total
  /\ Suma(s) > 0 => c.saldo + Nucleo(s) = Nucleo(Schedule[i])
  /\ c.estado = "pagada" <=> Nucleo(s) = Nucleo(Schedule[i])
  /\ s.iva > 0 => s.interes = Schedule[i].interes
  /\ s.capital > 0 => s.interes = Schedule[i].interes /\ s.iva = Schedule[i].iva

OldestFirst(cs) ==
  \A i \in Cuotas : Suma(cs[i].aplicado) > 0 => \A j \in 1..(i - 1) : cs[j].estado = "pagada"

\* Nothing of s is missing in r.
Crece(s, r) ==
  /\ s.mora <= r.mora /\ s.ivaMora <= r.ivaMora
  /\ s.interes <= r.interes /\ s.iva <= r.iva /\ s.capital <= r.capital

\* The running transaction has spent what it has applied, has paid all that it
\* has passed while it has money, has undone nothing, and has not touched what
\* it has still to come to.
TxOK ==
  tx # Idle =>
    /\ Imputable(tx.pago)
    /\ tx.desde <= now
    /\ tx.saldo + tx.aplicado = pagos[tx.pago].monto
    /\ \A i \in Cuotas : CuotaOK(i, tx.cuotas[i])
    /\ OldestFirst(tx.cuotas)
    /\ tx.saldo > 0 => \A j \in Cuotas : j < tx.i => tx.cuotas[j].estado = "pagada"
    /\ \A i \in Cuotas :
         /\ Crece(cuotas[i].aplicado, tx.cuotas[i].aplicado)
         /\ cuotas[i].estado = "pagada" => tx.cuotas[i] = cuotas[i]
         /\ i >= tx.i => tx.cuotas[i] = cuotas[i]

IInv ==
  /\ TypeOK
  /\ \A i \in Cuotas : CuotaOK(i, cuotas[i])
  /\ OldestFirst(cuotas)
  /\ AppliedOnce
  /\ SurplusOnlyWhenPaid
  /\ TxOK

\* While no time passes, a payment that is not partial still has what is asked
\* for the instalments it has to come to, and has settled those it has passed.
Settled(i, c, t) == c.estado = "pagada" \/ (DPD(i, t) <= 0 /\ c.saldo <= 1)

CoversOK ==
  tx # Idle /\ ~ tx.parcial /\ tx.desde = now =>
    /\ tx.saldo >= SumOn(Exigido(cuotas, now), {i \in Exigible(cuotas, now) : i >= tx.i})
    /\ \A i \in Exigible(cuotas, now) : i < tx.i => Settled(i, tx.cuotas[i], now)
=============================================================================
