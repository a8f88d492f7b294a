--------------------------- MODULE FrenchSchedule ---------------------------
(* The schedule of a loan in the French system, which the code computes        *)
(* twice: offerEngine/offer-engine.service.ts when it quotes an offer and      *)
(* cobranzas/cuotas.service.ts when it charges the loan.                       *)
(*                                                                            *)
(* Amounts are in cents.  The code computes in floating point and rounds what  *)
(* it stores; here the unrounded amounts are exact: whole cents and a rest in  *)
(* units of 1/Den.  terms is [amount, rate], the rate per instalment being     *)
(* the fraction rate.num / rate.den.                                           *)
EXTENDS Integers, Sequences, Sums

CONSTANT Installments       \* CUOTAS_COUNT, MVP_INSTALLMENTS

ASSUME InstallmentsAssumption == Installments \in Nat \ {0}

Numbers == 1..Installments
VatPercent == 21            \* IVA_RATE

(* The powers of a base, up to that of the last instalment. *)
Powers(base) ==
  LET P[k \in 0..Installments] == IF k = 0 THEN 1 ELSE base * P[k - 1]
  IN  P
(* 1 - (1 + rate) ^ -n, times a power of 1 + rate. *)
Growth(rate) ==
  IF rate.num = 0 THEN Installments
  ELSE Powers(rate.num + rate.den)[Installments] - Powers(rate.den)[Installments]
(* Every amount below is a multiple of 1/Den. *)
Den(rate) == 100 * rate.den * Growth(rate)

Amounts(den) == [whole : Int, rest : 0..(den - 1)]
Cents(c) == [whole |-> c, rest |-> 0]
Carry(whole, rest, den) == [whole |-> whole + (rest \div den), rest |-> rest % den]
Plus(x, y, den) == Carry(x.whole + y.whole, x.rest + y.rest, den)
Minus(x, y, den) == Carry(x.whole - y.whole, x.rest - y.rest, den)
(* x * num / d, where d divides Den and the rest of x. *)
Times(x, num, d, den) ==
  Carry((x.whole * num) \div d,
        ((x.whole * num) % d) * (den \div d) + (x.rest \div d) * num, den)
(* Math.round: half a cent goes up. *)
Round2(x, den) == x.whole + (IF 2 * x.rest >= den THEN 1 ELSE 0)

(* principal * r / (1 - (1 + r) ^ -n), or principal / n without interest. *)
CuotaBase(terms) ==
  LET r   == terms.rate
      den == Den(r)
      P   == Cents(terms.amount)
  IN  IF r.num = 0 THEN Times(P, 1, Installments, den)
      ELSE Plus(Times(P, r.num, r.den, den),
                Times(P, r.num * Powers(r.den)[Installments - 1], Growth(r), den), den)

(* What remains owed after i instalments, and what each of them is made of,   *)
(* before rounding.                                                           *)
Interest(terms, saldo) == Times(saldo, terms.rate.num, terms.rate.den, Den(terms.rate))
Amortization(terms, i, saldo) ==
  IF i = Installments THEN saldo
  ELSE Minus(CuotaBase(terms), Interest(terms, saldo), Den(terms.rate))
Saldos(terms) ==
  LET S[i \in 0..Installments] ==
        IF i = 0 THEN Cents(terms.amount)
        ELSE LET saldo == S[i - 1]
             IN  Minus(saldo, Amortization(terms, i, saldo), Den(terms.rate))
  IN  S
Vat(terms, interest) == Times(interest, VatPercent, 100, Den(terms.rate))

SumOf(schedule, field) == SumOn([i \in Numbers |-> schedule[i][field]], Numbers)

(* Mutant: the last instalment does not absorb the rounding of the others. *)
LeaveSchedule(terms, raw) == raw

(* The last instalment absorbs what rounding the others has left. *)
CloseSchedule(terms, raw) ==
  LET last == raw[Installments]
      amortization == terms.amount
        - SumOn([i \in Numbers |-> raw[i].amortization], Numbers \ {Installments})
  IN  [raw EXCEPT ![Installments] =
         [amortization |-> amortization, interest |-> last.interest, vat |-> last.vat,
          gross |-> amortization + last.interest + last.vat]]

(* An instalment as the offer's buildFrenchSchedule makes it: the quota and   *)
(* its VAT.                                                                   *)
OfferedItem(terms, i, saldo) ==
  LET den      == Den(terms.rate)
      interest == Interest(terms, saldo)
      vat      == Vat(terms, interest)
  IN  [amortization |-> Round2(Amortization(terms, i, saldo), den),
       interest     |-> Round2(interest, den),
       vat          |-> Round2(vat, den),
       gross        |-> Round2(Plus(CuotaBase(terms), vat, den), den)]

(* An instalment as the loan's buildFrenchSchedule makes it: the sum of its   *)
(* parts.                                                                     *)
ChargedItem(terms, i, saldo) ==
  LET den          == Den(terms.rate)
      interest     == Interest(terms, saldo)
      vat          == Vat(terms, interest)
      amortization == Amortization(terms, i, saldo)
  IN  [amortization |-> Round2(amortization, den),
       interest     |-> Round2(interest, den),
       vat          |-> Round2(vat, den),
       gross        |-> Round2(Plus(Plus(amortization, interest, den), vat, den), den)]

OfferedOn(terms, saldos) ==
  CloseSchedule(terms, [i \in Numbers |-> OfferedItem(terms, i, saldos[i - 1])])
ChargedOn(terms, saldos) ==
  CloseSchedule(terms, [i \in Numbers |-> ChargedItem(terms, i, saldos[i - 1])])

OfferedSchedule(terms) == OfferedOn(terms, Saldos(terms))
ChargedSchedule(terms) == ChargedOn(terms, Saldos(terms))
=============================================================================
