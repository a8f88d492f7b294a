---------------------------- MODULE CobranzasProofs ----------------------------
(***************************************************************************)
(* Proofs about Cobranzas and Cartera, for every schedule, rate, set of    *)
(* payments and of instants.  IInv is inductive; the properties follow     *)
(* from it and from what is built on it for each.                          *)
(***************************************************************************)
EXTENDS Cartera, SumTheorems, SequenceTheorems, TLAPS

-----------------------------------------------------------------------------
(* Arithmetic. *)

LEMMA RoundType ==
  ASSUME NEW a \in Nat, NEW b \in Nat \ {0}
  PROVE Round(a, b) \in Nat
<1>1. 2 * a + b \in Nat /\ 2 * b \in Nat /\ 2 * b > 0
  OBVIOUS
<1> DEFINE x == 2 * a + b
           y == 2 * b
<1>2. x \div y \in Nat
  <2> x \in Nat /\ y \in Nat /\ y > 0
    BY <1>1
  <2> HIDE DEF x, y
  <2> QED
    OBVIOUS
<1> QED
  BY <1>2 DEF Round

LEMMA ScheduleType ==
  ASSUME NEW i \in Cuotas
  PROVE Schedule[i] \in [capital : Nat \ {0}, interes : Nat, iva : Nat, total : Nat, vence : Nat]
<1> DEFINE R == [capital : Nat \ {0}, interes : Nat, iva : Nat, total : Nat, vence : Nat]
<1>1. Schedule \in Seq(R)
  BY CobranzasAssumption
<1>2. i \in 1..Len(Schedule)
  BY DEF Cuotas, N
<1> HIDE DEF R
<1>3. Schedule[i] \in R
  BY <1>1, <1>2, ElementOfSeq
<1> QED
  BY <1>3 DEF R

LEMMA DPDType ==
  ASSUME NEW i \in Cuotas, NEW t \in Nat
  PROVE DPD(i, t) \in Int
<1>1. (t + 1) \div 3 \in Nat
  OBVIOUS
<1> QED
  BY <1>1, ScheduleType DEF DPD, UtcDay

\* The charge for being late is a number of cents.
LEMMA MoraType ==
  ASSUME NEW i \in Cuotas, NEW capital \in Nat, NEW t \in Nat
  PROVE Mora(i, capital, t) \in Nat /\ IvaMora(Mora(i, capital, t)) \in Nat
<1> DEFINE d == DPD(i, t)
<1>1. Mora(i, capital, t) \in Nat
  <2>1. CASE d <= 0 \/ Bonificable(i, t)
    BY <2>1 DEF Mora
  <2>2. CASE ~ (d <= 0 \/ Bonificable(i, t))
    <3>1. d \in Nat
      BY <2>2, DPDType
    <3>2. capital * Tna * d \in Nat
      <4>1. capital * Tna \in Nat
        BY CobranzasAssumption
      <4> DEFINE e == capital * Tna
      <4> HIDE DEF e, d
      <4>2. e * d \in Nat
        BY <4>1, <3>1 DEF e
      <4> QED
        BY <4>2 DEF e
    <3>3. Mora(i, capital, t) = Round(capital * Tna * d, 36500)
      BY <2>2 DEF Mora
    <3> DEFINE f == capital * Tna * d
    <3>4. f \in Nat
      BY <3>2
    <3> HIDE DEF f
    <3>5. Round(f, 36500) \in Nat
      BY <3>4, RoundType
    <3> QED
      BY <3>3, <3>5 DEF f
  <2> QED
    BY <2>1, <2>2
<1> DEFINE m == Mora(i, capital, t)
<1> HIDE DEF m
<1>2. m \in Nat
  BY <1>1 DEF m
<1> DEFINE g == 21 * m
<1>3. g \in Nat
  BY <1>2
<1>4. IvaMora(m) = Round(g, 100)
  BY DEF IvaMora
<1>5. Round(g, 100) \in Nat
  <2> HIDE DEF g
  <2> QED
    BY <1>3, RoundType
<1> QED
  BY <1>2, <1>4, <1>5 DEF m

LEMMA PendienteType ==
  ASSUME NEW i \in Cuotas, NEW s \in Sums, NEW t \in Nat
  PROVE /\ Pendiente(i, s, t) \in Sums
        /\ Pendiente(i, s, t).capital = Resta(Schedule[i].capital, s.capital)
        /\ Pendiente(i, s, t).interes = Resta(Schedule[i].interes, s.interes)
        /\ Pendiente(i, s, t).iva = Resta(Schedule[i].iva, s.iva)
<1> DEFINE capital == Resta(Schedule[i].capital, s.capital)
           mora == Mora(i, capital, t)
           ivaMora == IvaMora(mora)
<1>1. capital \in Nat
  BY ScheduleType DEF Resta, Sums
<1>2. mora \in Nat /\ ivaMora \in Nat
  <2> HIDE DEF capital
  <2> QED
    BY <1>1, MoraType
<1>3. Pendiente(i, s, t) = [mora |-> Resta(mora, s.mora), ivaMora |-> Resta(ivaMora, s.ivaMora),
                            interes |-> Resta(Schedule[i].interes, s.interes),
                            iva |-> Resta(Schedule[i].iva, s.iva), capital |-> capital]
  BY DEF Pendiente
<1> HIDE DEF mora, ivaMora, capital
<1>4. /\ Resta(mora, s.mora) \in Nat
      /\ Resta(ivaMora, s.ivaMora) \in Nat
      /\ Resta(Schedule[i].interes, s.interes) \in Nat
      /\ Resta(Schedule[i].iva, s.iva) \in Nat
  BY <1>2, ScheduleType DEF Resta, Sums
<1>5. Pendiente(i, s, t) \in Sums
  BY <1>1, <1>3, <1>4 DEF Sums
<1> QED
  BY <1>3, <1>5 DEF capital

\* What is applied never exceeds the money or the debt, spends all of one or the
\* other, and goes by the contractual order.
LEMMA AplicarFacts ==
  ASSUME NEW pend \in Sums, NEW saldo \in Nat
  PROVE LET a == Aplicar(pend, saldo) IN
        /\ a \in Sums
        /\ Suma(a) <= saldo
        /\ Suma(a) < saldo => a = pend
        /\ Suma(pend) <= saldo => a = pend
        /\ a.mora <= pend.mora /\ a.ivaMora <= pend.ivaMora
        /\ a.capital <= pend.capital /\ a.interes <= pend.interes /\ a.iva <= pend.iva
        /\ a.iva > 0 => a.interes = pend.interes
        /\ a.capital > 0 => a.interes = pend.interes /\ a.iva = pend.iva
        /\ saldo > 0 /\ Suma(pend) > 0 => Suma(a) > 0
<1> DEFINE mora == Menor(saldo, pend.mora)
           ivaMora == Menor(saldo - mora, pend.ivaMora)
           interes == Menor(saldo - mora - ivaMora, pend.interes)
           iva == Menor(saldo - mora - ivaMora - interes, pend.iva)
           capital == Menor(saldo - mora - ivaMora - interes - iva, pend.capital)
           a == Aplicar(pend, saldo)
<1>1. a = [mora |-> mora, ivaMora |-> ivaMora, interes |-> interes, iva |-> iva, capital |-> capital]
  BY DEF Aplicar
<1>2. /\ pend.mora \in Nat /\ pend.ivaMora \in Nat /\ pend.interes \in Nat
      /\ pend.iva \in Nat /\ pend.capital \in Nat
  BY DEF Sums
<1>3. mora \in Nat /\ mora <= saldo /\ mora <= pend.mora /\ (mora = saldo \/ mora = pend.mora)
  BY <1>2 DEF Menor
<1> DEFINE r1 == saldo - mora
<1>4. r1 \in Nat
  BY <1>3
<1>5. ivaMora \in Nat /\ ivaMora <= r1 /\ ivaMora <= pend.ivaMora /\ (ivaMora = r1 \/ ivaMora = pend.ivaMora)
  BY <1>2, <1>4 DEF Menor
<1> DEFINE r2 == saldo - mora - ivaMora
<1>6. r2 \in Nat
  BY <1>3, <1>5
<1>7. interes \in Nat /\ interes <= r2 /\ interes <= pend.interes /\ (interes = r2 \/ interes = pend.interes)
  BY <1>2, <1>6 DEF Menor
<1> DEFINE r3 == saldo - mora - ivaMora - interes
<1>8. r3 \in Nat
  BY <1>3, <1>5, <1>7
<1>9. iva \in Nat /\ iva <= r3 /\ iva <= pend.iva /\ (iva = r3 \/ iva = pend.iva)
  BY <1>2, <1>8 DEF Menor
<1> DEFINE r4 == saldo - mora - ivaMora - interes - iva
<1>10. r4 \in Nat
  BY <1>3, <1>5, <1>7, <1>9
<1>11. capital \in Nat /\ capital <= r4 /\ capital <= pend.capital /\ (capital = r4 \/ capital = pend.capital)
  BY <1>2, <1>10 DEF Menor
<1> HIDE DEF mora, ivaMora, interes, iva, capital, a
<1>12. a \in Sums
  BY <1>1, <1>3, <1>5, <1>7, <1>9, <1>11 DEF Sums
<1>13. Suma(a) = mora + ivaMora + interes + iva + capital
  BY <1>1, <1>3, <1>5, <1>7, <1>9, <1>11 DEF Suma, Nucleo
<1>14. Suma(pend) = pend.mora + pend.ivaMora + pend.interes + pend.iva + pend.capital
  BY <1>2 DEF Suma, Nucleo
<1>15. Suma(a) <= saldo
  BY <1>13, <1>3, <1>5, <1>7, <1>9, <1>11
<1>16. ASSUME Suma(a) < saldo PROVE a = pend
  <2>1. /\ mora = pend.mora /\ ivaMora = pend.ivaMora /\ interes = pend.interes
        /\ iva = pend.iva /\ capital = pend.capital
    BY <1>16, <1>13, <1>3, <1>5, <1>7, <1>9, <1>11
  <2> QED
    BY <2>1, <1>1 DEF Sums
<1>17. /\ a.mora <= pend.mora /\ a.ivaMora <= pend.ivaMora
       /\ a.capital <= pend.capital /\ a.interes <= pend.interes /\ a.iva <= pend.iva
  BY <1>1, <1>3, <1>5, <1>7, <1>9, <1>11
<1>18. a.iva > 0 => a.interes = pend.interes
  BY <1>1, <1>2, <1>3, <1>5, <1>7, <1>9
<1>19. a.capital > 0 => a.interes = pend.interes /\ a.iva = pend.iva
  BY <1>1, <1>2, <1>3, <1>5, <1>7, <1>9, <1>11
<1>20. saldo > 0 /\ Suma(pend) > 0 => Suma(a) > 0
  BY <1>13, <1>14, <1>2, <1>3, <1>5, <1>7, <1>9, <1>11
<1>21. ASSUME Suma(pend) <= saldo PROVE a = pend
  <2>1. Suma(a) < saldo \/ Suma(a) = saldo
    BY <1>15, <1>13, <1>3, <1>5, <1>7, <1>9, <1>11
  <2>2. ASSUME Suma(a) = saldo
        PROVE /\ mora = pend.mora /\ ivaMora = pend.ivaMora /\ interes = pend.interes
              /\ iva = pend.iva /\ capital = pend.capital
    BY <2>2, <1>21, <1>13, <1>14, <1>2, <1>3, <1>5, <1>7, <1>9, <1>11
  <2>3. Suma(a) = saldo => a = pend
    BY <2>2, <1>1 DEF Sums
  <2> QED
    BY <2>1, <2>3, <1>16
<1> QED
  BY <1>12, <1>15, <1>16, <1>17, <1>18, <1>19, <1>20, <1>21 DEF a

-----------------------------------------------------------------------------
(* Sums that grow. *)

LEMMA CreceReflexive == \A s \in Sums : Crece(s, s)
  BY DEF Crece, Sums

LEMMA CreceTransitive ==
  \A r, s, u \in Sums : Crece(r, s) /\ Crece(s, u) => Crece(r, u)
  BY DEF Crece, Sums

LEMMA CreceSuma ==
  ASSUME NEW s \in Sums, NEW r \in Sums, Crece(s, r)
  PROVE Suma(s) \in Nat /\ Suma(r) \in Nat /\ Suma(r) >= Suma(s)
  BY DEF Crece, Sums, Suma, Nucleo

-----------------------------------------------------------------------------
(* One instalment. *)

\* An unpaid instalment has something pending.
LEMMA ActivaOwes ==
  ASSUME NEW i \in Cuotas, NEW c \in Cuota, CuotaOK(i, c), c.estado # "pagada", NEW t \in Nat
  PROVE Suma(Pendiente(i, c.aplicado, t)) > 0
<1> DEFINE s == c.aplicado
           p == Pendiente(i, s, t)
<1>1. s \in Sums
  BY DEF Cuota
<1>2. /\ p \in Sums
      /\ p.capital = Resta(Schedule[i].capital, s.capital)
      /\ p.interes = Resta(Schedule[i].interes, s.interes)
      /\ p.iva = Resta(Schedule[i].iva, s.iva)
  BY <1>1, PendienteType
<1>3. /\ s.interes <= Schedule[i].interes /\ s.iva <= Schedule[i].iva /\ s.capital <= Schedule[i].capital
      /\ Nucleo(s) # Nucleo(Schedule[i])
  BY DEF CuotaOK
<1> HIDE DEF p
<1>4. p.capital > 0 \/ p.interes > 0 \/ p.iva > 0
  BY <1>1, <1>2, <1>3, ScheduleType DEF Sums, Nucleo, Resta
<1>5. Suma(p) > 0
  BY <1>2, <1>4 DEF Sums, Suma, Nucleo
<1> QED
  BY <1>5 DEF p

\* Applying money to an instalment keeps its row consistent, and money is left
\* over only from an instalment that is paid.
LEMMA ImputadaFacts ==
  ASSUME NEW i \in Cuotas, NEW c \in Cuota, CuotaOK(i, c), c.estado # "pagada",
         NEW t \in Nat, NEW saldo \in Nat, saldo > 0,
         NEW p, p = Pendiente(i, c.aplicado, t),
         NEW a, a = Aplicar(p, saldo)
  PROVE /\ Imputada(c, p, a) \in Cuota
        /\ CuotaOK(i, Imputada(c, p, a))
        /\ Crece(c.aplicado, Imputada(c, p, a).aplicado)
        /\ Suma(a) \in Nat
        /\ Suma(a) <= saldo
        /\ Suma(a) < saldo \/ Suma(p) <= saldo => Imputada(c, p, a).estado = "pagada"
        /\ Imputada(c, p, a).saldo + Suma(a) <= Suma(p)
<1> DEFINE s == c.aplicado
           s2 == Mas(s, a)
           saldo2 == Nucleo(p) - Nucleo(a)
           c2 == Imputada(c, p, a)
           sch == Schedule[i]
<1>1. s \in Sums /\ c.estado \in EstadoCuota
  BY DEF Cuota
<1>2. /\ p \in Sums
      /\ p.capital = Resta(sch.capital, s.capital)
      /\ p.interes = Resta(sch.interes, s.interes)
      /\ p.iva = Resta(sch.iva, s.iva)
  BY <1>1, PendienteType
<1>3. /\ s.interes <= sch.interes /\ s.iva <= sch.iva /\ s.capital <= sch.capital
      /\ s.iva > 0 => s.interes = sch.interes
      /\ s.capital > 0 => s.interes = sch.interes /\ s.iva = sch.iva
  BY DEF CuotaOK
<1>4. /\ a \in Sums
      /\ Suma(a) <= saldo
      /\ Suma(a) < saldo \/ Suma(p) <= saldo => a = p
      /\ a.mora <= p.mora /\ a.ivaMora <= p.ivaMora
      /\ a.capital <= p.capital /\ a.interes <= p.interes /\ a.iva <= p.iva
      /\ a.iva > 0 => a.interes = p.interes
      /\ a.capital > 0 => a.interes = p.interes /\ a.iva = p.iva
      /\ Suma(p) > 0 => Suma(a) > 0
  BY <1>2, AplicarFacts
<1>5. Suma(a) > 0
  BY <1>4, ActivaOwes
<1>6. /\ sch.capital \in Nat /\ sch.interes \in Nat /\ sch.iva \in Nat
      /\ sch \in [capital : Nat \ {0}, interes : Nat, iva : Nat, total : Nat, vence : Nat]
  BY ScheduleType
<1> HIDE DEF sch
<1>7. s2 \in Sums
  BY <1>1, <1>4 DEF Sums, Mas
<1>8. Suma(s2) = Suma(s) + Suma(a) /\ Suma(a) \in Nat /\ Suma(s) \in Nat
  <2>1. \A u, v \in Sums : /\ Suma(Mas(u, v)) = Suma(u) + Suma(v)
                            /\ Suma(u) \in Nat /\ Suma(v) \in Nat
    BY DEF Sums, Mas, Suma, Nucleo
  <2> HIDE DEF s
  <2> QED
    BY <1>1, <1>4, <2>1
<1>9. /\ s2.interes = s.interes + a.interes /\ s2.iva = s.iva + a.iva /\ s2.capital = s.capital + a.capital
  BY DEF Mas
<1>10. /\ s2.interes <= sch.interes /\ s2.iva <= sch.iva /\ s2.capital <= sch.capital
  BY <1>1, <1>2, <1>3, <1>4, <1>6, <1>9 DEF Sums, Resta
<1>11. /\ p.interes = sch.interes - s.interes /\ p.iva = sch.iva - s.iva
       /\ p.capital = sch.capital - s.capital
  BY <1>1, <1>2, <1>3, <1>6 DEF Sums, Resta
<1>12. saldo2 \in Nat /\ saldo2 + Nucleo(s2) = Nucleo(sch)
  BY <1>1, <1>2, <1>4, <1>6, <1>9, <1>11 DEF Sums, Nucleo
<1>13. c2 = [estado |-> ResolverEstado(c, saldo2, a), saldo |-> saldo2, aplicado |-> s2]
  BY DEF Imputada
<1>14. ResolverEstado(c, saldo2, a) \in EstadoCuota
  BY <1>1 DEF ResolverEstado, EstadoCuota
<1>15. c2 \in Cuota
  BY <1>7, <1>12, <1>13, <1>14 DEF Cuota
<1>16. c2.estado = "pagada" <=> saldo2 = 0
  BY <1>12, <1>13 DEF ResolverEstado
<1>17. Nucleo(s2) \in Nat /\ Nucleo(sch) \in Nat
  BY <1>7, <1>6 DEF Sums, Nucleo
<1>18. c2.estado = "pagada" <=> Nucleo(s2) = Nucleo(sch)
  BY <1>12, <1>16, <1>17
<1>19. s2.iva > 0 => s2.interes = sch.interes
  BY <1>1, <1>2, <1>3, <1>4, <1>6, <1>9, <1>11 DEF Sums
<1>20. s2.capital > 0 => s2.interes = sch.interes /\ s2.iva = sch.iva
  <2>1. /\ s.interes \in Nat /\ s.iva \in Nat /\ s.capital \in Nat
        /\ a.interes \in Nat /\ a.iva \in Nat /\ a.capital \in Nat
    BY <1>1, <1>4 DEF Sums
  <2>2. CASE s.capital > 0
    <3>1. s.interes = sch.interes /\ s.iva = sch.iva
      BY <1>3, <2>2
    <3>2. a.interes = 0 /\ a.iva = 0
      BY <3>1, <2>1, <1>4, <1>6, <1>11
    <3> QED
      BY <3>1, <3>2, <1>6, <1>9
  <2>3. CASE a.capital > 0
    <3>1. a.interes = sch.interes - s.interes /\ a.iva = sch.iva - s.iva
      BY <1>4, <1>11, <2>3
    <3> QED
      BY <3>1, <2>1, <1>6, <1>9
  <2>4. s2.capital > 0 => s.capital > 0 \/ a.capital > 0
    BY <2>1, <1>9
  <2> HIDE DEF s2, s
  <2> QED
    BY <2>2, <2>3, <2>4
<1>21. CuotaOK(i, c2)
  <2>1. Suma(s2) > 0
    BY <1>5, <1>8
  <2> QED
    BY <2>1, <1>10, <1>12, <1>13, <1>18, <1>19, <1>20 DEF CuotaOK, sch
<1>22. Crece(s, s2)
  BY <1>1, <1>4 DEF Crece, Sums, Mas
<1>23. saldo2 + Suma(a) <= Suma(p)
  BY <1>2, <1>4 DEF Sums, Suma, Nucleo
<1>24. ASSUME Suma(a) < saldo \/ Suma(p) <= saldo PROVE c2.estado = "pagada"
  <2>1. a = p
    BY <1>4, <1>24
  <2>2. saldo2 = 0
    BY <2>1, <1>2 DEF Sums, Nucleo
  <2> QED
    BY <2>2, <1>16
<1> QED
  BY <1>4, <1>8, <1>13, <1>15, <1>21, <1>22, <1>23, <1>24

\* T has come to the unpaid instalment i with money left; cs are its rows after a
\* was applied to what is pending of it, p.
TurnOK(T, i, t, p, a, cs) ==
  /\ T \in Tx /\ i = T.i /\ T.saldo > 0
  /\ T.cuotas[i].estado # "pagada"
  /\ \A j \in Cuotas : CuotaOK(j, T.cuotas[j])
  /\ OldestFirst(T.cuotas)
  /\ \A j \in Cuotas : j < T.i => T.cuotas[j].estado = "pagada"
  /\ p = Pendiente(i, T.cuotas[i].aplicado, t)
  /\ a = Aplicar(p, T.saldo)
  /\ cs = [T.cuotas EXCEPT ![i] = Imputada(T.cuotas[i], p, a)]

TurnDone(T, i, p, a, cs) ==
  /\ cs \in [Cuotas -> Cuota]
  /\ \A j \in Cuotas : CuotaOK(j, cs[j])
  /\ OldestFirst(cs)
  /\ Suma(a) \in Nat /\ Suma(a) <= T.saldo
  /\ T.saldo - Suma(a) > 0 => \A j \in Cuotas : j < T.i + 1 => cs[j].estado = "pagada"
  /\ \A j \in Cuotas : j # i => cs[j] = T.cuotas[j]
  /\ Crece(T.cuotas[i].aplicado, cs[i].aplicado)
  /\ Suma(a) < T.saldo \/ Suma(p) <= T.saldo => cs[i].estado = "pagada"
  /\ cs[i].saldo + Suma(a) <= Suma(p)

\* One turn of the loop, as a record, keeps what TxOK says of the transaction.
LEMMA TurnFacts ==
  ASSUME NEW T, NEW i \in Cuotas, NEW t \in Nat, NEW p, NEW a, NEW cs, TurnOK(T, i, t, p, a, cs)
  PROVE TurnDone(T, i, p, a, cs)
<1> DEFINE c == T.cuotas[i]
           c2 == Imputada(c, p, a)
<1>0. /\ T \in Tx /\ i = T.i /\ T.saldo > 0
      /\ T.cuotas[i].estado # "pagada"
      /\ \A j \in Cuotas : CuotaOK(j, T.cuotas[j])
      /\ OldestFirst(T.cuotas)
      /\ \A j \in Cuotas : j < T.i => T.cuotas[j].estado = "pagada"
      /\ p = Pendiente(i, T.cuotas[i].aplicado, t)
      /\ a = Aplicar(p, T.saldo)
      /\ cs = [T.cuotas EXCEPT ![i] = Imputada(T.cuotas[i], p, a)]
  BY DEF TurnOK
<1>1. T.saldo \in Nat /\ T.i \in Nat /\ T.cuotas \in [Cuotas -> Cuota]
  BY <1>0 DEF Tx
<1>2. c \in Cuota /\ CuotaOK(i, c) /\ c.estado # "pagada"
  BY <1>0, <1>1
<1>3. /\ c2 \in Cuota
      /\ CuotaOK(i, c2)
      /\ Crece(c.aplicado, c2.aplicado)
      /\ Suma(a) \in Nat
      /\ Suma(a) <= T.saldo
      /\ Suma(a) < T.saldo \/ Suma(p) <= T.saldo => c2.estado = "pagada"
      /\ c2.saldo + Suma(a) <= Suma(p)
  <2> DEFINE saldo == T.saldo
  <2>1. saldo \in Nat /\ saldo > 0 /\ p = Pendiente(i, c.aplicado, t) /\ a = Aplicar(p, saldo)
    BY <1>0, <1>1
  <2> HIDE DEF c, saldo
  <2>2. /\ Imputada(c, p, a) \in Cuota
        /\ CuotaOK(i, Imputada(c, p, a))
        /\ Crece(c.aplicado, Imputada(c, p, a).aplicado)
        /\ Suma(a) \in Nat
        /\ Suma(a) <= saldo
        /\ Suma(a) < saldo \/ Suma(p) <= saldo => Imputada(c, p, a).estado = "pagada"
        /\ Imputada(c, p, a).saldo + Suma(a) <= Suma(p)
    BY <1>2, <2>1, ImputadaFacts
  <2> QED
    BY <2>2 DEF saldo
<1> HIDE DEF c, c2
<1>5. cs = [T.cuotas EXCEPT ![i] = c2]
  BY <1>0 DEF c, c2
<1>6. cs \in [Cuotas -> Cuota] /\ cs[i] = c2 /\ \A j \in Cuotas : j # i => cs[j] = T.cuotas[j]
  BY <1>1, <1>3, <1>5
<1>7. \A j \in Cuotas : CuotaOK(j, cs[j])
  BY <1>0, <1>3, <1>6
<1>8. OldestFirst(cs)
  <2> SUFFICES ASSUME NEW k \in Cuotas, Suma(cs[k].aplicado) > 0, NEW j \in 1..(k - 1)
               PROVE cs[j].estado = "pagada"
    BY DEF OldestFirst
  <2>1. j \in Cuotas /\ j < k /\ i \in Nat /\ j \in Nat /\ k \in Nat
    BY DEF Cuotas, N
  <2>2. CASE k = i
    <3>1. j < i /\ j # i
      BY <2>1, <2>2
    <3> QED
      BY <1>0, <1>6, <2>1, <3>1
  <2>3. CASE k # i
    <3>1. T.cuotas[k] = cs[k]
      BY <2>3, <1>6
    <3>2. T.cuotas[j].estado = "pagada"
      BY <1>0, <3>1 DEF OldestFirst
    <3>3. j # i
      BY <3>2, <1>2 DEF c
    <3> QED
      BY <3>2, <3>3, <2>1, <1>6
  <2> QED
    BY <2>2, <2>3
<1>9. ASSUME T.saldo - Suma(a) > 0, NEW j \in Cuotas, j < T.i + 1 PROVE cs[j].estado = "pagada"
  <2>1. c2.estado = "pagada"
    BY <1>9, <1>1, <1>3
  <2>2. j \in Nat
    BY DEF Cuotas
  <2>3. CASE j = i
    BY <1>0, <2>1, <2>3, <1>6
  <2>4. CASE j # i
    <3>1. j < T.i
      BY <1>0, <1>9, <2>2, <2>4, <1>1
    <3> QED
      BY <1>0, <3>1, <2>4, <1>6
  <2> QED
    BY <2>3, <2>4
<1>10. /\ Crece(c.aplicado, cs[i].aplicado)
       /\ Suma(a) < T.saldo \/ Suma(p) <= T.saldo => cs[i].estado = "pagada"
       /\ cs[i].saldo + Suma(a) <= Suma(p)
  BY <1>3, <1>6
<1> QED
  BY <1>3, <1>6, <1>7, <1>8, <1>9, <1>10 DEF c, TurnDone

-----------------------------------------------------------------------------
(* The invariant. *)

LEMMA InitIInv == Init => IInv
<1> SUFFICES ASSUME Init PROVE IInv
  OBVIOUS
<1>1. NoSums \in Sums /\ Nucleo(NoSums) = 0 /\ Suma(NoSums) = 0
  BY DEF NoSums, Sums, Nucleo, Suma
<1>2. NoPago \in Pago
  BY DEF NoPago, Pago, EstadoPago
<1>3. \A i \in Cuotas : cuotas[i].estado = "pendiente" /\ cuotas[i].aplicado = NoSums
  BY DEF Init
<1>4. cuotas \in [Cuotas -> Cuota]
  <2> SUFFICES ASSUME NEW i \in Cuotas
               PROVE [estado |-> "pendiente", saldo |-> Schedule[i].total, aplicado |-> NoSums] \in Cuota
    BY DEF Init
  <2> QED
    BY <1>1, ScheduleType DEF Cuota, EstadoCuota
<1>5. TypeOK
  BY <1>2, <1>4, CobranzasAssumption DEF Init, TypeOK
<1>6. ASSUME NEW i \in Cuotas PROVE CuotaOK(i, cuotas[i])
  <2>1. /\ cuotas[i].estado = "pendiente" /\ cuotas[i].aplicado = NoSums
        /\ cuotas[i].saldo = Schedule[i].total
    BY DEF Init
  <2>2. Nucleo(Schedule[i]) \in Nat /\ Nucleo(Schedule[i]) > 0 /\ Schedule[i].interes \in Nat
        /\ Schedule[i].iva \in Nat /\ Schedule[i].capital \in Nat
    BY ScheduleType DEF Nucleo
  <2>3. NoSums.interes = 0 /\ NoSums.iva = 0 /\ NoSums.capital = 0
    BY DEF NoSums
  <2> QED
    BY <1>1, <2>1, <2>2, <2>3 DEF CuotaOK
<1>7. OldestFirst(cuotas)
  BY <1>1, <1>3 DEF OldestFirst
<1>8. AppliedOnce /\ SurplusOnlyWhenPaid
  BY DEF Init, NoPago, AppliedOnce, SurplusOnlyWhenPaid
<1>9. TxOK
  BY DEF Init, TxOK
<1> QED
  BY <1>5, <1>6, <1>7, <1>8, <1>9 DEF IInv

\* A step that changes one payment which is not the one being applied, and
\* leaves it not applied.
LEMMA PagoStep ==
  ASSUME IInv, NEW q \in Pagos, NEW r \in Pago,
         ~ Imputable(q), ~ pagos[q].imputado, ~ r.imputado, r.aplicado = 0,
         pagos' = [pagos EXCEPT ![q] = r],
         loan' = loan, UNCHANGED <<now, cuotas, tx>>
  PROVE IInv'
<1>1. TypeOK'
  BY DEF IInv, TypeOK
<1>2. \A p \in Pagos : p # q => pagos'[p] = pagos[p]
  BY DEF IInv, TypeOK
<1>3. pagos'[q] = r
  BY DEF IInv, TypeOK
<1>4. r.monto \in Nat
  BY DEF Pago
<1>5. AppliedOnce'
  BY <1>2, <1>3, <1>4 DEF IInv, AppliedOnce
<1>6. SurplusOnlyWhenPaid'
  BY <1>2, <1>3 DEF IInv, SurplusOnlyWhenPaid, Activas
<1>7. TxOK'
  <2> SUFFICES ASSUME tx # Idle PROVE TxOK'
    BY DEF TxOK
  <2>1. Imputable(tx.pago) /\ tx.pago \in Pagos
    BY DEF IInv, TxOK, TypeOK, Tx
  <2>2. tx.pago # q
    BY <2>1
  <2>3. pagos'[tx.pago] = pagos[tx.pago]
    BY <1>2, <2>1, <2>2
  <2> QED
    BY <2>3 DEF IInv, TxOK, Imputable
<1> QED
  BY <1>1, <1>5, <1>6, <1>7 DEF IInv

LEMMA RegistrarIInv ==
  ASSUME IInv, NEW p \in Pagos, NEW monto \in Montos, Registrar(p, monto)
  PROVE IInv'
<1> DEFINE r == [NoPago EXCEPT !.estado = "recibido", !.monto = monto]
<1>1. NoPago \in Pago /\ ~ NoPago.imputado /\ NoPago.aplicado = 0
  BY DEF NoPago, Pago, EstadoPago
<1>2. monto \in Nat
  BY CobranzasAssumption
<1>3. r \in Pago /\ ~ r.imputado /\ r.aplicado = 0
  BY <1>1, <1>2 DEF Pago, EstadoPago
<1>4. ~ Imputable(p) /\ ~ pagos[p].imputado
  <2>1. pagos[p].estado = "none"
    BY DEF Registrar
  <2> QED
    BY <2>1 DEF Imputable, IInv, AppliedOnce
<1>5. pagos' = [pagos EXCEPT ![p] = r] /\ loan' = loan /\ UNCHANGED <<now, cuotas, tx>>
  BY DEF Registrar, r
<1> QED
  BY <1>3, <1>4, <1>5, PagoStep

LEMMA ValidarIInv ==
  ASSUME IInv, NEW p \in Pagos, NEW estado \in {"validado", "rechazado", "dudoso"}, Validar(p, estado)
  PROVE IInv'
<1> DEFINE r == [pagos[p] EXCEPT !.estado = estado]
<1>1. pagos[p] \in Pago
  BY DEF IInv, TypeOK
<1>2. ~ Imputable(p) /\ ~ pagos[p].imputado /\ pagos[p].aplicado = 0
  <2>1. pagos[p].estado \in {"recibido", "dudoso"}
    BY DEF Validar, Validable
  <2>2. pagos[p].estado # "validado" /\ pagos[p].aplicado \in Nat
    BY <1>1, <2>1 DEF Pago
  <2> QED
    BY <2>2 DEF Imputable, IInv, AppliedOnce
<1>3. r \in Pago /\ r.imputado = pagos[p].imputado /\ r.aplicado = pagos[p].aplicado
  BY <1>1 DEF Pago, EstadoPago
<1>4. pagos' = [pagos EXCEPT ![p] = r] /\ loan' = loan /\ UNCHANGED <<now, cuotas, tx>>
  BY DEF Validar
<1> HIDE DEF r
<1> QED
  BY <1>2, <1>3, <1>4, PagoStep

LEMMA MarcarVencidasIInv == IInv /\ MarcarVencidas => IInv'
<1> SUFFICES ASSUME IInv, MarcarVencidas PROVE IInv'
  OBVIOUS
<1>1. ASSUME NEW i \in Cuotas
      PROVE /\ cuotas'[i] \in Cuota
            /\ cuotas'[i].saldo = cuotas[i].saldo
            /\ cuotas'[i].aplicado = cuotas[i].aplicado
            /\ cuotas'[i].estado = "pagada" <=> cuotas[i].estado = "pagada"
  <2>1. cuotas[i] \in Cuota
    BY DEF IInv, TypeOK
  <2>2. CASE cuotas[i].estado = "pendiente" /\ DPD(i, now) > 0
    <3>1. cuotas'[i] = [cuotas[i] EXCEPT !.estado = "vencida"]
      BY <2>2 DEF MarcarVencidas
    <3> QED
      BY <2>1, <2>2, <3>1 DEF Cuota, EstadoCuota
  <2>3. CASE ~ (cuotas[i].estado = "pendiente" /\ DPD(i, now) > 0)
    BY <2>1, <2>3 DEF MarcarVencidas
  <2> QED
    BY <2>2, <2>3
<1>2. cuotas' \in [Cuotas -> Cuota]
  <2>1. cuotas' = [i \in Cuotas |-> cuotas'[i]]
    BY DEF MarcarVencidas
  <2> QED
    BY <1>1, <2>1
<1>3. TypeOK'
  BY <1>2 DEF MarcarVencidas, IInv, TypeOK
<1>4. \A i \in Cuotas : CuotaOK(i, cuotas'[i])
  BY <1>1 DEF IInv, CuotaOK
<1>5. OldestFirst(cuotas')
  <2> SUFFICES ASSUME NEW i \in Cuotas, Suma(cuotas'[i].aplicado) > 0, NEW j \in 1..(i - 1)
               PROVE cuotas'[j].estado = "pagada"
    BY DEF OldestFirst
  <2>1. j \in Cuotas
    BY DEF Cuotas, N
  <2>2. cuotas[j].estado = "pagada"
    BY <1>1 DEF IInv, OldestFirst
  <2> QED
    BY <1>1, <2>1, <2>2
<1>6. AppliedOnce'
  BY DEF IInv, AppliedOnce, MarcarVencidas
<1>7. SurplusOnlyWhenPaid'
  BY <1>1 DEF IInv, SurplusOnlyWhenPaid, MarcarVencidas, Activas
<1>8. TxOK'
  BY DEF MarcarVencidas, TxOK
<1> QED
  BY <1>3, <1>4, <1>5, <1>6, <1>7, <1>8 DEF IInv

LEMMA ImputarIInv == ASSUME IInv, NEW p \in Pagos, Imputar(p) PROVE IInv'
<1> DEFINE parcial == pagos[p].monto < TotalAdeudado(cuotas, now)
           T == [running |-> TRUE, pago |-> p, i |-> 1, saldo |-> pagos[p].monto, aplicado |-> 0,
                 parcial |-> parcial, desde |-> now, cuotas |-> cuotas]
<1>1. tx' = T /\ UNCHANGED <<now, loan, cuotas, pagos>> /\ Imputable(p)
  BY DEF Imputar
<1>2. pagos[p].monto \in Nat /\ cuotas \in [Cuotas -> Cuota]
  BY DEF IInv, TypeOK, Pago
<1>3. now \in Nat /\ parcial \in BOOLEAN
  BY DEF IInv, TypeOK
<1> HIDE DEF parcial
<1>4. T \in Tx
  BY <1>2, <1>3 DEF Tx
<1>5. TypeOK'
  BY <1>1, <1>4 DEF IInv, TypeOK
<1>6. \A i \in Cuotas : Crece(cuotas[i].aplicado, cuotas[i].aplicado)
  BY <1>2, CreceReflexive DEF Cuota
<1>7. TxOK'
  <2>1. /\ tx'.pago = p /\ tx'.saldo = pagos[p].monto /\ tx'.aplicado = 0 /\ tx'.i = 1 /\ tx'.cuotas = cuotas
        /\ tx'.desde = now
    BY <1>1
  <2>2. Imputable(p)'
    BY <1>1 DEF Imputable
  <2>3. \A j \in Cuotas : ~ (j < 1)
    BY DEF Cuotas
  <2> QED
    BY <1>1, <1>2, <1>3, <1>6, <2>1, <2>2, <2>3 DEF IInv, TxOK
<1> QED
  BY <1>1, <1>5, <1>7 DEF IInv, AppliedOnce, SurplusOnlyWhenPaid

\* ImputarCuota is such a turn.
LEMMA ImputarCuotaTurn ==
  ASSUME IInv, ImputarCuota
  PROVE LET a == Aplicar(Turno, tx.saldo)
        IN TurnDone(tx, tx.i, Turno, a,
                    [tx.cuotas EXCEPT ![tx.i] = Imputada(tx.cuotas[tx.i], Turno, a)])
<1> DEFINE T == tx
           i == tx.i
           p == Turno
           a == Aplicar(p, tx.saldo)
           cs == [tx.cuotas EXCEPT ![i] = Imputada(tx.cuotas[i], p, a)]
<1>1. tx # Idle /\ tx \in Tx /\ now \in Nat
  BY DEF ImputarCuota, IInv, TypeOK
<1>2. i \in Cuotas /\ tx.saldo > 0 /\ tx.cuotas[i].estado # "pagada"
  BY DEF ImputarCuota, Activas
<1>3. p = Pendiente(i, tx.cuotas[i].aplicado, now)
  BY DEF Turno
<1>4. /\ \A j \in Cuotas : CuotaOK(j, tx.cuotas[j])
      /\ OldestFirst(tx.cuotas)
      /\ \A j \in Cuotas : j < tx.i => tx.cuotas[j].estado = "pagada"
  BY <1>1, <1>2 DEF IInv, TxOK
<1> HIDE DEF p, a, cs
<1>5. a = Aplicar(p, tx.saldo) /\ cs = [tx.cuotas EXCEPT ![i] = Imputada(tx.cuotas[i], p, a)]
  BY DEF a, cs
<1>6. TurnOK(T, i, now, p, a, cs)
  BY <1>1, <1>2, <1>3, <1>4, <1>5 DEF TurnOK
<1>7. i \in Cuotas /\ now \in Nat
  BY <1>1, <1>2
<1> HIDE DEF i, T
<1>8. TurnDone(T, i, p, a, cs)
  BY <1>6, <1>7, TurnFacts
<1> QED
  BY <1>8 DEF T, i, p, a, cs

LEMMA ImputarCuotaIInv == IInv /\ ImputarCuota => IInv'
<1> SUFFICES ASSUME IInv, ImputarCuota PROVE IInv'
  OBVIOUS
<1> DEFINE i == tx.i
           p == Turno
           a == Aplicar(p, tx.saldo)
           cs == [tx.cuotas EXCEPT ![i] = Imputada(tx.cuotas[i], p, a)]
<1>1. tx # Idle /\ tx \in Tx /\ now \in Nat
  BY DEF ImputarCuota, IInv, TypeOK
<1>2. /\ tx.i \in Nat /\ tx.saldo \in Nat /\ tx.aplicado \in Nat /\ tx.pago \in Pagos
      /\ tx.parcial \in BOOLEAN /\ tx.desde \in Nat /\ tx.running = TRUE
  BY <1>1 DEF Tx
<1>3. i \in Cuotas /\ tx.saldo > 0 /\ tx.cuotas[i].estado # "pagada"
  BY DEF ImputarCuota, Activas
<1>5. tx' = [tx EXCEPT !.i = tx.i + 1, !.saldo = tx.saldo - Suma(a),
                       !.aplicado = tx.aplicado + Suma(a), !.cuotas = cs]
  BY DEF ImputarCuota
<1>6. UNCHANGED <<now, loan, cuotas, pagos>>
  BY DEF ImputarCuota
<1>7. /\ Imputable(tx.pago)
      /\ tx.saldo + tx.aplicado = pagos[tx.pago].monto
      /\ \A j \in Cuotas : CuotaOK(j, tx.cuotas[j])
      /\ OldestFirst(tx.cuotas)
      /\ \A j \in Cuotas : j < tx.i => tx.cuotas[j].estado = "pagada"
      /\ \A j \in Cuotas :
           /\ Crece(cuotas[j].aplicado, tx.cuotas[j].aplicado)
           /\ cuotas[j].estado = "pagada" => tx.cuotas[j] = cuotas[j]
           /\ j >= tx.i => tx.cuotas[j] = cuotas[j]
      /\ tx.desde <= now
  BY <1>1, <1>3 DEF IInv, TxOK
<1> HIDE DEF p, a, cs
<1>9. /\ cs \in [Cuotas -> Cuota]
      /\ \A j \in Cuotas : CuotaOK(j, cs[j])
      /\ OldestFirst(cs)
      /\ Suma(a) \in Nat /\ Suma(a) <= tx.saldo
      /\ tx.saldo - Suma(a) > 0 => \A j \in Cuotas : j < tx.i + 1 => cs[j].estado = "pagada"
      /\ \A j \in Cuotas : j # i => cs[j] = tx.cuotas[j]
      /\ Crece(tx.cuotas[i].aplicado, cs[i].aplicado)
  <2>1. TurnDone(tx, i, p, a, cs)
    BY ImputarCuotaTurn DEF p, a, cs
  <2> QED
    BY <2>1 DEF TurnDone
<1> DEFINE n == Suma(a)
<1> HIDE DEF n
<1>10. n \in Nat /\ n <= tx.saldo
  BY <1>9 DEF n
<1>11. tx' = [running |-> TRUE, pago |-> tx.pago, i |-> tx.i + 1, saldo |-> tx.saldo - n,
              aplicado |-> tx.aplicado + n, parcial |-> tx.parcial, desde |-> tx.desde,
              cuotas |-> cs]
  BY <1>1, <1>2, <1>5 DEF Tx, n
<1>12. tx' \in Tx
  BY <1>2, <1>9, <1>10, <1>11 DEF Tx
<1>13. TypeOK'
  BY <1>6, <1>12 DEF IInv, TypeOK
<1>15. \A j \in Cuotas :
         /\ Crece(cuotas[j].aplicado, cs[j].aplicado)
         /\ cuotas[j].estado = "pagada" => cs[j] = cuotas[j]
         /\ j >= tx.i + 1 => cs[j] = cuotas[j]
  <2> SUFFICES ASSUME NEW j \in Cuotas
               PROVE /\ Crece(cuotas[j].aplicado, cs[j].aplicado)
                     /\ cuotas[j].estado = "pagada" => cs[j] = cuotas[j]
                     /\ j >= tx.i + 1 => cs[j] = cuotas[j]
    OBVIOUS
  <2>0. j \in Nat
    BY DEF Cuotas
  <2>1. CASE j = i
    <3>1. cuotas[i].estado # "pagada"
      BY <1>3, <1>7
    <3>2. tx.cuotas[i] = cuotas[i]
      BY <1>2, <1>3, <1>7
    <3>3. Crece(cuotas[i].aplicado, cs[i].aplicado)
      BY <1>9, <3>2
    <3> QED
      BY <1>2, <2>1, <3>1, <3>3
  <2>2. CASE j # i
    BY <1>2, <2>0, <2>2, <1>7, <1>9
  <2> QED
    BY <2>1, <2>2
<1>16. Imputable(tx.pago)' /\ pagos' = pagos /\ cuotas' = cuotas
  BY <1>6, <1>7, <1>11 DEF Imputable
<1>17. TxOK'
  <2>1. /\ tx'.pago = tx.pago /\ tx'.saldo = tx.saldo - n /\ tx'.aplicado = tx.aplicado + n
        /\ tx'.cuotas = cs /\ tx'.i = tx.i + 1
    BY <1>11
  <2>2. tx'.saldo + tx'.aplicado = pagos'[tx'.pago].monto
    BY <1>2, <1>7, <1>10, <1>16, <2>1
  <2>3. tx'.saldo > 0 => \A j \in Cuotas : j < tx'.i => tx'.cuotas[j].estado = "pagada"
    BY <1>9, <2>1 DEF n
  <2>4. Imputable(tx.pago)' /\ \A j \in Cuotas : CuotaOK(j, tx'.cuotas[j])
    BY <1>9, <1>16, <2>1
  <2>5. OldestFirst(tx'.cuotas)
    BY <1>9, <2>1
  <2>6. \A j \in Cuotas : /\ Crece(cuotas'[j].aplicado, tx'.cuotas[j].aplicado)
                          /\ cuotas'[j].estado = "pagada" => tx'.cuotas[j] = cuotas'[j]
                          /\ j >= tx'.i => tx'.cuotas[j] = cuotas'[j]
    BY <1>15, <1>16, <2>1
  <2>7. tx'.desde <= now'
    BY <1>6, <1>7, <1>11
  <2> QED
    BY <2>2, <2>3, <2>4, <2>5, <2>6, <2>7 DEF TxOK
<1> QED
  BY <1>6, <1>13, <1>17 DEF IInv, AppliedOnce, SurplusOnlyWhenPaid

\* Only what is paid is passed over.
LEMMA SaltarCuotaIInv == IInv /\ SaltarCuota => IInv'
<1> SUFFICES ASSUME IInv, SaltarCuota PROVE IInv'
  OBVIOUS
<1> DEFINE i == tx.i
<1>1. tx # Idle /\ tx \in Tx /\ now \in Nat /\ i \in Cuotas
  BY DEF SaltarCuota, IInv, TypeOK
<1>2. /\ tx.i \in Nat /\ tx.saldo \in Nat /\ tx.aplicado \in Nat /\ tx.pago \in Pagos
      /\ tx.parcial \in BOOLEAN /\ tx.desde \in Nat /\ tx.running = TRUE /\ tx.cuotas \in [Cuotas -> Cuota]
  BY <1>1 DEF Tx
<1>3. /\ tx' = [tx EXCEPT !.i = tx.i + 1] /\ tx.saldo > 0
      /\ UNCHANGED <<now, loan, cuotas, pagos>>
      /\ i \in Activas(tx.cuotas) => Suma(Turno) = 0
  BY DEF SaltarCuota
<1>4. tx.cuotas[i].estado = "pagada"
  <2> SUFFICES ASSUME tx.cuotas[i].estado # "pagada" PROVE FALSE
    OBVIOUS
  <2>1. Suma(Turno) = 0
    BY <1>1, <1>3 DEF Activas
  <2>2. tx.cuotas[i] \in Cuota /\ CuotaOK(i, tx.cuotas[i])
    BY <1>1, <1>2 DEF IInv, TxOK
  <2>3. Suma(Pendiente(i, tx.cuotas[i].aplicado, now)) > 0
    BY <1>1, <2>2, ActivaOwes
  <2> QED
    BY <2>1, <2>3 DEF Turno
<1>5. tx' = [running |-> TRUE, pago |-> tx.pago, i |-> tx.i + 1, saldo |-> tx.saldo,
             aplicado |-> tx.aplicado, parcial |-> tx.parcial, desde |-> tx.desde,
             cuotas |-> tx.cuotas]
  BY <1>1, <1>2, <1>3 DEF Tx
<1>6. TypeOK'
  <2>1. tx' \in Tx
    BY <1>2, <1>5 DEF Tx
  <2> QED
    BY <1>3, <2>1 DEF IInv, TypeOK
<1>7. TxOK'
  <2>1. /\ tx'.pago = tx.pago /\ tx'.saldo = tx.saldo /\ tx'.aplicado = tx.aplicado
        /\ tx'.cuotas = tx.cuotas /\ tx'.i = tx.i + 1
    BY <1>5
  <2>2. ASSUME NEW j \in Cuotas, j < tx.i + 1 PROVE tx.cuotas[j].estado = "pagada"
    <3>1. j \in Nat
      BY DEF Cuotas
    <3>2. j < tx.i => tx.cuotas[j].estado = "pagada"
      BY <1>1, <1>3 DEF IInv, TxOK
    <3> QED
      BY <1>2, <1>4, <2>2, <3>1, <3>2
  <2>3. Imputable(tx.pago)' /\ pagos' = pagos /\ cuotas' = cuotas
    BY <1>1, <1>3, <2>1 DEF IInv, TxOK, Imputable
  <2>4. /\ tx.saldo + tx.aplicado = pagos[tx.pago].monto
        /\ \A j \in Cuotas : CuotaOK(j, tx.cuotas[j])
        /\ OldestFirst(tx.cuotas)
        /\ \A j \in Cuotas : /\ Crece(cuotas[j].aplicado, tx.cuotas[j].aplicado)
                             /\ cuotas[j].estado = "pagada" => tx.cuotas[j] = cuotas[j]
                             /\ j >= tx.i => tx.cuotas[j] = cuotas[j]
        /\ tx.desde <= now
    BY <1>1 DEF IInv, TxOK
  <2>5. \A j \in Cuotas : j >= tx.i + 1 => tx.cuotas[j] = cuotas[j]
    <3>1. \A j \in Cuotas : j \in Nat
      BY DEF Cuotas
    <3> QED
      BY <1>2, <2>4, <3>1
  <2>6. tx'.desde <= now'
    BY <1>3, <1>5, <2>4
  <2> QED
    BY <2>1, <2>2, <2>3, <2>4, <2>5, <2>6 DEF TxOK
<1> QED
  BY <1>3, <1>6, <1>7 DEF IInv, AppliedOnce, SurplusOnlyWhenPaid

\* What MarkImputado finds: what TxOK says of the transaction that commits.
LEMMA MarkFacts ==
  ASSUME IInv, MarkImputado
  PROVE /\ tx.pago \in Pagos /\ pagos[tx.pago] \in Pago /\ Imputable(tx.pago)
        /\ tx.saldo \in Nat /\ tx.aplicado \in Nat
        /\ tx.saldo + tx.aplicado = pagos[tx.pago].monto
        /\ pagos[tx.pago].aplicado = 0
        /\ tx.saldo > 0 => Activas(tx.cuotas) = {}
        /\ tx.cuotas \in [Cuotas -> Cuota]
        /\ \A p \in Pagos : p # tx.pago => pagos'[p] = pagos[p]
        /\ pagos'[tx.pago] \in Pago
        /\ pagos'[tx.pago].estado = "validado"
        /\ pagos'[tx.pago].monto = pagos[tx.pago].monto
        /\ pagos'[tx.pago].imputado
        /\ pagos'[tx.pago].aplicado = tx.aplicado
<1> DEFINE q == tx.pago
           r == [pagos[q] EXCEPT !.imputado = TRUE, !.esParcial = tx.parcial,
                                 !.aplicado = pagos[q].aplicado + tx.aplicado]
<1>1. tx # Idle /\ tx \in Tx
  BY DEF MarkImputado, IInv, TypeOK
<1>2. /\ tx.i \in Nat /\ tx.saldo \in Nat /\ tx.aplicado \in Nat /\ q \in Pagos
      /\ tx.parcial \in BOOLEAN /\ tx.cuotas \in [Cuotas -> Cuota]
  BY <1>1 DEF Tx
<1>3. pagos[q] \in Pago /\ pagos \in [Pagos -> Pago]
  BY <1>2 DEF IInv, TypeOK
<1>4. Imputable(q) /\ tx.saldo + tx.aplicado = pagos[q].monto
  BY <1>1 DEF IInv, TxOK
<1>5. pagos[q].aplicado = 0
  <2>1. ~ (pagos[q].aplicado > 0) /\ pagos[q].aplicado \in Nat
    BY <1>2, <1>3, <1>4 DEF IInv, AppliedOnce, Imputable, Pago
  <2> QED
    BY <2>1
<1>6. ASSUME tx.saldo > 0 PROVE Activas(tx.cuotas) = {}
  <2>1. tx.i > N
    BY <1>6 DEF MarkImputado
  <2>2. \A j \in Cuotas : j < tx.i
    <3> DEFINE R == [capital : Nat \ {0}, interes : Nat, iva : Nat, total : Nat, vence : Nat]
    <3>1. Schedule \in Seq(R)
      BY CobranzasAssumption
    <3> HIDE DEF R
    <3>2. N \in Nat
      BY <3>1, LenProperties DEF N
    <3> QED
      BY <1>2, <2>1, <3>2 DEF Cuotas
  <2>3. \A j \in Cuotas : j < tx.i => tx.cuotas[j].estado = "pagada"
    BY <1>1, <1>6 DEF IInv, TxOK
  <2> QED
    BY <2>2, <2>3 DEF Activas
<1>7. r \in Pago /\ r.estado = pagos[q].estado /\ r.monto = pagos[q].monto /\ r.imputado
      /\ r.aplicado = tx.aplicado
  <2> DEFINE old == pagos[q]
  <2>1. old \in Pago /\ old.aplicado + tx.aplicado = tx.aplicado
    BY <1>2, <1>3, <1>5
  <2>2. r = [old EXCEPT !.imputado = TRUE, !.esParcial = tx.parcial, !.aplicado = tx.aplicado]
    BY <2>1
  <2> HIDE DEF old, r
  <2>3. r \in Pago /\ r.estado = old.estado /\ r.monto = old.monto /\ r.imputado
        /\ r.aplicado = tx.aplicado
    BY <1>2, <2>1, <2>2 DEF Pago
  <2> QED
    BY <2>3 DEF old
<1>8. pagos' = [pagos EXCEPT ![q] = r]
  BY DEF MarkImputado
<1> HIDE DEF r
<1>9. pagos'[q] = r /\ \A p \in Pagos : p # q => pagos'[p] = pagos[p]
  BY <1>2, <1>3, <1>8
<1> QED
  BY <1>2, <1>3, <1>4, <1>5, <1>6, <1>7, <1>9 DEF Imputable

LEMMA MarkImputadoIInv == IInv /\ MarkImputado => IInv'
<1> SUFFICES ASSUME IInv, MarkImputado PROVE IInv'
  OBVIOUS
<1> DEFINE q == tx.pago
<1>1. /\ q \in Pagos /\ tx.saldo \in Nat /\ tx.aplicado \in Nat
      /\ tx.saldo + tx.aplicado = pagos'[q].monto
      /\ tx.saldo > 0 => Activas(tx.cuotas) = {}
      /\ tx.cuotas \in [Cuotas -> Cuota]
      /\ \A p \in Pagos : p # q => pagos'[p] = pagos[p]
      /\ pagos'[q] \in Pago
      /\ pagos'[q].estado = "validado"
      /\ pagos'[q].imputado
      /\ pagos'[q].aplicado = tx.aplicado
  BY MarkFacts
<1>2. cuotas' = tx.cuotas /\ tx' = Idle /\ UNCHANGED <<now, loan>> /\ tx # Idle
  BY DEF MarkImputado
<1>3. pagos' \in [Pagos -> Pago]
  <2>1. pagos' = [pagos EXCEPT ![q] = pagos'[q]]
    BY <1>1 DEF MarkImputado, IInv, TypeOK
  <2> QED
    BY <1>1, <2>1 DEF IInv, TypeOK
<1>4. TypeOK'
  BY <1>1, <1>2, <1>3 DEF IInv, TypeOK
<1>5. (\A i \in Cuotas : CuotaOK(i, cuotas'[i])) /\ OldestFirst(cuotas')
  BY <1>2 DEF IInv, TxOK
<1>6. AppliedOnce'
  <2> SUFFICES ASSUME NEW p \in Pagos
               PROVE /\ pagos'[p].aplicado <= pagos'[p].monto
                     /\ pagos'[p].aplicado > 0 => pagos'[p].imputado
                     /\ pagos'[p].imputado => pagos'[p].estado = "validado"
    BY DEF AppliedOnce
  <2>1. CASE p = q
    BY <1>1, <2>1
  <2>2. CASE p # q
    BY <1>1, <2>2 DEF IInv, AppliedOnce
  <2> QED
    BY <2>1, <2>2
<1>7. SurplusOnlyWhenPaid'
  <2> SUFFICES ASSUME NEW p \in Pagos, pagos'[p].imputado, pagos'[p].aplicado < pagos'[p].monto
               PROVE Activas(cuotas') = {}
    BY DEF SurplusOnlyWhenPaid
  <2>1. CASE p = q
    BY <1>1, <1>2, <2>1
  <2>2. CASE p # q
    <3>1. Activas(cuotas) = {}
      BY <1>1, <2>2 DEF IInv, SurplusOnlyWhenPaid
    <3>2. \A i \in Cuotas : tx.cuotas[i] = cuotas[i]
      BY <1>2, <3>1 DEF Activas, IInv, TxOK
    <3> QED
      BY <1>2, <3>1, <3>2 DEF Activas
  <2> QED
    BY <2>1, <2>2
<1>8. TxOK'
  BY <1>2 DEF TxOK
<1> QED
  BY <1>4, <1>5, <1>6, <1>7, <1>8 DEF IInv

LEMMA IInvStep == IInv /\ [Next]_vars => IInv'
<1> SUFFICES ASSUME IInv, [Next]_vars PROVE IInv'
  OBVIOUS
<1> USE DEF IInv
<1>1. CASE Desembolsar
  <2>1. loan' = "DISBURSED" /\ UNCHANGED <<now, cuotas, pagos, tx>>
    BY <1>1 DEF Desembolsar
  <2> QED
    BY <2>1 DEF TypeOK, TxOK, Imputable, AppliedOnce, SurplusOnlyWhenPaid
<1>2. CASE Rollback
  BY <1>2 DEF Rollback, TypeOK, TxOK, AppliedOnce, SurplusOnlyWhenPaid
<1>3. CASE Tick
  <2>1. now' \in Nat /\ now \in Nat /\ now' > now /\ UNCHANGED <<loan, cuotas, pagos, tx>>
    BY <1>3, CobranzasAssumption DEF Tick, TypeOK
  <2>2. tx # Idle => tx.desde <= now'
    <3>1. tx # Idle => tx.desde \in Nat /\ tx.desde <= now
      BY DEF TypeOK, TxOK, Tx
    <3> QED
      BY <2>1, <3>1
  <2>3. TxOK'
    BY <2>1, <2>2 DEF TxOK, Imputable
  <2> QED
    BY <2>1, <2>3 DEF TypeOK, AppliedOnce, SurplusOnlyWhenPaid
<1>4. CASE UNCHANGED vars
  BY <1>4 DEF vars, TypeOK, TxOK, Imputable, AppliedOnce, SurplusOnlyWhenPaid
<1> USE DEF Next
<1> HIDE DEF IInv
<1> QED
  BY <1>1, <1>2, <1>3, <1>4, MarcarVencidasIInv, ImputarCuotaIInv, SaltarCuotaIInv,
     MarkImputadoIInv, RegistrarIInv, ValidarIInv, ImputarIInv

\* The inductive invariant holds throughout.
THEOREM Invariance == Spec => []IInv
<1>1. Init => IInv
  BY InitIInv
<1>2. IInv /\ [Next]_vars => IInv'
  BY IInvStep
<1> QED
  BY <1>1, <1>2, PTL DEF Spec

-----------------------------------------------------------------------------
(* The properties. *)

\* Every row stays a row.
THEOREM TypeCorrect == Spec => []TypeOK
<1>1. IInv => TypeOK
  BY DEF IInv
<1> QED
  BY <1>1, Invariance, PTL

\* No payment is applied twice or beyond its amount (pagos.service imputar).
THEOREM PaymentAppliedOnce == Spec => []AppliedOnce
<1>1. IInv => AppliedOnce
  BY DEF IInv
<1> QED
  BY <1>1, Invariance, PTL

\* A surplus means a paid loan: the loop skips no debt.
THEOREM NoSurplusBeforePaid == Spec => []SurplusOnlyWhenPaid
<1>1. IInv => SurplusOnlyWhenPaid
  BY DEF IInv
<1> QED
  BY <1>1, Invariance, PTL

\* saldo_pendiente and estado agree with the sum of pagos_cuotas.
THEOREM BalanceAgrees == Spec => []SaldoAgrees
<1>1. IInv => SaldoAgrees
  <2> SUFFICES ASSUME IInv, NEW i \in Cuotas
               PROVE /\ Suma(cuotas[i].aplicado) > 0
                        => cuotas[i].saldo + Nucleo(cuotas[i].aplicado) = Nucleo(Schedule[i])
                     /\ cuotas[i].estado = "pagada"
                        <=> Nucleo(cuotas[i].aplicado) = Nucleo(Schedule[i])
                     /\ Nucleo(cuotas[i].aplicado) <= Nucleo(Schedule[i])
    BY DEF SaldoAgrees
  <2> DEFINE s == cuotas[i].aplicado
  <2>1. CuotaOK(i, cuotas[i]) /\ s \in Sums
    BY DEF IInv, TypeOK, Cuota
  <2>2. Nucleo(s) <= Nucleo(Schedule[i])
    BY <2>1, ScheduleType DEF CuotaOK, Nucleo, Sums
  <2> QED
    BY <2>1, <2>2 DEF CuotaOK
<1> QED
  BY <1>1, Invariance, PTL

\* Money goes to the oldest instalment first, and in it to capital last.
THEOREM OrderOfApplication == Spec => []ContractualOrder
<1>1. IInv => ContractualOrder
  BY DEF IInv, CuotaOK, OldestFirst, ContractualOrder
<1> QED
  BY <1>1, Invariance, PTL

\* Nothing takes back what was applied, and a decided payment stays decided.
THEOREM NothingUndone == Spec => NothingIsUndone
<1> DEFINE CuotaStep == \A i \in Cuotas :
             /\ Suma(cuotas'[i].aplicado) >= Suma(cuotas[i].aplicado)
             /\ cuotas[i].estado = "pagada" => cuotas'[i] = cuotas[i]
           PagoStays == \A p \in Pagos :
             /\ pagos[p].imputado => pagos'[p] = pagos[p]
             /\ pagos[p].estado \in {"validado", "rechazado"} => pagos'[p].estado = pagos[p].estado
<1>1. ASSUME IInv, [Next]_vars PROVE CuotaStep /\ PagoStays
  <2>1. \A i \in Cuotas : Suma(cuotas[i].aplicado) \in Nat
    BY <1>1 DEF IInv, TypeOK, Cuota, Sums, Suma, Nucleo
  <2>2. CASE UNCHANGED <<cuotas, pagos>>
    BY <2>1, <2>2
  <2>3. CASE MarcarVencidas
    <3>1. pagos' = pagos
      BY <2>3 DEF MarcarVencidas
    <3>2. ASSUME NEW i \in Cuotas
          PROVE /\ Suma(cuotas'[i].aplicado) >= Suma(cuotas[i].aplicado)
                /\ cuotas[i].estado = "pagada" => cuotas'[i] = cuotas[i]
      <4>1. cuotas'[i].aplicado = cuotas[i].aplicado
        BY <1>1, <2>3 DEF MarcarVencidas, IInv, TypeOK, Cuota
      <4>2. cuotas[i].estado = "pagada" => cuotas'[i] = cuotas[i]
        BY <2>3 DEF MarcarVencidas
      <4> QED
        BY <2>1, <4>1, <4>2
    <3> QED
      BY <3>1, <3>2
  <2>4. CASE MarkImputado
    <3>1. CuotaStep
      <4>1. \A i \in Cuotas : /\ cuotas[i].aplicado \in Sums /\ tx.cuotas[i].aplicado \in Sums
                              /\ Crece(cuotas[i].aplicado, tx.cuotas[i].aplicado)
                              /\ cuotas[i].estado = "pagada" => tx.cuotas[i] = cuotas[i]
        BY <1>1, <2>4 DEF MarkImputado, IInv, TxOK, TypeOK, Tx, Cuota
      <4> QED
        BY <2>4, <4>1, CreceSuma DEF MarkImputado
    <3>2. PagoStays
      BY <1>1, <2>4, MarkFacts DEF Imputable
    <3> QED
      BY <3>1, <3>2
  <2>5. ASSUME NEW p \in Pagos, NEW monto \in Montos, Registrar(p, monto) PROVE CuotaStep /\ PagoStays
    <3>1. /\ cuotas' = cuotas /\ pagos[p].estado = "none"
          /\ \A q \in Pagos : q # p => pagos'[q] = pagos[q]
      BY <1>1, <2>5 DEF Registrar, IInv, TypeOK
    <3>2. ~ pagos[p].imputado
      BY <1>1, <3>1 DEF IInv, AppliedOnce
    <3> QED
      BY <2>1, <3>1, <3>2
  <2>6. ASSUME NEW p \in Pagos, NEW estado \in {"validado", "rechazado", "dudoso"}, Validar(p, estado)
        PROVE CuotaStep /\ PagoStays
    <3>1. /\ cuotas' = cuotas /\ pagos[p].estado \in {"recibido", "dudoso"}
          /\ \A q \in Pagos : q # p => pagos'[q] = pagos[q]
      BY <1>1, <2>6 DEF Validar, Validable, IInv, TypeOK
    <3>2. ~ pagos[p].imputado
      BY <1>1, <3>1 DEF IInv, AppliedOnce
    <3> QED
      BY <2>1, <3>1, <3>2
  <2>7. [Next]_vars => \/ UNCHANGED <<cuotas, pagos>> \/ MarcarVencidas \/ MarkImputado
                       \/ \E p \in Pagos :
                            \/ \E monto \in Montos : Registrar(p, monto)
                            \/ \E estado \in {"validado", "rechazado", "dudoso"} : Validar(p, estado)
    BY DEF Next, vars, Desembolsar, Tick, ImputarCuota, SaltarCuota, Rollback, Imputar
  <2> HIDE DEF CuotaStep, PagoStays
  <2> QED
    BY <1>1, <2>2, <2>3, <2>4, <2>5, <2>6, <2>7
<1>2. IInv /\ [Next]_vars => [CuotaStep /\ PagoStays]_vars
  BY <1>1
<1> QED
  BY <1>2, Invariance, PTL DEF Spec, NothingIsUndone

-----------------------------------------------------------------------------
(* What is asked for. *)

LEMMA CuotasFinite == N \in Nat /\ IsFiniteSet(Cuotas) /\ Cuotas \subseteq Nat
<1> DEFINE R == [capital : Nat \ {0}, interes : Nat, iva : Nat, total : Nat, vence : Nat]
<1>1. Schedule \in Seq(R)
  BY CobranzasAssumption
<1> HIDE DEF R
<1>2. N \in Nat
  BY <1>1, LenProperties DEF N
<1> QED
  BY <1>2, FS_Interval DEF Cuotas

\* An instalment due later is less late.
LEMMA DPDOrder ==
  ASSUME NEW i \in Cuotas, NEW k \in Cuotas, i < k, NEW t \in Nat
  PROVE DPD(k, t) < DPD(i, t)
<1>1. Schedule[i].vence < Schedule[k].vence
  BY CobranzasAssumption
<1>2. Schedule[i].vence \in Nat /\ Schedule[k].vence \in Nat
  BY ScheduleType
<1>3. (t + 1) \div 3 \in Nat
  OBVIOUS
<1> QED
  BY <1>1, <1>2, <1>3 DEF DPD, UtcDay

\* What is asked for a due instalment covers what is pending of it.
LEMMA SaldoCovers ==
  ASSUME NEW i \in Cuotas, NEW s \in Sums, NEW t \in Nat
  PROVE /\ SaldoActualizado(i, s, t) \in Nat
        /\ Suma(Pendiente(i, s, t)) \in Nat
        /\ Suma(Pendiente(i, s, t)) <= SaldoActualizado(i, s, t)
<1> DEFINE mora == Mora(i, Resta(Schedule[i].capital, s.capital), t)
           p == Pendiente(i, s, t)
<1>1. Resta(Schedule[i].capital, s.capital) \in Nat
  BY ScheduleType DEF Resta, Sums
<1>2. mora \in Nat /\ IvaMora(mora) \in Nat
  BY <1>1, MoraType
<1>3. p \in Sums
  BY PendienteType
<1>4. p.mora = Resta(mora, s.mora) /\ p.ivaMora = Resta(IvaMora(mora), s.ivaMora)
  BY DEF Pendiente
<1>5. SaldoActualizado(i, s, t) = mora + IvaMora(mora) + Nucleo(p)
  BY DEF SaldoActualizado
<1> HIDE DEF mora, p
<1>6. p.mora <= mora /\ p.ivaMora <= IvaMora(mora)
  BY <1>2, <1>4 DEF Resta, Sums
<1>7. SaldoActualizado(i, s, t) \in Nat /\ Suma(p) \in Nat /\ Suma(p) <= SaldoActualizado(i, s, t)
  <2>1. Nucleo(p) \in Nat /\ p.mora \in Nat /\ p.ivaMora \in Nat
    BY <1>3 DEF Sums, Nucleo
  <2> QED
    BY <2>1, <1>2, <1>5, <1>6 DEF Suma
<1> QED
  BY <1>7 DEF p

\* Of an instalment that is not due, no more is pending than its balance and the
\* cent that its rounded total may be short of.
LEMMA NotDueOwes ==
  ASSUME NEW i \in Cuotas, NEW c \in Cuota, CuotaOK(i, c), NEW t \in Nat, DPD(i, t) <= 0
  PROVE Suma(Pendiente(i, c.aplicado, t)) <= c.saldo + 1
<1> DEFINE s == c.aplicado
           p == Pendiente(i, s, t)
           sch == Schedule[i]
<1>1. s \in Sums /\ c.saldo \in Nat
  BY DEF Cuota
<1>2. /\ p \in Sums
      /\ p.capital = Resta(sch.capital, s.capital)
      /\ p.interes = Resta(sch.interes, s.interes)
      /\ p.iva = Resta(sch.iva, s.iva)
  BY <1>1, PendienteType
<1>3. p.mora = 0 /\ p.ivaMora = 0
  <2>1. Mora(i, Resta(sch.capital, s.capital), t) = 0
    BY DEF Mora
  <2>2. IvaMora(0) = 0
    BY DEF IvaMora, Round
  <2>3. p.mora = Resta(0, s.mora) /\ p.ivaMora = Resta(0, s.ivaMora)
    BY <2>1, <2>2 DEF Pendiente
  <2> QED
    BY <1>1, <2>3 DEF Resta, Sums
<1>4. /\ s.interes <= sch.interes /\ s.iva <= sch.iva /\ s.capital <= sch.capital
      /\ Suma(s) = 0 => c.saldo = sch.total
      /\ Suma(s) > 0 => c.saldo + Nucleo(s) = Nucleo(sch)
  BY DEF CuotaOK
<1>5. /\ sch.capital \in Nat /\ sch.interes \in Nat /\ sch.iva \in Nat /\ sch.total \in Nat
  BY ScheduleType
<1>6. sch.total - (sch.capital + sch.interes + sch.iva) >= -1
  <2>1. sch.total - (sch.capital + sch.interes + sch.iva) \in -1..1
    BY CobranzasAssumption
  <2> HIDE DEF sch
  <2> QED
    BY <2>1
<1> HIDE DEF p, s, sch
<1>7. Suma(p) = p.capital + p.interes + p.iva
  BY <1>2, <1>3 DEF Sums, Suma, Nucleo
<1>8. /\ p.capital = sch.capital - s.capital /\ p.interes = sch.interes - s.interes
      /\ p.iva = sch.iva - s.iva
  BY <1>1, <1>2, <1>4, <1>5 DEF Sums, Resta
<1>9. Suma(p) <= c.saldo + 1
  <2>1. CASE Suma(s) = 0
    BY <2>1, <1>1, <1>4, <1>5, <1>6, <1>7, <1>8 DEF Sums, Suma, Nucleo
  <2>2. CASE Suma(s) > 0
    BY <2>2, <1>1, <1>4, <1>5, <1>7, <1>8 DEF Sums, Suma, Nucleo
  <2>3. Suma(s) \in Nat
    BY <1>1 DEF Sums, Suma, Nucleo
  <2> QED
    BY <2>1, <2>2, <2>3
<1> QED
  BY <1>9 DEF p, s

LEMMA ExigidoType ==
  ASSUME NEW cs \in [Cuotas -> Cuota], NEW t \in Nat
  PROVE /\ Exigido(cs, t) \in [Cuotas -> Nat]
        /\ Exigible(cs, t) \subseteq Cuotas /\ IsFiniteSet(Exigible(cs, t))
<1>1. ASSUME NEW i \in Cuotas PROVE SaldoActualizado(i, cs[i].aplicado, t) \in Nat /\ cs[i].saldo \in Nat
  <2>1. cs[i] \in Cuota
    OBVIOUS
  <2>2. cs[i].aplicado \in Sums /\ cs[i].saldo \in Nat
    BY <2>1 DEF Cuota
  <2> QED
    BY <2>2, SaldoCovers
<1>2. Exigido(cs, t) \in [Cuotas -> Nat]
  BY <1>1 DEF Exigido
<1>3. Exigible(cs, t) \subseteq Cuotas
  BY DEF Exigible, Vencidas, Vigente, Activas
<1> QED
  BY <1>2, <1>3, CuotasFinite, FS_Subset

\* Nothing is asked for after an unpaid instalment that is not due.
LEMMA LastAsked ==
  ASSUME NEW cs \in [Cuotas -> Cuota], NEW t \in Nat, NEW i \in Activas(cs) \ Vencidas(cs, t)
  PROVE {k \in Exigible(cs, t) : k > i} = {}
<1> SUFFICES ASSUME NEW k \in Exigible(cs, t), k > i PROVE FALSE
  OBVIOUS
<1>1. i \in Cuotas /\ k \in Cuotas /\ i \in Nat /\ k \in Nat
  BY CuotasFinite DEF Exigible, Vencidas, Vigente, Activas
<1>2. DPD(i, t) <= 0
  <2>1. ~ (DPD(i, t) > 0) /\ DPD(i, t) \in Int
    BY <1>1, DPDType DEF Vencidas
  <2> QED
    BY <2>1
<1>3. k \notin Vencidas(cs, t)
  <2>1. DPD(k, t) < DPD(i, t) /\ DPD(k, t) \in Int /\ DPD(i, t) \in Int
    BY <1>1, DPDOrder, DPDType
  <2> QED
    BY <2>1, <1>2 DEF Vencidas
<1>4. k \in Vigente(cs, t)
  BY <1>3 DEF Exigible
<1>5. k <= i
  BY <1>4 DEF Vigente
<1> QED
  BY <1>1, <1>5

-----------------------------------------------------------------------------
(* Paying in full. *)

\* The instalments that the transaction has to come to, of those asked for.
Faltan(cs, t, i) == {k \in Exigible(cs, t) : k >= i}

\* Coming past an unpaid instalment that is not due, or past a paid one, takes
\* nothing off what is still asked for; coming past a due one, what it owes.
LEMMA FaltanStep ==
  ASSUME NEW cs \in [Cuotas -> Cuota], NEW t \in Nat, NEW i \in Cuotas
  PROVE LET D == Exigido(cs, t)
            S == SumOn(D, Faltan(cs, t, i))
            R == SumOn(D, Faltan(cs, t, i + 1))
        IN /\ S \in Nat /\ R \in Nat
           /\ i \in Exigible(cs, t) => S = D[i] + R
           /\ i \notin Exigible(cs, t) => S = R
           /\ i \in Activas(cs) \ Vencidas(cs, t) => R = 0
<1> DEFINE D == Exigido(cs, t)
           A == Faltan(cs, t, i)
           B == Faltan(cs, t, i + 1)
           E == Exigible(cs, t)
<1>0. i \in Nat /\ E \subseteq Cuotas /\ E \subseteq Nat /\ IsFiniteSet(E)
  BY CuotasFinite, ExigidoType
<1>1. \A k \in E : D[k] \in Nat
  <2>1. D \in [Cuotas -> Nat]
    BY ExigidoType
  <2> HIDE DEF D, E
  <2> QED
    BY <2>1, <1>0
<1>2. A \subseteq E /\ B \subseteq E
  BY DEF Faltan
<1>3. IsFiniteSet(A) /\ IsFiniteSet(B)
  <2> HIDE DEF A, B, E
  <2> QED
    BY <1>0, <1>2, FS_Subset
<1>4. i \in E => i \in A /\ A \ {i} = B
  BY <1>0 DEF Faltan
<1>5. i \notin E => A = B
  BY <1>0 DEF Faltan
<1>6. i \in Activas(cs) \ Vencidas(cs, t) => B = {}
  <2>1. B = {k \in E : k > i}
    BY <1>0 DEF Faltan
  <2> QED
    BY <2>1, LastAsked
<1> HIDE DEF A, B, E, D
<1>7. SumOn(D, A) \in Nat /\ SumOn(D, B) \in Nat
  BY <1>1, <1>2, <1>3, SumNatural
<1>8. i \in E => SumOn(D, A) = D[i] + SumOn(D, B)
  <2> SUFFICES ASSUME i \in E PROVE SumOn(D, A) = D[i] + SumOn(D, B)
    OBVIOUS
  <2>1. i \in A /\ \A k \in A : D[k] \in Int
    BY <1>1, <1>2, <1>4
  <2>2. SumOn(D, A) = D[i] + SumOn(D, A \ {i})
    BY <1>3, <2>1, SumElement
  <2>3. SumOn(D, A \ {i}) = SumOn(D, B)
    BY <1>4
  <2> QED
    BY <2>2, <2>3
<1>9. i \notin E => SumOn(D, A) = SumOn(D, B)
  BY <1>5
<1>10. B = {} => SumOn(D, B) = 0
  BY SumEmpty
<1> QED
  BY <1>6, <1>7, <1>8, <1>9, <1>10 DEF A, B, D, E

LEMMA CoversInit == ASSUME IInv, NEW p \in Pagos, Imputar(p) PROVE CoversOK'
<1> SUFFICES ASSUME ~ tx'.parcial PROVE CoversOK'
  BY DEF CoversOK
<1>1. /\ now' = now /\ cuotas' = cuotas /\ tx'.i = 1 /\ tx'.saldo = pagos[p].monto
      /\ ~ (pagos[p].monto < TotalAdeudado(cuotas, now))
  BY DEF Imputar
<1>2. now \in Nat /\ cuotas \in [Cuotas -> Cuota] /\ pagos[p].monto \in Nat
  BY DEF IInv, TypeOK, Pago
<1>3. \A k \in Exigible(cuotas, now) : k >= 1 /\ ~ (k < 1)
  BY DEF Exigible, Vencidas, Vigente, Activas, Cuotas
<1>4. {k \in Exigible(cuotas, now) : k >= 1} = Exigible(cuotas, now)
  BY <1>3
<1>5. SumOn(Exigido(cuotas, now), {k \in Exigible(cuotas, now) : k >= 1}) = TotalAdeudado(cuotas, now)
  BY <1>4 DEF TotalAdeudado
<1>6. TotalAdeudado(cuotas, now) \in Nat
  <2> DEFINE D == Exigido(cuotas, now)
             E == Exigible(cuotas, now)
  <2>1. D \in [Cuotas -> Nat] /\ E \subseteq Cuotas /\ IsFiniteSet(E)
    BY <1>2, ExigidoType
  <2> HIDE DEF D, E
  <2>2. SumOn(D, E) \in Nat
    BY <2>1, SumNatural
  <2> QED
    BY <2>2 DEF TotalAdeudado, D, E
<1>7. pagos[p].monto >= TotalAdeudado(cuotas, now)
  BY <1>1, <1>2, <1>6
<1> QED
  BY <1>1, <1>3, <1>5, <1>7 DEF CoversOK

LEMMA CoversTurn == ASSUME IInv, CoversOK, ImputarCuota PROVE CoversOK'
<1> DEFINE i == tx.i
           p == Turno
           a == Aplicar(p, tx.saldo)
           cs == [tx.cuotas EXCEPT ![i] = Imputada(tx.cuotas[i], p, a)]
           D == Exigido(cuotas, now)
           S == SumOn(D, Faltan(cuotas, now, i))
           R == SumOn(D, Faltan(cuotas, now, i + 1))
<1>1. /\ tx # Idle /\ tx \in Tx /\ now \in Nat /\ cuotas \in [Cuotas -> Cuota]
      /\ UNCHANGED <<now, cuotas>>
      /\ i \in Cuotas /\ i \in Nat /\ tx.saldo \in Nat /\ tx.saldo > 0 /\ tx.cuotas[i].estado # "pagada"
  BY CuotasFinite DEF ImputarCuota, Activas, IInv, TypeOK, Tx
<1>2. /\ tx'.i = i + 1 /\ tx'.saldo = tx.saldo - Suma(a) /\ tx'.cuotas = cs
      /\ tx'.parcial = tx.parcial /\ tx'.desde = tx.desde
  <2>1. tx' = [tx EXCEPT !.i = tx.i + 1, !.saldo = tx.saldo - Suma(a),
                         !.aplicado = tx.aplicado + Suma(a), !.cuotas = cs]
    BY DEF ImputarCuota
  <2> HIDE DEF cs, a
  <2> QED
    BY <1>1, <2>1 DEF Tx
<1> SUFFICES ASSUME ~ tx.parcial, tx.desde = now
             PROVE /\ tx'.saldo >= R
                   /\ \A k \in Exigible(cuotas, now) : k < i + 1 => Settled(k, tx'.cuotas[k], now)
  BY <1>1, <1>2 DEF CoversOK, Faltan
<1>3. /\ tx.saldo >= S
      /\ \A k \in Exigible(cuotas, now) : k < i => Settled(k, tx.cuotas[k], now)
  BY <1>1 DEF CoversOK, Faltan
<1>4. tx.cuotas[i] = cuotas[i] /\ cuotas[i] \in Cuota /\ CuotaOK(i, cuotas[i])
  BY <1>1 DEF IInv, TxOK
<1>5. TurnDone(tx, i, p, a, cs)
  BY ImputarCuotaTurn
<1>6. p = Pendiente(i, cuotas[i].aplicado, now)
  BY <1>4 DEF Turno
<1> HIDE DEF p, a, cs
<1>7. /\ S \in Nat /\ R \in Nat
      /\ i \in Exigible(cuotas, now) => S = D[i] + R
      /\ i \notin Exigible(cuotas, now) => S = R
      /\ i \in Activas(cuotas) \ Vencidas(cuotas, now) => R = 0
  <2> HIDE DEF i
  <2> QED
    BY <1>1, FaltanStep
<1>8. i \in Activas(cuotas) /\ cuotas[i].aplicado \in Sums /\ cuotas[i].saldo \in Nat
  BY <1>1, <1>4 DEF Activas, Cuota
<1>9. /\ Suma(a) \in Nat /\ Suma(a) <= tx.saldo
      /\ Suma(a) < tx.saldo \/ Suma(p) <= tx.saldo => cs[i].estado = "pagada"
      /\ cs[i].saldo + Suma(a) <= Suma(p)
      /\ \A j \in Cuotas : j # i => cs[j] = tx.cuotas[j]
      /\ cs[i].saldo \in Nat
  BY <1>1, <1>5 DEF TurnDone, Cuota
<1>10. Suma(p) \in Nat /\ Suma(p) <= SaldoActualizado(i, cuotas[i].aplicado, now)
       /\ SaldoActualizado(i, cuotas[i].aplicado, now) \in Nat
  <2> DEFINE s == cuotas[i].aplicado
  <2>1. s \in Sums
    BY <1>8
  <2> HIDE DEF s, i
  <2>2. /\ SaldoActualizado(i, s, now) \in Nat /\ Suma(Pendiente(i, s, now)) \in Nat
        /\ Suma(Pendiente(i, s, now)) <= SaldoActualizado(i, s, now)
    BY <1>1, <2>1, SaldoCovers
  <2> QED
    BY <2>2, <1>6 DEF s
<1>11. ASSUME i \in Vencidas(cuotas, now)
       PROVE tx.saldo - Suma(a) >= R /\ cs[i].estado = "pagada"
  <2>1. i \in Exigible(cuotas, now) /\ D[i] = SaldoActualizado(i, cuotas[i].aplicado, now)
    BY <1>1, <1>11 DEF Exigible, Exigido
  <2> DEFINE d == SaldoActualizado(i, cuotas[i].aplicado, now)
  <2> HIDE DEF d, D, S, R, i
  <2>2. tx.saldo >= d + R /\ d \in Nat /\ Suma(p) <= d
    BY <1>3, <1>7, <1>10, <2>1 DEF d
  <2> QED
    BY <2>2, <1>1, <1>7, <1>9, <1>10
<1>12. ASSUME i \notin Vencidas(cuotas, now)
       PROVE /\ tx.saldo - Suma(a) >= R
             /\ i \in Exigible(cuotas, now) => Settled(i, cs[i], now)
  <2>1. R = 0
    BY <1>7, <1>8, <1>12
  <2>2. tx.saldo - Suma(a) >= 0
    BY <1>1, <1>9
  <2>3. ASSUME i \in Exigible(cuotas, now), cs[i].estado # "pagada" PROVE DPD(i, now) <= 0 /\ cs[i].saldo <= 1
    <3>1. DPD(i, now) <= 0
      <4>1. ~ (DPD(i, now) > 0) /\ DPD(i, now) \in Int
        BY <1>1, <1>8, <1>12, DPDType DEF Vencidas
      <4> QED
        BY <4>1
    <3>2. D[i] = cuotas[i].saldo
      BY <1>1, <1>12 DEF Exigido
    <3>3. Suma(p) <= cuotas[i].saldo + 1
      <4> HIDE DEF i
      <4> QED
        BY <1>1, <1>4, <1>6, <3>1, NotDueOwes
    <3> DEFINE d == cuotas[i].saldo
    <3> HIDE DEF D, S, R, i, d
    <3>4. tx.saldo >= d /\ d \in Nat /\ Suma(p) <= d + 1
      BY <1>1, <1>3, <1>7, <1>8, <2>1, <2>3, <3>2, <3>3 DEF d
    <3> QED
      BY <3>1, <3>4, <2>3, <1>1, <1>9, <1>10
  <2> QED
    BY <2>1, <2>2, <2>3 DEF Settled
<1>13. tx.saldo - Suma(a) >= R /\ (i \in Exigible(cuotas, now) => Settled(i, cs[i], now))
  BY <1>11, <1>12 DEF Settled
<1>14. ASSUME NEW k \in Exigible(cuotas, now), k < i + 1 PROVE Settled(k, cs[k], now)
  <2>1. k \in Cuotas /\ k \in Nat
    BY CuotasFinite DEF Exigible, Vencidas, Vigente, Activas
  <2>2. CASE k = i
    BY <2>2, <1>13, <1>14
  <2>3. CASE k # i
    <3>1. k < i
      BY <2>1, <2>3, <1>14, <1>1
    <3> QED
      BY <3>1, <2>1, <2>3, <1>3, <1>9, <1>14
  <2> QED
    BY <2>2, <2>3
<1> QED
  BY <1>2, <1>13, <1>14

LEMMA CoversSkip == ASSUME IInv, CoversOK, SaltarCuota PROVE CoversOK'
<1> DEFINE i == tx.i
           S == SumOn(Exigido(cuotas, now), Faltan(cuotas, now, i))
           R == SumOn(Exigido(cuotas, now), Faltan(cuotas, now, i + 1))
<1>1. /\ tx # Idle /\ tx \in Tx /\ now \in Nat /\ cuotas \in [Cuotas -> Cuota]
      /\ UNCHANGED <<now, cuotas>>
      /\ i \in Cuotas /\ i \in Nat /\ tx.saldo \in Nat
      /\ i \in Activas(tx.cuotas) => Suma(Turno) = 0
  BY CuotasFinite DEF SaltarCuota, IInv, TypeOK, Tx
<1>2. /\ tx'.i = i + 1 /\ tx'.saldo = tx.saldo /\ tx'.cuotas = tx.cuotas
      /\ tx'.parcial = tx.parcial /\ tx'.desde = tx.desde
  <2>1. tx' = [tx EXCEPT !.i = tx.i + 1]
    BY DEF SaltarCuota
  <2> QED
    BY <1>1, <2>1 DEF Tx
<1> SUFFICES ASSUME ~ tx.parcial, tx.desde = now
             PROVE /\ tx.saldo >= R
                   /\ \A k \in Exigible(cuotas, now) : k < i + 1 => Settled(k, tx.cuotas[k], now)
  BY <1>1, <1>2 DEF CoversOK, Faltan
<1>3. /\ tx.saldo >= S
      /\ \A k \in Exigible(cuotas, now) : k < i => Settled(k, tx.cuotas[k], now)
  BY <1>1 DEF CoversOK, Faltan
<1>4. tx.cuotas[i] = cuotas[i] /\ tx.cuotas[i] \in Cuota /\ CuotaOK(i, tx.cuotas[i])
  BY <1>1 DEF IInv, TypeOK, TxOK
<1>5. i \notin Activas(cuotas)
  <2> SUFFICES ASSUME tx.cuotas[i].estado # "pagada" PROVE FALSE
    BY <1>4 DEF Activas
  <2>1. Suma(Turno) = 0
    BY <1>1 DEF Activas
  <2>2. Suma(Pendiente(i, tx.cuotas[i].aplicado, now)) > 0
    BY <1>1, <1>4, ActivaOwes
  <2> QED
    BY <2>1, <2>2 DEF Turno
<1>6. i \notin Exigible(cuotas, now)
  BY <1>5 DEF Exigible, Vencidas, Vigente
<1>7. S = R
  <2> HIDE DEF i
  <2> QED
    BY <1>1, <1>6, FaltanStep
<1>8. ASSUME NEW k \in Exigible(cuotas, now), k < i + 1 PROVE Settled(k, tx.cuotas[k], now)
  <2>1. k \in Nat
    BY CuotasFinite DEF Exigible, Vencidas, Vigente, Activas
  <2>2. k < i
    BY <1>1, <1>6, <1>8, <2>1
  <2> QED
    BY <1>3, <2>2
<1> HIDE DEF S, R
<1> QED
  BY <1>3, <1>7, <1>8

LEMMA CoversStep == IInv /\ CoversOK /\ [Next]_vars => CoversOK'
<1> SUFFICES ASSUME IInv, CoversOK, [Next]_vars PROVE CoversOK'
  OBVIOUS
<1>1. CASE UNCHANGED <<now, cuotas, tx>>
  BY <1>1 DEF CoversOK
<1>2. CASE tx' = Idle
  BY <1>2 DEF CoversOK
<1>3. CASE Tick
  <2>1. tx # Idle => tx.desde \in Nat /\ tx.desde <= now
    BY DEF IInv, TypeOK, TxOK, Tx
  <2>2. now' \in Nat /\ now \in Nat /\ now' > now /\ tx' = tx
    BY <1>3, CobranzasAssumption DEF Tick, IInv, TypeOK
  <2> QED
    BY <2>1, <2>2 DEF CoversOK
<1>4. ASSUME NEW p \in Pagos, Imputar(p) PROVE CoversOK'
  BY <1>4, CoversInit
<1>5. [Next]_vars => \/ UNCHANGED <<now, cuotas, tx>> \/ tx' = Idle \/ Tick \/ ImputarCuota \/ SaltarCuota
                     \/ \E p \in Pagos : Imputar(p)
  BY DEF Next, vars, Desembolsar, MarcarVencidas, MarkImputado, Rollback, Registrar, Validar
<1> QED
  BY <1>1, <1>2, <1>3, <1>4, <1>5, CoversTurn, CoversSkip

LEMMA FullSettlesMark ==
  ASSUME IInv, CoversOK, MarkImputado, ~ tx.parcial, tx.desde = now,
         NEW i \in Exigible(cuotas, now), i \in Activas(tx.cuotas)
  PROVE i \notin Vencidas(cuotas, now) /\ tx.cuotas[i].saldo <= 1
<1> DEFINE D == Exigido(cuotas, now)
           F == Faltan(cuotas, now, tx.i)
           E == Exigible(cuotas, now)
<1>1. /\ tx # Idle /\ tx \in Tx /\ now \in Nat /\ cuotas \in [Cuotas -> Cuota]
      /\ tx.i \in Nat /\ tx.saldo \in Nat
      /\ i \in Cuotas /\ i \in Nat
  BY CuotasFinite DEF MarkImputado, IInv, TypeOK, Tx, Exigible, Vencidas, Vigente, Activas
<1>2. CASE i < tx.i
  <2>1. Settled(i, tx.cuotas[i], now)
    BY <1>1, <1>2 DEF CoversOK
  <2>2. DPD(i, now) <= 0 /\ tx.cuotas[i].saldo <= 1
    BY <2>1 DEF Settled, Activas
  <2>3. DPD(i, now) \in Int
    BY <1>1, DPDType
  <2> QED
    BY <2>2, <2>3 DEF Vencidas
<1>3. CASE i >= tx.i
  <2>1. tx.saldo = 0
    BY <1>1, <1>3, CuotasFinite DEF MarkImputado, Cuotas
  <2>2. SumOn(D, F) \in Nat /\ 0 >= SumOn(D, F)
    <3>1. tx.i \in Cuotas
      BY <1>1, <1>3, CuotasFinite DEF Cuotas, Tx
    <3>2. SumOn(D, F) \in Nat
      BY <1>1, <3>1, FaltanStep
    <3>3. tx.saldo >= SumOn(D, F)
      BY <1>1 DEF CoversOK, Faltan
    <3> QED
      BY <2>1, <3>2, <3>3
  <2>3. D \in [Cuotas -> Nat] /\ E \subseteq Cuotas /\ IsFiniteSet(E) /\ F \subseteq E /\ i \in F
    BY <1>1, <1>3, ExigidoType DEF Faltan
  <2>4. D[i] = 0
    <3> HIDE DEF D, F, E
    <3>1. IsFiniteSet(F) /\ \A k \in F : D[k] \in Nat
      BY <2>3, FS_Subset
    <3> DEFINE G == F \ {i}
    <3>2. IsFiniteSet(G) /\ \A k \in G : D[k] \in Nat
      BY <3>1, FS_Subset
    <3>3. SumOn(D, F) = D[i] + SumOn(D, G)
      BY <2>3, <3>1, SumElement
    <3> HIDE DEF G
    <3>4. SumOn(D, G) \in Nat
      BY <3>2, SumNatural
    <3> QED
      BY <2>2, <2>3, <3>1, <3>3, <3>4
  <2>5. tx.cuotas[i] = cuotas[i] /\ cuotas[i] \in Cuota /\ CuotaOK(i, cuotas[i]) /\ cuotas[i].estado # "pagada"
    BY <1>1, <1>3 DEF IInv, TxOK, Activas
  <2>6. i \notin Vencidas(cuotas, now)
    <3> SUFFICES ASSUME i \in Vencidas(cuotas, now) PROVE FALSE
      OBVIOUS
    <3>1. SaldoActualizado(i, cuotas[i].aplicado, now) = 0
      BY <1>1, <2>4 DEF Exigido
    <3>2. Suma(Pendiente(i, cuotas[i].aplicado, now)) > 0
      BY <1>1, <2>5, ActivaOwes
    <3>3. cuotas[i].aplicado \in Sums
      BY <2>5 DEF Cuota
    <3>4. /\ Suma(Pendiente(i, cuotas[i].aplicado, now)) \in Nat
          /\ Suma(Pendiente(i, cuotas[i].aplicado, now)) <= SaldoActualizado(i, cuotas[i].aplicado, now)
      BY <1>1, <3>3, SaldoCovers
    <3> QED
      BY <3>1, <3>2, <3>4
  <2>7. cuotas[i].saldo = 0
    BY <1>1, <2>4, <2>6 DEF Exigido
  <2> QED
    BY <2>5, <2>6, <2>7
<1>4. tx.i \in Nat
  BY <1>1
<1> QED
  BY <1>1, <1>2, <1>3

\* A payment that was enough for what was asked settles it (imputar, es_parcial).
THEOREM FullPayment == Spec => FullPaymentSettles
<1> DEFINE A == \A p \in Pagos :
                  /\ pagos'[p].imputado /\ ~ pagos[p].imputado
                  /\ ~ pagos'[p].esParcial /\ tx.desde = now
                  => \A i \in Exigible(cuotas, now) \intersect Activas(cuotas') :
                       i \notin Vencidas(cuotas, now) /\ cuotas'[i].saldo <= 1
<1>1. Init => CoversOK
  BY DEF Init, CoversOK
<1>2. IInv /\ CoversOK /\ [Next]_vars => CoversOK'
  BY CoversStep
<1>3. Spec => []CoversOK
  BY <1>1, <1>2, Invariance, PTL DEF Spec
<1>4. ASSUME IInv, CoversOK, [Next]_vars PROVE A
  <2> SUFFICES ASSUME NEW p \in Pagos, pagos'[p].imputado, ~ pagos[p].imputado,
                      ~ pagos'[p].esParcial, tx.desde = now,
                      NEW i \in Exigible(cuotas, now), i \in Activas(cuotas')
               PROVE i \notin Vencidas(cuotas, now) /\ cuotas'[i].saldo <= 1
    OBVIOUS
  <2>1. CASE MarkImputado
    <3>1. p = tx.pago
      BY <1>4, <2>1, MarkFacts
    <3>2. ~ tx.parcial
      <4>1. pagos'[p] = [pagos[p] EXCEPT !.imputado = TRUE, !.esParcial = tx.parcial,
                                         !.aplicado = pagos[p].aplicado + tx.aplicado]
        BY <1>4, <2>1, <3>1 DEF MarkImputado, IInv, TypeOK
      <4>2. pagos[p] \in Pago
        BY <1>4 DEF IInv, TypeOK
      <4>3. pagos'[p].esParcial = tx.parcial
        BY <4>1, <4>2 DEF Pago
      <4> QED
        BY <4>3
    <3>3. cuotas' = tx.cuotas
      BY <2>1 DEF MarkImputado
    <3> QED
      BY <1>4, <2>1, <3>2, <3>3, FullSettlesMark
  <2>2. CASE UNCHANGED pagos
    BY <2>2
  <2>3. ASSUME NEW q \in Pagos, NEW monto \in Montos, Registrar(q, monto) PROVE FALSE
    <3>1. pagos' = [pagos EXCEPT ![q] = [NoPago EXCEPT !.estado = "recibido", !.monto = monto]]
      BY <2>3 DEF Registrar
    <3>2. ~ pagos'[q].imputado /\ (p # q => pagos'[p] = pagos[p])
      BY <1>4, <3>1 DEF NoPago, IInv, TypeOK
    <3> QED
      BY <3>2
  <2>4. ASSUME NEW q \in Pagos, NEW estado \in {"validado", "rechazado", "dudoso"}, Validar(q, estado)
        PROVE FALSE
    <3>1. pagos' = [pagos EXCEPT ![q].estado = estado]
      BY <2>4 DEF Validar
    <3>2. pagos'[p].imputado = pagos[p].imputado
      BY <1>4, <3>1 DEF Pago, IInv, TypeOK
    <3> QED
      BY <3>2
  <2>5. [Next]_vars => \/ UNCHANGED pagos \/ MarkImputado
                       \/ \E q \in Pagos :
                            \/ \E monto \in Montos : Registrar(q, monto)
                            \/ \E estado \in {"validado", "rechazado", "dudoso"} : Validar(q, estado)
    BY DEF Next, vars, Desembolsar, MarcarVencidas, Tick, ImputarCuota, SaltarCuota, Rollback, Imputar
  <2> QED
    BY <1>4, <2>1, <2>2, <2>3, <2>4, <2>5
<1>5. IInv /\ CoversOK /\ [Next]_vars => [A]_vars
  BY <1>4
<1> QED
  BY <1>3, <1>5, Invariance, PTL DEF Spec, FullPaymentSettles

-----------------------------------------------------------------------------
(* Less is owed when more was applied. *)

LEMMA TimesMonotone ==
  ASSUME NEW a \in Nat, NEW b \in Nat, NEW c \in Nat, a <= b
  PROVE a * c <= b * c /\ a * c \in Nat /\ b * c \in Nat
  OBVIOUS

LEMMA RoundMonotone ==
  ASSUME NEW a \in Nat, NEW b \in Nat, NEW d \in Nat \ {0}, a <= b
  PROVE Round(a, d) <= Round(b, d)
<1> DEFINE x == 2 * a + d
           y == 2 * b + d
           z == 2 * d
<1>1. x \in Nat /\ y \in Nat /\ z \in Nat /\ z > 0 /\ x <= y
  OBVIOUS
<1> HIDE DEF x, y, z
<1>2. x \div z <= y \div z
  BY <1>1
<1> QED
  BY <1>2 DEF Round, x, y, z

LEMMA MoraMonotone ==
  ASSUME NEW i \in Cuotas, NEW a \in Nat, NEW b \in Nat, a <= b, NEW t \in Nat
  PROVE /\ Mora(i, a, t) <= Mora(i, b, t)
        /\ IvaMora(Mora(i, a, t)) <= IvaMora(Mora(i, b, t))
<1> DEFINE d == DPD(i, t)
           x == Mora(i, a, t)
           y == Mora(i, b, t)
<1>1. x <= y
  <2>1. CASE d <= 0 \/ Bonificable(i, t)
    BY <2>1 DEF Mora
  <2>2. CASE ~ (d <= 0 \/ Bonificable(i, t))
    <3>1. d \in Nat
      BY <2>2, DPDType
    <3>2. a * Tna <= b * Tna /\ a * Tna \in Nat /\ b * Tna \in Nat
      BY CobranzasAssumption, TimesMonotone
    <3> DEFINE e == a * Tna
               f == b * Tna
    <3>3. e * d <= f * d /\ e * d \in Nat /\ f * d \in Nat
      <4> HIDE DEF e, f, d
      <4> QED
        BY <3>1, <3>2, TimesMonotone DEF e, f
    <3> DEFINE g == e * d
               h == f * d
    <3>4. Round(g, 36500) <= Round(h, 36500)
      <4>1. g \in Nat /\ h \in Nat /\ g <= h
        BY <3>3
      <4> HIDE DEF g, h
      <4> QED
        BY <4>1, RoundMonotone
    <3>5. x = Round(g, 36500) /\ y = Round(h, 36500)
      BY <2>2 DEF Mora
    <3> QED
      BY <3>4, <3>5
  <2> QED
    BY <2>1, <2>2
<1>2. x \in Nat /\ y \in Nat
  BY MoraType
<1> HIDE DEF x, y
<1>3. Round(21 * x, 100) <= Round(21 * y, 100)
  <2> DEFINE g == 21 * x
             h == 21 * y
  <2>1. g \in Nat /\ h \in Nat /\ g <= h
    BY <1>1, <1>2
  <2> HIDE DEF g, h
  <2>2. Round(g, 100) <= Round(h, 100)
    BY <2>1, RoundMonotone
  <2> QED
    BY <2>2 DEF g, h
<1> QED
  BY <1>1, <1>3 DEF IvaMora, x, y

LEMMA SaldoAntitone ==
  ASSUME NEW i \in Cuotas, NEW s \in Sums, NEW r \in Sums, Crece(s, r), NEW t \in Nat
  PROVE SaldoActualizado(i, r, t) <= SaldoActualizado(i, s, t)
<1> DEFINE a == Resta(Schedule[i].capital, r.capital)
           b == Resta(Schedule[i].capital, s.capital)
           x == Mora(i, a, t)
           y == Mora(i, b, t)
           p == Pendiente(i, r, t)
           q == Pendiente(i, s, t)
<1>1. /\ p \in Sums /\ p.capital = a
      /\ p.interes = Resta(Schedule[i].interes, r.interes) /\ p.iva = Resta(Schedule[i].iva, r.iva)
  BY PendienteType
<1>2. /\ q \in Sums /\ q.capital = b
      /\ q.interes = Resta(Schedule[i].interes, s.interes) /\ q.iva = Resta(Schedule[i].iva, s.iva)
  BY PendienteType
<1>3. /\ a \in Nat /\ b \in Nat /\ a <= b /\ p.interes <= q.interes /\ p.iva <= q.iva
  BY <1>1, <1>2, ScheduleType DEF Resta, Sums, Crece
<1>4. SaldoActualizado(i, r, t) = x + IvaMora(x) + Nucleo(p)
      /\ SaldoActualizado(i, s, t) = y + IvaMora(y) + Nucleo(q)
  BY DEF SaldoActualizado
<1>5. x <= y /\ IvaMora(x) <= IvaMora(y)
  <2> HIDE DEF a, b
  <2> QED
    BY <1>3, MoraMonotone
<1>6. x \in Nat /\ y \in Nat /\ IvaMora(x) \in Nat /\ IvaMora(y) \in Nat
  <2> HIDE DEF a, b
  <2> QED
    BY <1>3, MoraType
<1> HIDE DEF x, y, p, q, a, b
<1>7. Nucleo(p) \in Nat /\ Nucleo(q) \in Nat /\ Nucleo(p) <= Nucleo(q)
  BY <1>1, <1>2, <1>3 DEF Nucleo, Sums
<1> QED
  BY <1>4, <1>5, <1>6, <1>7

\* No step takes anything back.
LEMMA CuotasGrow ==
  ASSUME IInv, [Next]_vars
  PROVE \A i \in Cuotas : /\ cuotas[i].aplicado \in Sums
                          /\ Crece(cuotas[i].aplicado, cuotas'[i].aplicado)
<1>0. \A i \in Cuotas : cuotas[i] \in Cuota /\ cuotas[i].aplicado \in Sums
  BY DEF IInv, TypeOK, Cuota
<1>1. CASE UNCHANGED cuotas
  BY <1>0, <1>1, CreceReflexive
<1>2. CASE MarcarVencidas
  <2>1. \A i \in Cuotas : cuotas'[i].aplicado = cuotas[i].aplicado
    BY <1>0, <1>2 DEF MarcarVencidas, Cuota
  <2> QED
    BY <1>0, <2>1, CreceReflexive
<1>3. CASE MarkImputado
  BY <1>0, <1>3 DEF MarkImputado, IInv, TxOK
<1>4. [Next]_vars => \/ UNCHANGED cuotas \/ MarcarVencidas \/ MarkImputado
  BY DEF Next, vars, Desembolsar, Tick, ImputarCuota, SaltarCuota, Rollback, Imputar, Registrar, Validar
<1> QED
  BY <1>1, <1>2, <1>3, <1>4

\* Nor does the clock go back.
LEMMA NowGrows == ASSUME IInv, [Next]_vars PROVE now \in Nat /\ now' \in Nat /\ now <= now'
<1>1. now \in Nat
  BY DEF IInv, TypeOK
<1>2. CASE Tick
  BY <1>1, <1>2, CobranzasAssumption DEF Tick
<1>3. [Next]_vars => now' = now \/ Tick
  BY DEF Next, vars, Desembolsar, MarcarVencidas, MarkImputado, ImputarCuota, SaltarCuota, Rollback,
         Imputar, Registrar, Validar
<1> QED
  BY <1>1, <1>2, <1>3

-----------------------------------------------------------------------------
(* The quote. *)

\* The readings of Cartera are steps of Cobranzas that change nothing of it.
THEOREM CarteraRefinesCobranzas == CarteraSpec => Spec
<1>1. CarteraInit => Init
  BY DEF CarteraInit
<1>2. [CarteraNext]_carteraVars => [Next]_vars
  BY DEF CarteraNext, carteraVars, Consultar, LeerSums, Responder
<1> QED
  BY <1>1, <1>2, PTL DEF CarteraSpec, Spec

LEMMA MinOf ==
  ASSUME NEW S \in SUBSET Nat, S # {}
  PROVE Min(S) \in S /\ \A x \in S : Min(S) <= x
<1>1. \E x \in S : \A y \in S : x <= y
  BY LeastNatural
<1> QED
  BY <1>1 DEF Min

\* The instalments that are not due.
Futuras(cs, t) == Activas(cs) \ Vencidas(cs, t)

\* The debt is what the overdue instalments owe and, when one is a week late,
\* the balance of the first that is not due.
Corriente(cs, t) == IF Solapada(cs, t) /\ Futuras(cs, t) # {} THEN cs[Min(Futuras(cs, t))].saldo ELSE 0

LEMMA DebidoType ==
  ASSUME NEW cs \in [Cuotas -> Cuota], NEW t \in Nat
  PROVE /\ \A i \in Cuotas : Debido(cs, t)[i] \in Nat
        /\ Vencidas(cs, t) \subseteq Cuotas /\ IsFiniteSet(Vencidas(cs, t))
        /\ Futuras(cs, t) \subseteq Cuotas /\ Futuras(cs, t) \subseteq Nat
<1>1. \A i \in Cuotas : cs[i].aplicado \in Sums
  BY DEF Cuota
<1>2. Vencidas(cs, t) \subseteq Cuotas /\ Futuras(cs, t) \subseteq Cuotas
  BY DEF Vencidas, Activas, Futuras
<1> QED
  BY <1>1, <1>2, SaldoCovers, CuotasFinite, FS_Subset DEF Debido

LEMMA TotalSplit ==
  ASSUME NEW cs \in [Cuotas -> Cuota], NEW t \in Nat
  PROVE TotalAdeudado(cs, t) = SumOn(Debido(cs, t), Vencidas(cs, t)) + Corriente(cs, t)
<1> DEFINE E == Exigido(cs, t)
           D == Debido(cs, t)
           V == Vencidas(cs, t)
           F == Futuras(cs, t)
           G == Exigible(cs, t)
<1>1. V \subseteq Cuotas /\ F \subseteq Cuotas /\ F \subseteq Nat /\ IsFiniteSet(V)
  BY DebidoType
<1>2. \A i \in V : E[i] \in Int /\ E[i] = D[i]
  <2>1. E \in [Cuotas -> Nat]
    BY ExigidoType
  <2>2. \A i \in V : E[i] = D[i]
    BY <1>1 DEF Exigido, Debido
  <2> HIDE DEF E, D, V
  <2> QED
    BY <1>1, <2>1, <2>2
<1>3. SumOn(E, V) = SumOn(D, V)
  <2> HIDE DEF E, D, V
  <2> QED
    BY <1>1, <1>2, SumCongruence
<1> SUFFICES SumOn(E, G) = SumOn(D, V) + Corriente(cs, t)
  BY DEF TotalAdeudado
<1>5. CASE Solapada(cs, t) /\ F # {}
  <2> DEFINE m == Min(F)
  <2>1. m \in F /\ \A j \in F : m <= j
    <3> HIDE DEF F
    <3> QED
      BY <1>1, <1>5, MinOf
  <2> HIDE DEF m
  <2>2. Vigente(cs, t) = {m}
    <3>1. Vigente(cs, t) = {i \in F : \A j \in F : i <= j}
      BY DEF Vigente, Futuras
    <3> HIDE DEF F
    <3>2. \A i \in F : (\A j \in F : i <= j) <=> i = m
      BY <1>1, <2>1
    <3> QED
      BY <2>1, <3>1, <3>2
  <2>3. G = V \union {m}
    BY <1>5, <2>2 DEF Exigible
  <2>4. m \notin V /\ m \in Cuotas
    BY <1>1, <2>1 DEF Futuras
  <2>5. E[m] = cs[m].saldo
    BY <2>4 DEF Exigido
  <2>6. SumOn(E, V \union {m}) = E[m] + SumOn(E, V)
    <3> DEFINE W == V \union {m}
    <3>1. IsFiniteSet(W) /\ V \in SUBSET W /\ m \in W
      BY <1>1, FS_AddElement
    <3>2. \A x \in W : E[x] \in Int
      <4>1. E \in [Cuotas -> Nat]
        BY ExigidoType
      <4> HIDE DEF E
      <4> QED
        BY <1>1, <2>4, <4>1
    <3> HIDE DEF W, E, V
    <3> QED
      BY <2>4, <3>1, <3>2, SumAdd
  <2>7. Corriente(cs, t) = cs[m].saldo
    BY <1>5 DEF Corriente, m
  <2>8. SumOn(E, G) = SumOn(E, V \union {m})
    BY <2>3
  <2>9. cs[m].saldo \in Nat /\ SumOn(E, V) \in Int
    <3>1. cs[m] \in Cuota
      BY <2>4
    <3> HIDE DEF E, V
    <3> QED
      BY <3>1, <1>1, <1>2, SumElement DEF Cuota
  <2> HIDE DEF E, D, V, F, G
  <2> QED
    BY <1>3, <2>5, <2>6, <2>7, <2>8, <2>9
<1>6. CASE ~ (Solapada(cs, t) /\ F # {})
  <2>1. G = V
    BY <1>6 DEF Exigible, Vigente, Futuras
  <2>2. SumOn(E, G) = SumOn(E, V)
    BY <2>1
  <2>3. Corriente(cs, t) = 0
    BY <1>6 DEF Corriente
  <2>4. SumOn(E, V) \in Int
    <3> HIDE DEF E, V
    <3> QED
      BY <1>1, <1>2, SumElement
  <2> HIDE DEF E, D, V, F, G
  <2> QED
    BY <1>3, <2>2, <2>3, <2>4
<1> QED
  BY <1>5, <1>6

\* The loop of the quote, at c, after instalment i: what it has read is then what
\* is overdue until i, and it goes on to the next or has met the current one.
LEMMA SeguirFacts ==
  ASSUME NEW c \in Consulta, NEW i \in 0..N, now \in Nat
  PROVE LET d == Seguir(c, i)
            futuras == Activas(c.cuotas) \ Vencidas(c.cuotas, c.desde)
        IN /\ d \in Consulta
           /\ d.cuotas = c.cuotas /\ d.desde = c.desde /\ d.alPrincipio = c.alPrincipio
           /\ d.vencido = c.vencido /\ d.solapada = c.solapada
           /\ c.desde = now /\ (i = 0 \/ i \in Vencidas(c.cuotas, now)) =>
                /\ d.i # 0 => d.i \in Vencidas(c.cuotas, now)
                /\ d.i = 0 => d.vigente = IF futuras = {} THEN 0 ELSE Min(futuras)
                /\ Leidas(d) = {k \in Vencidas(c.cuotas, now) : k <= i}
<1> DEFINE rest == {j \in Activas(c.cuotas) : j > i}
           due == {j \in rest : DPD(j, now) > 0}
           V == Vencidas(c.cuotas, now)
           F == Activas(c.cuotas) \ V
           d == Seguir(c, i)
<1>1. /\ c.running = TRUE /\ c.i \in 0..N /\ c.cuotas \in [Cuotas -> Cuota] /\ c.vencido \in Nat
      /\ c.solapada \in BOOLEAN /\ c.vigente \in 0..N /\ c.desde \in Nat /\ c.alPrincipio \in Int
  BY DEF Consulta
<1>2. due \subseteq rest /\ rest \subseteq Cuotas /\ Cuotas \subseteq Nat /\ i \in Nat /\ N \in Nat
  BY CuotasFinite DEF Activas
<1>3. due = {j \in V : j > i}
  BY DEF Vencidas
<1> DEFINE v == IF rest = {} THEN 0 ELSE Min(rest)
<1>4. v \in 0..N
  <2>1. rest # {} => Min(rest) \in rest
    <3> HIDE DEF rest, due
    <3> QED
      BY <1>2, MinOf
  <2>2. \A k \in Cuotas : k \in 0..N
    BY DEF Cuotas
  <2>3. 0 \in 0..N
    BY <1>2
  <2> HIDE DEF rest, due
  <2> QED
    BY <1>2, <2>1, <2>2, <2>3
<1>5. CASE due # {}
  <2> DEFINE m == Min(due)
  <2>1. m \in due /\ \A j \in due : m <= j
    <3> HIDE DEF due, rest
    <3>1. due \in SUBSET Nat
      BY <1>2
    <3> QED
      BY <1>5, <3>1, MinOf
  <2>2. d = [c EXCEPT !.i = m]
    BY <1>5 DEF Seguir
  <2>3. m \in Cuotas /\ m \in Nat /\ m > i /\ m \in V
    BY <1>2, <1>3, <2>1
  <2> HIDE DEF m, d
  <2>4. d \in Consulta /\ d.i = m /\ d.cuotas = c.cuotas /\ d.desde = c.desde
        /\ d.alPrincipio = c.alPrincipio /\ d.vencido = c.vencido /\ d.solapada = c.solapada
    <3>1. m \in 0..N
      BY <2>3 DEF Cuotas
    <3> QED
      BY <1>1, <2>2, <3>1 DEF Consulta
  <2>5. ASSUME c.desde = now PROVE Leidas(d) = {k \in V : k <= i}
    <3>1. Leidas(d) = {k \in V : k < m}
      BY <1>2, <2>3, <2>4, <2>5 DEF Leidas
    <3>2. \A k \in V : k < m <=> k <= i
      <4>1. V \subseteq Nat
        BY <1>2 DEF Vencidas, Activas
      <4>2. \A k \in V : k > i => m <= k
        BY <1>3, <2>1
      <4> HIDE DEF V
      <4> QED
        BY <1>2, <2>3, <4>1, <4>2
    <3> QED
      BY <3>1, <3>2
  <2> QED
    BY <1>2, <2>3, <2>4, <2>5 DEF d
<1>6. CASE due = {}
  <2>1. d = [c EXCEPT !.i = 0, !.vigente = v]
    BY <1>6 DEF Seguir
  <2> HIDE DEF d, v
  <2>2. d \in Consulta /\ d.i = 0 /\ d.vigente = v /\ d.cuotas = c.cuotas /\ d.desde = c.desde
        /\ d.alPrincipio = c.alPrincipio /\ d.vencido = c.vencido /\ d.solapada = c.solapada
    <3>1. 0 \in 0..N
      BY <1>2
    <3> QED
      BY <1>1, <1>4, <2>1, <3>1 DEF Consulta
  <2>3. ASSUME c.desde = now, i = 0 \/ i \in V
        PROVE Leidas(d) = {k \in V : k <= i} /\ rest = F
    <3>1. Leidas(d) = V
      BY <2>2, <2>3 DEF Leidas
    <3>2. \A k \in V : k <= i
      <4>1. V \subseteq Nat
        BY <1>2 DEF Vencidas, Activas
      <4>2. \A k \in V : ~ (k > i)
        BY <1>3, <1>6
      <4> HIDE DEF V
      <4> QED
        BY <1>2, <4>1, <4>2
    <3>3. rest \subseteq F
      BY <1>6 DEF Vencidas
    <3>4. ASSUME NEW j \in F PROVE j > i
      <4>1. j \in Cuotas /\ j \in Nat /\ j > 0
        BY <1>2 DEF Activas, Cuotas
      <4>2. CASE i = 0
        BY <4>1, <4>2
      <4>3. CASE i \in V
        <5>1. i \in Cuotas /\ DPD(i, now) > 0 /\ ~ (DPD(j, now) > 0) /\ j # i
          BY <4>3, <3>4 DEF Vencidas, Activas
        <5>2. ~ (j < i)
          <6> SUFFICES ASSUME j < i PROVE FALSE
            OBVIOUS
          <6>1. DPD(i, now) < DPD(j, now) /\ DPD(i, now) \in Int /\ DPD(j, now) \in Int
            BY <4>1, <5>1, DPDOrder, DPDType
          <6> QED
            BY <5>1, <6>1
        <5> QED
          BY <1>2, <4>1, <5>1, <5>2
      <4> QED
        BY <2>3, <4>2, <4>3
    <3> QED
      BY <3>1, <3>2, <3>3, <3>4
  <2>4. c.desde = now /\ (i = 0 \/ i \in V) => d.vigente = IF F = {} THEN 0 ELSE Min(F)
    BY <2>2, <2>3 DEF v
  <2> QED
    BY <2>2, <2>3, <2>4 DEF d
<1> QED
  BY <1>5, <1>6

LEMMA ConsultarOK == IInv /\ Consultar => ConsultaOK'
<1> SUFFICES ASSUME IInv, Consultar PROVE ConsultaOK'
  OBVIOUS
<1> DEFINE c == [running |-> TRUE, i |-> 0, cuotas |-> cuotas, vencido |-> 0,
                 solapada |-> FALSE, vigente |-> 0, desde |-> now,
                 alPrincipio |-> TotalAdeudado(cuotas, now)]
           d == Seguir(c, 0)
<1>1. consulta' = d /\ now' = now /\ cuotas' = cuotas
  BY DEF Consultar, vars
<1>2. now \in Nat /\ cuotas \in [Cuotas -> Cuota]
  BY DEF IInv, TypeOK
<1>3. TotalAdeudado(cuotas, now) \in Int
  <2> DEFINE D == Exigido(cuotas, now)
             E == Exigible(cuotas, now)
  <2>1. D \in [Cuotas -> Nat] /\ E \subseteq Cuotas /\ IsFiniteSet(E)
    BY <1>2, ExigidoType
  <2> HIDE DEF D, E
  <2>2. SumOn(D, E) \in Int
    BY <2>1, SumElement
  <2> QED
    BY <2>2 DEF TotalAdeudado, D, E
<1>4. 0 \in 0..N
  BY CuotasFinite
<1>5. c \in Consulta
  BY <1>2, <1>3, <1>4 DEF Consulta
<1>6. /\ c.cuotas = cuotas /\ c.desde = now /\ c.alPrincipio = TotalAdeudado(cuotas, now)
      /\ c.vencido = 0 /\ c.solapada = FALSE
  OBVIOUS
<1> DEFINE futuras == Activas(c.cuotas) \ Vencidas(c.cuotas, c.desde)
<1>7. /\ d \in Consulta
      /\ d.cuotas = c.cuotas /\ d.desde = c.desde /\ d.alPrincipio = c.alPrincipio
      /\ d.vencido = c.vencido /\ d.solapada = c.solapada
      /\ d.i # 0 => d.i \in Vencidas(c.cuotas, now)
      /\ d.i = 0 => d.vigente = IF futuras = {} THEN 0 ELSE Min(futuras)
      /\ Leidas(d) = {k \in Vencidas(c.cuotas, now) : k <= 0}
  <2> HIDE DEF c
  <2> QED
    BY <1>2, <1>4, <1>5, <1>6, SeguirFacts
<1>8. Leidas(d) = {}
  <2>1. \A k \in Vencidas(c.cuotas, now) : ~ (k <= 0)
    BY DEF Vencidas, Activas, Cuotas
  <2> HIDE DEF c, d
  <2> QED
    BY <1>7, <2>1
<1>9. SumOn(Debido(cuotas, now), Leidas(d)) = 0
  BY <1>8, SumEmpty
<1> HIDE DEF c, d
<1>10. /\ d.i # 0 => d.i \in Vencidas(d.cuotas, now)
       /\ d.i = 0 => d.vigente = IF Activas(d.cuotas) \ Vencidas(d.cuotas, d.desde) = {} THEN 0
                                 ELSE Min(Activas(d.cuotas) \ Vencidas(d.cuotas, d.desde))
  BY <1>7
<1>11. \A i \in Cuotas : /\ CuotaOK(i, d.cuotas[i])
                         /\ Crece(d.cuotas[i].aplicado, cuotas[i].aplicado)
  BY <1>2, <1>6, <1>7, CreceReflexive DEF IInv, Cuota
<1>12. /\ d.vencido = 0 /\ d.solapada = FALSE /\ d.cuotas = cuotas /\ d.desde = now
       /\ d.alPrincipio = TotalAdeudado(d.cuotas, d.desde)
  BY <1>6, <1>7
<1> QED
  BY <1>1, <1>2, <1>7, <1>8, <1>9, <1>10, <1>11, <1>12 DEF ConsultaOK

LEMMA LeerSumsOK == IInv /\ ConsultaOK /\ LeerSums => ConsultaOK'
<1> SUFFICES ASSUME IInv, ConsultaOK, LeerSums PROVE ConsultaOK'
  OBVIOUS
<1> DEFINE i == consulta.i
           saldo == SaldoActualizado(i, SumsLeidas(i), now)
           c == [consulta EXCEPT !.vencido = @ + saldo, !.solapada = @ \/ DPD(i, now) >= 7]
           d == Seguir(c, i)
           V == Vencidas(consulta.cuotas, now)
           f == Debido(consulta.cuotas, now)
           g == Debido(cuotas, now)
           L == Leidas(consulta)
<1>1. consulta' = d /\ now' = now /\ cuotas' = cuotas /\ consulta # SinConsulta /\ i # 0
  BY DEF LeerSums, vars
<1>2. /\ now \in Nat /\ cuotas \in [Cuotas -> Cuota]
      /\ consulta \in Consulta
      /\ consulta.desde <= now
      /\ consulta.alPrincipio = TotalAdeudado(consulta.cuotas, consulta.desde)
      /\ \A k \in Cuotas : /\ CuotaOK(k, consulta.cuotas[k])
                           /\ Crece(consulta.cuotas[k].aplicado, cuotas[k].aplicado)
  BY <1>1 DEF IInv, TypeOK, ConsultaOK
<1>3. /\ consulta.running = TRUE /\ i \in 0..N /\ consulta.cuotas \in [Cuotas -> Cuota]
      /\ consulta.vencido \in Nat /\ consulta.solapada \in BOOLEAN /\ consulta.vigente \in 0..N
      /\ consulta.desde \in Nat /\ consulta.alPrincipio \in Int
  BY <1>2 DEF Consulta
<1>4. i \in Cuotas /\ i \in Nat
  BY <1>1, <1>3, CuotasFinite DEF Cuotas
<1>5. cuotas[i].aplicado \in Sums /\ consulta.cuotas[i].aplicado \in Sums
  BY <1>2, <1>3, <1>4 DEF Cuota
<1>6. saldo = g[i] /\ g[i] \in Nat /\ f[i] \in Nat /\ g[i] <= f[i]
  <2>1. saldo = g[i] /\ f[i] = SaldoActualizado(i, consulta.cuotas[i].aplicado, now)
    BY <1>4 DEF Debido, SumsLeidas
  <2>2. saldo = SaldoActualizado(i, cuotas[i].aplicado, now)
    BY DEF SumsLeidas
  <2> HIDE DEF i
  <2> QED
    BY <1>2, <1>4, <1>5, <2>1, <2>2, SaldoCovers, SaldoAntitone
<1>7. c \in Consulta /\ c.cuotas = consulta.cuotas /\ c.desde = consulta.desde
      /\ c.alPrincipio = consulta.alPrincipio /\ c.vencido = consulta.vencido + saldo
      /\ c.solapada = (consulta.solapada \/ DPD(i, now) >= 7)
  <2> DEFINE v == consulta.vencido + saldo
             o == consulta.solapada \/ DPD(i, now) >= 7
  <2>1. v \in Nat /\ o \in BOOLEAN
    <3> HIDE DEF saldo
    <3> QED
      BY <1>3, <1>6
  <2>2. c = [consulta EXCEPT !.vencido = v, !.solapada = o]
    BY <1>3
  <2> HIDE DEF v, o, c
  <2>3. c \in Consulta /\ c.cuotas = consulta.cuotas /\ c.desde = consulta.desde
        /\ c.alPrincipio = consulta.alPrincipio /\ c.vencido = v /\ c.solapada = o
    BY <1>2, <2>1, <2>2 DEF Consulta
  <2> QED
    BY <2>3 DEF v, o
<1> DEFINE futuras == Activas(c.cuotas) \ Vencidas(c.cuotas, c.desde)
<1>8. /\ d \in Consulta
      /\ d.cuotas = c.cuotas /\ d.desde = c.desde /\ d.alPrincipio = c.alPrincipio
      /\ d.vencido = c.vencido /\ d.solapada = c.solapada
      /\ c.desde = now /\ (i = 0 \/ i \in Vencidas(c.cuotas, now)) =>
           /\ d.i # 0 => d.i \in Vencidas(c.cuotas, now)
           /\ d.i = 0 => d.vigente = IF futuras = {} THEN 0 ELSE Min(futuras)
           /\ Leidas(d) = {k \in Vencidas(c.cuotas, now) : k <= i}
  <2> HIDE DEF c, i
  <2> QED
    BY <1>2, <1>3, <1>7, SeguirFacts
<1> HIDE DEF c, d, saldo
<1>9. ASSUME consulta.desde = now
      PROVE /\ d.i # 0 => d.i \in Vencidas(d.cuotas, now)
            /\ d.i = 0 => d.vigente = IF Activas(d.cuotas) \ Vencidas(d.cuotas, d.desde) = {} THEN 0
                                      ELSE Min(Activas(d.cuotas) \ Vencidas(d.cuotas, d.desde))
            /\ d.vencido <= SumOn(f, Leidas(d))
            /\ d.vencido >= SumOn(g, Leidas(d))
            /\ d.solapada <=> \E k \in Leidas(d) : DPD(k, now) >= 7
  <2>1. /\ i \in V
        /\ consulta.vencido <= SumOn(f, L)
        /\ consulta.vencido >= SumOn(g, L)
        /\ consulta.solapada <=> \E k \in L : DPD(k, now) >= 7
    BY <1>1, <1>9 DEF ConsultaOK
  <2>2. /\ d.i # 0 => d.i \in Vencidas(c.cuotas, now)
        /\ d.i = 0 => d.vigente = IF futuras = {} THEN 0 ELSE Min(futuras)
        /\ Leidas(d) = {k \in V : k <= i}
    BY <1>7, <1>8, <1>9, <2>1
  <2>3. L = {k \in V : k < i}
    BY <1>1, <1>9 DEF Leidas
  <2>4. V \subseteq Cuotas /\ V \subseteq Nat /\ IsFiniteSet(V)
        /\ \A k \in Cuotas : f[k] \in Nat /\ g[k] \in Nat
    BY <1>2, <1>3, CuotasFinite, DebidoType
  <2>5. Leidas(d) = L \union {i} /\ i \notin L /\ L \subseteq V
    <3> HIDE DEF V, L, i
    <3>1. \A k \in V : k <= i <=> k < i \/ k = i
      BY <1>4, <2>4
    <3>2. ~ (i < i)
      BY <1>4
    <3> QED
      BY <2>1, <2>2, <2>3, <3>1, <3>2
  <2> HIDE DEF V, L, i, f, g
  <2>5a. /\ IsFiniteSet(V) /\ L \in SUBSET V /\ i \in V /\ i \notin L
         /\ \A k \in V : f[k] \in Int
         /\ \A k \in V : g[k] \in Int
    BY <2>1, <2>4, <2>5
  <2>6. SumOn(f, L \union {i}) = f[i] + SumOn(f, L) /\ SumOn(f, L) \in Int
    BY <2>5a, SumAdd
  <2>7. SumOn(g, L \union {i}) = g[i] + SumOn(g, L) /\ SumOn(g, L) \in Int
    BY <2>5a, SumAdd
  <2>8. SumOn(f, Leidas(d)) = SumOn(f, L \union {i}) /\ SumOn(g, Leidas(d)) = SumOn(g, L \union {i})
    BY <2>5
  <2>9. d.vencido = consulta.vencido + g[i]
    BY <1>6, <1>7, <1>8
  <2>10. d.vencido <= SumOn(f, Leidas(d)) /\ d.vencido >= SumOn(g, Leidas(d))
    BY <1>3, <1>6, <2>1, <2>6, <2>7, <2>8, <2>9
  <2>11. d.solapada <=> \E k \in Leidas(d) : DPD(k, now) >= 7
    BY <1>3, <1>7, <1>8, <2>1, <2>5
  <2>12. d.i # 0 => d.i \in Vencidas(d.cuotas, now)
    BY <1>8, <2>2
  <2>13. d.i = 0 => d.vigente = IF Activas(d.cuotas) \ Vencidas(d.cuotas, d.desde) = {} THEN 0
                                      ELSE Min(Activas(d.cuotas) \ Vencidas(d.cuotas, d.desde))
    BY <1>8, <2>2
  <2> QED
    BY <2>10, <2>11, <2>12, <2>13
<1>10. /\ d.desde = consulta.desde /\ d.cuotas = consulta.cuotas
       /\ d.alPrincipio = consulta.alPrincipio /\ d \in Consulta
  BY <1>7, <1>8
<1> HIDE DEF f, g
<1>11. f = Debido(d.cuotas, now) /\ g = Debido(cuotas, now)
  BY <1>10 DEF f, g
<1> QED
  BY <1>1, <1>2, <1>9, <1>10, <1>11 DEF ConsultaOK

\* A step of Cobranzas while a quote is being computed.
LEMMA ConsultaStep == IInv /\ ConsultaOK /\ [Next]_vars /\ UNCHANGED consulta => ConsultaOK'
<1> SUFFICES ASSUME IInv, IInv', ConsultaOK, [Next]_vars, UNCHANGED consulta, consulta # SinConsulta
             PROVE ConsultaOK'
  BY IInvStep DEF ConsultaOK
<1> DEFINE f == Debido(consulta.cuotas, now)
           g == Debido(cuotas, now)
           h == Debido(cuotas', now)
           L == Leidas(consulta)
<1>1. now \in Nat /\ now' \in Nat /\ now <= now'
  BY NowGrows
<1>2. /\ consulta \in Consulta
      /\ consulta.desde <= now
      /\ consulta.alPrincipio = TotalAdeudado(consulta.cuotas, consulta.desde)
      /\ \A k \in Cuotas : /\ CuotaOK(k, consulta.cuotas[k])
                           /\ Crece(consulta.cuotas[k].aplicado, cuotas[k].aplicado)
  BY DEF ConsultaOK
<1>3. consulta.desde \in Nat /\ consulta.cuotas \in [Cuotas -> Cuota] /\ consulta.vencido \in Nat
  BY <1>2 DEF Consulta
<1>4. cuotas \in [Cuotas -> Cuota] /\ cuotas' \in [Cuotas -> Cuota]
  BY DEF IInv, TypeOK
<1>5. ASSUME NEW k \in Cuotas
      PROVE /\ Crece(consulta.cuotas[k].aplicado, cuotas'[k].aplicado)
            /\ Crece(cuotas[k].aplicado, cuotas'[k].aplicado)
            /\ cuotas[k].aplicado \in Sums /\ cuotas'[k].aplicado \in Sums
  <2>1. /\ consulta.cuotas[k].aplicado \in Sums /\ cuotas[k].aplicado \in Sums
        /\ cuotas'[k].aplicado \in Sums
    BY <1>3, <1>4 DEF Cuota
  <2>2. Crece(cuotas[k].aplicado, cuotas'[k].aplicado)
    BY CuotasGrow
  <2> QED
    BY <1>2, <2>1, <2>2, CreceTransitive
<1>6. ASSUME consulta.desde = now'
      PROVE now' = now /\ consulta.vencido >= SumOn(h, L)
  <2>1. now' = now
    BY <1>1, <1>2, <1>3, <1>6
  <2>2. consulta.vencido >= SumOn(g, L)
    BY <1>6, <2>1 DEF ConsultaOK
  <2>3. L \subseteq Cuotas /\ IsFiniteSet(L)
    <3>1. L \subseteq Cuotas
      BY DEF Leidas, Vencidas, Activas
    <3> QED
      BY <3>1, CuotasFinite, FS_Subset
  <2>4. \A k \in Cuotas : g[k] \in Nat /\ h[k] \in Nat /\ h[k] <= g[k]
    <3> SUFFICES ASSUME NEW k \in Cuotas PROVE g[k] \in Nat /\ h[k] \in Nat /\ h[k] <= g[k]
      OBVIOUS
    <3>1. g[k] = SaldoActualizado(k, cuotas[k].aplicado, now)
          /\ h[k] = SaldoActualizado(k, cuotas'[k].aplicado, now)
      BY DEF Debido
    <3> HIDE DEF g, h
    <3> QED
      BY <1>1, <1>5, <3>1, SaldoCovers, SaldoAntitone
  <2> HIDE DEF g, h, L
  <2>5. SumOn(h, L) <= SumOn(g, L)
    BY <2>3, <2>4, SumMonotone
  <2>6. SumOn(h, L) \in Int /\ SumOn(g, L) \in Int
    BY <2>3, <2>4, SumElement
  <2> QED
    BY <1>3, <2>1, <2>2, <2>5, <2>6
<1>7. consulta.desde <= now'
  BY <1>1, <1>2, <1>3
<1>8. consulta' = consulta
  OBVIOUS
<1> DEFINE c == consulta
           F == Activas(c.cuotas) \ Vencidas(c.cuotas, c.desde)
<1>9. ASSUME c.desde = now'
      PROVE /\ c.i # 0 => c.i \in Vencidas(c.cuotas, now')
            /\ c.i = 0 => c.vigente = IF F = {} THEN 0 ELSE Min(F)
            /\ c.vencido <= SumOn(Debido(c.cuotas, now'), Leidas(c))
            /\ c.vencido >= SumOn(Debido(cuotas', now'), Leidas(c))
            /\ c.solapada <=> \E i \in Leidas(c) : DPD(i, now') >= 7
  <2>1. now' = now /\ c.vencido >= SumOn(Debido(cuotas', now), Leidas(c))
    BY <1>6, <1>9
  <2>2. /\ c.i # 0 => c.i \in Vencidas(c.cuotas, now)
        /\ c.i = 0 => c.vigente = IF F = {} THEN 0 ELSE Min(F)
        /\ c.vencido <= SumOn(Debido(c.cuotas, now), Leidas(c))
        /\ c.solapada <=> \E i \in Leidas(c) : DPD(i, now) >= 7
    BY <1>9, <2>1 DEF ConsultaOK
  <2> QED
    BY <2>1, <2>2
<1> QED
  BY <1>2, <1>5, <1>7, <1>8, <1>9 DEF ConsultaOK, Leidas

(* Both hold in every reachable state of the two together: payments and       *)
(* instalments stay consistent, and what a quote has added up so far lies     *)
(* between what was owed when it began and what is owed now.                  *)
THEOREM CarteraInvariance == CarteraSpec => [](IInv /\ ConsultaOK)
<1>1. CarteraInit => IInv /\ ConsultaOK
  BY InitIInv DEF CarteraInit, ConsultaOK
<1>2. IInv /\ ConsultaOK /\ [CarteraNext]_carteraVars => (IInv /\ ConsultaOK)'
  <2> SUFFICES ASSUME IInv, ConsultaOK, [CarteraNext]_carteraVars PROVE IInv' /\ ConsultaOK'
    OBVIOUS
  <2>1. [Next]_vars
    BY DEF CarteraNext, carteraVars, Consultar, LeerSums, Responder
  <2>2. IInv'
    BY <2>1, IInvStep
  <2>3. ASSUME Responder PROVE ConsultaOK'
    BY <2>3 DEF Responder, ConsultaOK
  <2>4. ASSUME UNCHANGED consulta PROVE ConsultaOK'
    BY <2>1, <2>4, ConsultaStep
  <2>5. [CarteraNext]_carteraVars => UNCHANGED consulta \/ Consultar \/ LeerSums \/ Responder
    BY DEF CarteraNext, carteraVars
  <2> QED
    BY <2>2, <2>3, <2>4, <2>5, ConsultarOK, LeerSumsOK
<1> QED
  BY <1>1, <1>2, PTL DEF CarteraSpec

\* What was unpaid when the quote began and is unpaid now.
LEMMA PagadaStays ==
  ASSUME NEW i \in Cuotas, NEW c \in Cuota, NEW d \in Cuota,
         CuotaOK(i, c), CuotaOK(i, d), Crece(c.aplicado, d.aplicado), c.estado = "pagada"
  PROVE d.estado = "pagada"
<1> DEFINE s == c.aplicado
           r == d.aplicado
           sch == Schedule[i]
<1>1. s \in Sums /\ r \in Sums
  BY DEF Cuota
<1>2. Nucleo(s) = Nucleo(sch) /\ (Nucleo(r) = Nucleo(sch) => d.estado = "pagada")
  BY DEF CuotaOK
<1>3. r.interes <= sch.interes /\ r.iva <= sch.iva /\ r.capital <= sch.capital
  BY DEF CuotaOK
<1>4. s.interes <= r.interes /\ s.iva <= r.iva /\ s.capital <= r.capital
  BY DEF Crece
<1>5. sch.interes \in Nat /\ sch.iva \in Nat /\ sch.capital \in Nat
  BY ScheduleType
<1> HIDE DEF s, r, sch
<1>6. Nucleo(r) = Nucleo(sch)
  BY <1>1, <1>2, <1>3, <1>4, <1>5 DEF Nucleo, Sums
<1> QED
  BY <1>2, <1>6

\* An instalment nothing was applied to is unpaid and keeps its rounded total.
LEMMA Untouched ==
  ASSUME NEW i \in Cuotas, NEW c \in Cuota, CuotaOK(i, c), ~ (Suma(c.aplicado) > 0)
  PROVE c.estado # "pagada" /\ c.saldo = Schedule[i].total
<1> DEFINE s == c.aplicado
           sch == Schedule[i]
<1>1. s \in Sums
  BY DEF Cuota
<1>2. sch.interes \in Nat /\ sch.iva \in Nat /\ sch.capital \in Nat /\ sch.capital > 0
  BY ScheduleType
<1>3. (Suma(s) = 0 => c.saldo = sch.total) /\ (c.estado = "pagada" => Nucleo(s) = Nucleo(sch))
  BY DEF CuotaOK
<1> HIDE DEF s, sch
<1>4. Suma(s) = 0 /\ Nucleo(s) = 0 /\ Nucleo(sch) > 0
  BY <1>1, <1>2 DEF Suma, Nucleo, Sums, s
<1> QED
  BY <1>3, <1>4 DEF s, sch

\* Of two readings of the instalments, what the later one asks for is overdue or
\* current in the earlier one too.
LEMMA LaterOwesLess ==
  ASSUME NEW cs \in [Cuotas -> Cuota], NEW ds \in [Cuotas -> Cuota], NEW t \in Nat,
         \A i \in Cuotas : /\ CuotaOK(i, cs[i]) /\ CuotaOK(i, ds[i])
                           /\ Crece(cs[i].aplicado, ds[i].aplicado),
         OldestFirst(ds)
  PROVE /\ Vencidas(ds, t) \subseteq Vencidas(cs, t)
        /\ Corriente(ds, t) <= Corriente(cs, t)
        /\ Corriente(cs, t) \in Nat /\ Corriente(ds, t) \in Nat
<1>0. \A i \in Cuotas : /\ cs[i] \in Cuota /\ ds[i] \in Cuota
                        /\ cs[i].aplicado \in Sums /\ ds[i].aplicado \in Sums
  BY DEF Cuota
<1>1. Activas(ds) \subseteq Activas(cs)
  BY <1>0, PagadaStays DEF Activas
<1>2. Vencidas(ds, t) \subseteq Vencidas(cs, t)
  BY <1>1 DEF Vencidas
<1>3. ASSUME NEW es \in [Cuotas -> Cuota] PROVE Corriente(es, t) \in Nat
  <2>1. Futuras(es, t) # {} => Min(Futuras(es, t)) \in Cuotas
    <3> DEFINE F == Futuras(es, t)
    <3>1. F \subseteq Nat /\ F \subseteq Cuotas
      BY DebidoType
    <3> HIDE DEF F
    <3>2. F # {} => Min(F) \in Cuotas
      BY <3>1, MinOf
    <3> QED
      BY <3>2 DEF F
  <2>2. \A i \in Cuotas : es[i].saldo \in Nat
    BY DEF Cuota
  <2> QED
    BY <2>1, <2>2 DEF Corriente
<1>4. CASE ~ Solapada(ds, t) \/ Futuras(ds, t) = {}
  <2>1. Corriente(ds, t) = 0
    BY <1>4 DEF Corriente
  <2> QED
    BY <2>1, <1>2, <1>3
<1>5. CASE Solapada(ds, t) /\ Futuras(ds, t) # {}
  <2>1. PICK k \in Vencidas(ds, t) : DPD(k, t) >= 7
    BY <1>5 DEF Solapada
  <2>2. Solapada(cs, t)
    BY <1>2, <2>1 DEF Solapada
  <2>3. k \in Cuotas /\ k \in Nat /\ ds[k].estado # "pagada" /\ DPD(k, t) > 0
    BY CuotasFinite DEF Vencidas, Activas
  <2>4. ASSUME NEW j \in Futuras(cs, t)
        PROVE /\ j \in Futuras(ds, t)
              /\ cs[j].saldo = Schedule[j].total /\ ds[j].saldo = Schedule[j].total
    <3>1. j \in Cuotas /\ j \in Nat /\ ~ (DPD(j, t) > 0)
      BY CuotasFinite DEF Futuras, Vencidas, Activas
    <3>2. k < j
      <4>1. k # j
        BY <2>3, <3>1
      <4>2. ~ (j < k)
        <5> SUFFICES ASSUME j < k PROVE FALSE
          OBVIOUS
        <5>1. DPD(k, t) < DPD(j, t) /\ DPD(k, t) \in Int /\ DPD(j, t) \in Int
          BY <2>3, <3>1, DPDOrder, DPDType
        <5> QED
          BY <2>3, <3>1, <5>1
      <4> QED
        BY <2>3, <3>1, <4>1, <4>2
    <3>3. ~ (Suma(ds[j].aplicado) > 0)
      <4>1. k \in 1..(j - 1)
        BY <2>3, <3>1, <3>2 DEF Cuotas
      <4> QED
        BY <2>3, <3>1, <4>1 DEF OldestFirst
    <3>4. ~ (Suma(cs[j].aplicado) > 0)
      <4>1. Suma(cs[j].aplicado) \in Nat /\ Suma(ds[j].aplicado) \in Nat
            /\ Suma(ds[j].aplicado) >= Suma(cs[j].aplicado)
        BY <1>0, <3>1, CreceSuma
      <4> QED
        BY <3>3, <4>1
    <3>5. ds[j].estado # "pagada" /\ ds[j].saldo = Schedule[j].total
      BY <1>0, <3>1, <3>3, Untouched
    <3>6. cs[j].saldo = Schedule[j].total
      BY <1>0, <3>1, <3>4, Untouched
    <3> QED
      BY <3>1, <3>5, <3>6 DEF Futuras, Vencidas, Activas
  <2>5. Futuras(ds, t) \subseteq Futuras(cs, t)
    BY <1>1 DEF Futuras, Vencidas
  <2>6. Futuras(ds, t) = Futuras(cs, t)
    BY <2>4, <2>5
  <2>7. Min(Futuras(cs, t)) \in Futuras(cs, t) /\ Min(Futuras(ds, t)) = Min(Futuras(cs, t))
    <3> DEFINE F == Futuras(cs, t)
    <3>1. F \in SUBSET Nat /\ F # {}
      BY <1>5, <2>6, DebidoType
    <3> HIDE DEF F
    <3>2. Min(F) \in F
      BY <3>1, MinOf
    <3> QED
      BY <3>2, <2>6 DEF F
  <2>8. Corriente(cs, t) = cs[Min(Futuras(cs, t))].saldo
    BY <1>5, <2>2, <2>6 DEF Corriente
  <2>9. Corriente(ds, t) = ds[Min(Futuras(cs, t))].saldo
    BY <1>5, <2>7 DEF Corriente
  <2>10. Corriente(ds, t) = Corriente(cs, t)
    BY <2>4, <2>7, <2>8, <2>9
  <2> QED
    BY <1>2, <1>3, <2>10
<1> QED
  BY <1>4, <1>5

\* The quote never asks for more than was owed when it began, nor for less than
\* is owed when it ends (calcularSaldoActualizado beside imputar).
THEOREM QuoteBounds == CarteraSpec => []QuoteIsBetween
<1>1. IInv /\ ConsultaOK => QuoteIsBetween
  <2> SUFFICES ASSUME IInv, ConsultaOK, consulta # SinConsulta, consulta.i = 0, consulta.desde = now
               PROVE /\ TotalParaQuedarAlDia(consulta) <= consulta.alPrincipio
                     /\ TotalParaQuedarAlDia(consulta) >= TotalAdeudado(cuotas, now)
    BY DEF QuoteIsBetween
  <2> DEFINE cs == consulta.cuotas
             V == Vencidas(cs, now)
             W == Vencidas(cuotas, now)
             f == Debido(cs, now)
             g == Debido(cuotas, now)
  <2>1. /\ consulta \in Consulta /\ now \in Nat /\ cuotas \in [Cuotas -> Cuota]
        /\ consulta.alPrincipio = TotalAdeudado(cs, now)
        /\ \A i \in Cuotas : /\ CuotaOK(i, cs[i]) /\ CuotaOK(i, cuotas[i])
                             /\ Crece(cs[i].aplicado, cuotas[i].aplicado)
        /\ consulta.vigente = IF Futuras(cs, now) = {} THEN 0 ELSE Min(Futuras(cs, now))
        /\ consulta.vencido <= SumOn(f, Leidas(consulta))
        /\ consulta.vencido >= SumOn(g, Leidas(consulta))
        /\ consulta.solapada <=> \E i \in Leidas(consulta) : DPD(i, now) >= 7
        /\ OldestFirst(cuotas)
    BY DEF ConsultaOK, IInv, TypeOK, Futuras
  <2>2. cs \in [Cuotas -> Cuota] /\ consulta.vencido \in Nat /\ consulta.solapada \in BOOLEAN
    BY <2>1 DEF Consulta
  <2>3. Leidas(consulta) = V
    BY DEF Leidas
  <2>4. consulta.solapada <=> Solapada(cs, now)
    BY <2>1, <2>3 DEF Solapada
  <2>5. TotalParaQuedarAlDia(consulta) = consulta.vencido + Corriente(cs, now)
    <3>1. Futuras(cs, now) # {} => Min(Futuras(cs, now)) # 0
      <4> DEFINE F == Futuras(cs, now)
      <4>1. F \subseteq Nat /\ F \subseteq Cuotas
        BY <2>1, <2>2, DebidoType
      <4>2. \A k \in Cuotas : k # 0
        BY DEF Cuotas
      <4> HIDE DEF F
      <4>3. F # {} => Min(F) # 0
        BY <4>1, <4>2, MinOf
      <4> QED
        BY <4>3 DEF F
    <3>2. consulta.vigente # 0 <=> Futuras(cs, now) # {}
      BY <2>1, <3>1
    <3>3. Futuras(cs, now) # {} => consulta.vigente = Min(Futuras(cs, now))
      BY <2>1
    <3> QED
      BY <2>4, <3>2, <3>3 DEF TotalParaQuedarAlDia, Corriente
  <2>6. /\ W \subseteq V
        /\ Corriente(cuotas, now) <= Corriente(cs, now)
        /\ Corriente(cs, now) \in Nat /\ Corriente(cuotas, now) \in Nat
    <3> HIDE DEF cs
    <3> QED
      BY <2>1, <2>2, LaterOwesLess
  <2>7. /\ IsFiniteSet(V) /\ V \subseteq Cuotas
        /\ \A i \in V : f[i] \in Nat /\ g[i] \in Nat
    <3> HIDE DEF cs
    <3> QED
      BY <2>1, <2>2, DebidoType
  <2>8. /\ TotalAdeudado(cs, now) = SumOn(f, V) + Corriente(cs, now)
        /\ TotalAdeudado(cuotas, now) = SumOn(g, W) + Corriente(cuotas, now)
    <3> HIDE DEF cs
    <3> QED
      BY <2>1, <2>2, TotalSplit
  <2>9. consulta.vencido <= SumOn(f, V) /\ consulta.vencido >= SumOn(g, V)
    BY <2>1, <2>3
  <2> HIDE DEF f, g, V, W, cs
  <2>10. SumOn(g, W) <= SumOn(g, V)
    BY <2>6, <2>7, SumSubset
  <2>11. SumOn(g, V) \in Int /\ SumOn(f, V) \in Int /\ SumOn(g, W) \in Int
    <3>1. IsFiniteSet(W) /\ \A i \in W : g[i] \in Int
      BY <2>6, <2>7, FS_Subset
    <3> QED
      BY <3>1, <2>7, SumElement
  <2> QED
    BY <2>1, <2>2, <2>5, <2>6, <2>8, <2>9, <2>10, <2>11
<1> QED
  BY <1>1, CarteraInvariance, PTL

-----------------------------------------------------------------------------
(* The portfolio. *)

\* A loan is as late as its oldest unpaid instalment.
LEMMA EffectiveIsOldest ==
  ASSUME NEW cs, NEW t \in Nat, Abiertas(cs) # {}
  PROVE /\ Min(Abiertas(cs)) \in Cuotas
        /\ EffectiveDpd(cs, t) = DPD(Min(Abiertas(cs)), t)
<1> DEFINE A == Abiertas(cs)
           m == Min(A)
           dpds == {DPD(i, t) : i \in A}
           overdue == {d \in dpds : d > 0}
           x == DPD(m, t)
<1>1. A \in SUBSET Nat /\ A \subseteq Cuotas /\ A # {}
  BY CuotasFinite DEF Abiertas, Activas
<1>2. m \in A /\ \A i \in A : m <= i
  <2> HIDE DEF A
  <2> QED
    BY <1>1, MinOf
<1>3. \A i \in A : DPD(i, t) \in Int /\ DPD(i, t) <= x
  <2> SUFFICES ASSUME NEW i \in A PROVE DPD(i, t) \in Int /\ DPD(i, t) <= x
    OBVIOUS
  <2>1. m \in Cuotas /\ i \in Cuotas /\ m \in Nat /\ i \in Nat /\ m <= i
    BY <1>1, <1>2
  <2> HIDE DEF m
  <2>2. DPD(i, t) \in Int /\ DPD(m, t) \in Int
    BY <2>1, DPDType
  <2>3. CASE m = i
    BY <2>2, <2>3
  <2>4. CASE m < i
    BY <2>1, <2>2, <2>4, DPDOrder
  <2> QED
    BY <2>1, <2>3, <2>4
<1>4. x \in dpds /\ dpds \subseteq Int /\ \A d \in dpds : d <= x
  BY <1>2, <1>3
<1> HIDE DEF A, m, x, dpds
<1>5. ASSUME NEW S \in SUBSET dpds, x \in S PROVE Max(S) = x
  <2>1. S \subseteq Int /\ \A d \in S : x >= d
    BY <1>4, <1>5
  <2>2. \E z \in S : \A y \in S : z >= y
    BY <1>5, <2>1
  <2>3. Max(S) \in S /\ \A y \in S : Max(S) >= y
    BY <2>2 DEF Max
  <2>4. Max(S) >= x /\ x >= Max(S) /\ Max(S) \in Int /\ x \in Int
    BY <1>5, <2>1, <2>3
  <2> QED
    BY <2>4
<1>6. overdue \subseteq dpds /\ (overdue # {} => x \in overdue)
  <2>1. \A d \in overdue : d \in dpds /\ d \in Int /\ d > 0 /\ d <= x /\ x \in Int
    BY <1>4
  <2>2. \A d \in overdue : x > 0
    BY <2>1
  <2> QED
    BY <1>4, <2>2
<1>7. Max(dpds) = x /\ (overdue # {} => Max(overdue) = x)
  BY <1>4, <1>5, <1>6
<1>8. EffectiveDpd(cs, t) = IF overdue # {} THEN Max(overdue)
                            ELSE IF dpds # {} THEN Max(dpds) ELSE SinCuotas
  BY DEF EffectiveDpd, dpds, A
<1>9. EffectiveDpd(cs, t) = x
  BY <1>4, <1>7, <1>8
<1> QED
  BY <1>1, <1>2, <1>9 DEF x, m, A

LEMMA DPDGrows ==
  ASSUME NEW i \in Cuotas, NEW t \in Nat, NEW u \in Nat, t <= u
  PROVE DPD(i, t) <= DPD(i, u)
<1>1. (t + 1) \div 3 <= (u + 1) \div 3 /\ (t + 1) \div 3 \in Nat /\ (u + 1) \div 3 \in Nat
  OBVIOUS
<1> QED
  BY <1>1, ScheduleType DEF DPD, UtcDay

\* The later, the graver.
LEMMA BucketMonotone ==
  ASSUME NEW d \in Int, NEW e \in Int, d <= e
  PROVE /\ AsignarBucket(d) <= AsignarBucket(e)
        /\ AsignarBucket(d) \in Nat /\ AsignarBucket(e) \in Nat
<1> DEFINE S(x) == {b \in DOMAIN BucketStarts : x >= BucketStarts[b]}
<1>1. DOMAIN BucketStarts = 1..9
  BY DEF BucketStarts
<1>2. \A b \in 1..9 : BucketStarts[b] \in Int
  BY DEF BucketStarts
<1>3. S(d) \subseteq S(e)
  BY <1>1, <1>2
<1>4. IsFiniteSet(S(e))
  <2>1. IsFiniteSet(1..9)
    <3> DEFINE n == 9
               o == 1
    <3>1. n \in Int /\ o \in Int
      OBVIOUS
    <3> HIDE DEF n, o
    <3>2. IsFiniteSet(o..n)
      BY <3>1, FS_Interval
    <3> QED
      BY <3>2 DEF n, o
  <2>2. S(e) \subseteq 1..9
    BY <1>1
  <2> HIDE DEF S
  <2> QED
    BY <2>1, <2>2, FS_Subset
<1> HIDE DEF S
<1>5. /\ Cardinality(S(d)) <= Cardinality(S(e))
      /\ Cardinality(S(d)) \in Nat /\ Cardinality(S(e)) \in Nat
  BY <1>3, <1>4, FS_Subset, FS_CardinalityType
<1> QED
  BY <1>5 DEF AsignarBucket, S

\* Without an instalment that was just paid, no step moves the loan to a milder
\* bucket.
LEMMA MilderStep ==
  ASSUME IInv, [Next]_vars,
         AsignarBucket(EffectiveDpd(cuotas', now')) < AsignarBucket(EffectiveDpd(cuotas, now))
  PROVE \E i \in Cuotas : cuotas'[i].estado = "pagada" /\ cuotas[i].estado # "pagada"
<1> SUFFICES ASSUME \A i \in Cuotas : cuotas'[i].estado = "pagada" => cuotas[i].estado = "pagada"
             PROVE FALSE
  OBVIOUS
<1>1. IInv'
  BY IInvStep
<1>2. \A i \in Cuotas : cuotas[i].estado = "pagada" => cuotas'[i].estado = "pagada"
  <2> SUFFICES ASSUME NEW i \in Cuotas, cuotas[i].estado = "pagada" PROVE cuotas'[i].estado = "pagada"
    OBVIOUS
  <2>1. cuotas[i] \in Cuota /\ CuotaOK(i, cuotas[i])
    BY DEF IInv, TypeOK
  <2>2. cuotas'[i] \in Cuota /\ CuotaOK(i, cuotas'[i])
    BY <1>1 DEF IInv, TypeOK
  <2>3. Crece(cuotas[i].aplicado, cuotas'[i].aplicado)
    BY CuotasGrow
  <2> DEFINE c == cuotas[i]
             d == cuotas'[i]
  <2> HIDE DEF c, d
  <2>4. d.estado = "pagada"
    <3>1. c \in Cuota /\ d \in Cuota /\ CuotaOK(i, c) /\ CuotaOK(i, d)
          /\ Crece(c.aplicado, d.aplicado) /\ c.estado = "pagada"
      BY <2>1, <2>2, <2>3 DEF c, d
    <3> QED
      BY <3>1, PagadaStays
  <2> QED
    BY <2>4 DEF d
<1>3. Abiertas(cuotas') = Abiertas(cuotas)
  BY <1>2 DEF Abiertas, Activas
<1>4. now \in Nat /\ now' \in Nat /\ now <= now'
  BY NowGrows
<1> DEFINE A == Abiertas(cuotas)
           d == EffectiveDpd(cuotas, now)
           e == EffectiveDpd(cuotas', now')
<1> SUFFICES AsignarBucket(d) <= AsignarBucket(e) /\ AsignarBucket(d) \in Nat /\ AsignarBucket(e) \in Nat
  OBVIOUS
<1> SUFFICES d \in Int /\ e \in Int /\ d <= e
  <2> HIDE DEF d, e
  <2> QED
    BY BucketMonotone
<1>5. CASE A = {}
  <2>1. d = SinCuotas /\ e = SinCuotas
    BY <1>3, <1>5 DEF EffectiveDpd
  <2> HIDE DEF d, e
  <2> QED
    BY <2>1 DEF SinCuotas
<1>6. CASE A # {}
  <2> DEFINE m == Min(A)
             x == DPD(m, now)
             y == DPD(m, now')
  <2>1. m \in Cuotas /\ d = x /\ e = y
    <3>1. m \in Cuotas /\ d = x
      BY <1>4, <1>6, EffectiveIsOldest
    <3>2. EffectiveDpd(cuotas', now') = DPD(Min(Abiertas(cuotas')), now')
      BY <1>3, <1>4, <1>6, EffectiveIsOldest
    <3> QED
      BY <1>3, <3>1, <3>2
  <2> HIDE DEF d, e, m
  <2>2. x \in Int /\ y \in Int /\ x <= y
    BY <1>4, <2>1, DPDType, DPDGrows
  <2> QED
    BY <2>1, <2>2
<1> QED
  BY <1>5, <1>6

\* The bucket of a loan gets milder only by a payment that settles an instalment
\* (getCarteraActiva, asignarBucket).
THEOREM BucketsOnlyWorsen == CarteraSpec => MilderOnlyWhenPaid
<1> DEFINE A == AsignarBucket(EffectiveDpd(cuotas', now')) < AsignarBucket(EffectiveDpd(cuotas, now))
                => \E i \in Cuotas : cuotas'[i].estado = "pagada" /\ cuotas[i].estado # "pagada"
<1>1. IInv /\ [Next]_vars => [A]_vars
  BY MilderStep
<1> HIDE DEF A
<1>2. Spec => [][A]_vars
  BY <1>1, Invariance, PTL DEF Spec
<1> QED
  BY <1>2, CarteraRefinesCobranzas, PTL DEF MilderOnlyWhenPaid, A
=============================================================================
