------------------------------- MODULE Zcore -------------------------------
(* The prequalification score of prequal/bcra-zcore-engine.service.ts, from   *)
(* the two answers of BCRA's debtors register: the debts of the latest month  *)
(* and the debts of the months before it.                                     *)
(*                                                                            *)
(* Fractions are integers in units of 1/Unit, rounded down; the code computes *)
(* them in floating point.  Amounts of the latest month are in the unit of    *)
(* MinDebt and MaxDebt, those of earlier months in thousands of pesos.        *)
EXTENDS Integers, Sequences, FiniteSetsExt, Sums

CONSTANTS
  MinDebt, MaxDebt,     \* 1 and 15 million pesos
  DebtCurve             \* log10(debt / min) / log10(max / min), to the power 1.35

Unit == 10000
MonthsLooked == 24
RelevantDebt == 5

ASSUME DebtCurveAssumption ==
  /\ MinDebt \in Nat /\ MaxDebt \in Nat /\ MinDebt < MaxDebt
  /\ DebtCurve \in [MinDebt..MaxDebt -> 0..Unit]
  /\ \A a, b \in MinDebt..MaxDebt : a <= b => DebtCurve[a] <= DebtCurve[b]

HardFlags == {"procesoJud", "situacionJuridica", "irrecDisposicionTecnica"}
SoftFlags == {"refinanciaciones", "recategorizacionOblig", "enRevision"}

(* The two answers, as far as the score reads them. *)
LatestAnswer ==
  [ok : BOOLEAN,
   periodos : Seq([valid : BOOLEAN,
                   entidades : Seq([situacion : Nat, monto : Nat, dias : Nat,
                                    flags : SUBSET (HardFlags \union SoftFlags)])])]
HistoricalAnswer ==
  [ok : BOOLEAN,
   periodos : Seq([periodo : Nat, entidades : Seq([situacion : Nat, monto : Nat])])]

SumOver(entidades, Value(_)) ==
  SumOn([i \in DOMAIN entidades |-> Value(entidades[i])], DOMAIN entidades)
Largest(entidades, Value(_)) ==
  Max({0} \union {Value(entidades[i]) : i \in DOMAIN entidades})
Clamp(x, low, high) == Max({low, Min({x, high})})

(****************************************************************************)
(* What may be scored: both answers came, and the first has a dated month   *)
(****************************************************************************)
ClassifyBcraResponses(latest, historical) ==
  IF ~latest.ok \/ ~historical.ok THEN "BCRA_UNAVAILABLE"
  ELSE IF latest.periodos = <<>> THEN "BCRA_NO_DATA"
  ELSE IF \A i \in DOMAIN latest.periodos : ~latest.periodos[i].valid
       THEN "BCRA_INVALID_PAYLOAD"
  ELSE "SUCCESS"

(* The entities of the first dated month. *)
Entidades(latest) ==
  LET dated == {i \in DOMAIN latest.periodos : latest.periodos[i].valid}
  IN  latest.periodos[Min(dated)].entidades

NormalizeLatest(latest) ==
  LET es    == Entidades(latest)
      total == SumOver(es, LAMBDA e : e.monto)
      Share(amount) == (amount * Unit) \div Max({total, 1})
  IN  [entidades_count |-> Len(es),
       max_situacion   |-> Largest(es, LAMBDA e : e.situacion),
       total_monto     |-> total,
       max_dias_atraso |-> Largest(es, LAMBDA e : e.dias),
       flags           |-> UNION {es[i].flags : i \in DOMAIN es},
       avg_situacion   |-> Share(SumOver(es, LAMBDA e : e.situacion * e.monto)),
       share_sit_2plus |-> Share(SumOver(es, LAMBDA e : IF e.situacion >= 2 THEN e.monto ELSE 0)),
       share_sit_3plus |-> Share(SumOver(es, LAMBDA e : IF e.situacion >= 3 THEN e.monto ELSE 0)),
       avg_dias        |-> Share(SumOver(es, LAMBDA e : e.dias * e.monto)),
       largest_share   |-> Share(Largest(es, LAMBDA e : e.monto))]

(****************************************************************************)
(* The months before, oldest first                                          *)
(****************************************************************************)
(* Mutant: the months are taken in the order BCRA lists them. *)
UnsortedPeriods(periodos) == periodos

(* The place of every month: one after those before it, and after those of    *)
(* the same date that are listed before it (Array.sort is stable).            *)
Places(periodos) ==
  LET Before(i, j) == IF i < j THEN periodos[i].periodo <= periodos[j].periodo
                      ELSE periodos[i].periodo < periodos[j].periodo
  IN  [j \in DOMAIN periodos |-> Cardinality({i \in DOMAIN periodos : Before(i, j)}) + 1]

SortHistoricalPeriods(periodos) ==
  LET places == Places(periodos)
  IN  [n \in DOMAIN periodos |-> periodos[CHOOSE j \in DOMAIN periodos : places[j] = n]]

DebtTotal(p) == SumOver(p.entidades, LAMBDA e : e.monto)
PeriodWorst(p) == Largest(p.entidades, LAMBDA e : e.situacion)

(* How many of the last six months moved the debt in one direction, counted *)
(* back from the last one.                                                  *)
MonthsInARow(months, Moves(_, _)) ==
  LET last == Len(months)
      Moved(k) == Moves(DebtTotal(months[last - k]), DebtTotal(months[last - k + 1]))
  IN  Max({0} \union {n \in 1..Min({6, last - 1}) : \A k \in 1..n : Moved(k)})

NormalizeHistorical(historical) ==
  LET months == SortHistoricalPeriods(historical.periodos)
      last   == Len(months)
      Bad(s) == {i \in 1..last : PeriodWorst(months[i]) >= s}
  IN  [worst       |-> Max({0} \union {PeriodWorst(months[i]) : i \in 1..last}),
       months2plus |-> Cardinality(Bad(2)),
       months3plus |-> Cardinality(Bad(3)),
       sinceBad    |-> IF Bad(2) = {} THEN MonthsLooked ELSE last - Max(Bad(2)),
       \* the current debt, the one 3 and the one 6 months ago
       debts       |-> IF last < 7 THEN <<>>
                       ELSE [j \in 1..3 |-> DebtTotal(months[last - 3 * (j - 1)])],
       down        |-> MonthsInARow(months, LAMBDA before, after : after < before),
       up          |-> MonthsInARow(months, LAMBDA before, after : after > before)]

(* Points for a change from debt d to curr, from the steps <<percentage,      *)
(* points>> of a falling and of a rising debt, largest change first.          *)
ChangePoints(curr, d, falling, rising, fromNothing) ==
  LET change == (curr - d) * 100
      fell   == {j \in DOMAIN falling : change <= -falling[j][1] * d}
      rose   == {j \in DOMAIN rising : change >= rising[j][1] * d}
  IN  IF d = 0 THEN (IF curr >= RelevantDebt THEN fromNothing ELSE 0)
      ELSE IF fell # {} THEN falling[Min(fell)][2]
      ELSE IF rose # {} THEN rising[Min(rose)][2]
      ELSE 0

TrendAdjustmentPoints(h) ==
  LET adj6 == ChangePoints(h.debts[1], h.debts[3],
                <<<<25, 15>>, <<10, 10>>, <<5, 5>>>>,
                <<<<25, -15>>, <<10, -10>>, <<5, -5>>>>, -15)
      adj3 == ChangePoints(h.debts[1], h.debts[2],
                <<<<15, 5>>, <<5, 3>>>>, <<<<15, -8>>, <<5, -4>>>>, -8)
      adjConsistency == IF h.down >= 5 THEN 4 ELSE IF h.down >= 4 THEN 2
                        ELSE IF h.up >= 5 THEN -4 ELSE IF h.up >= 4 THEN -2 ELSE 0
  IN  IF h.debts = <<>> THEN 0 ELSE Clamp(adj6 + adj3 + adjConsistency, -20, 20)

(****************************************************************************)
(* The score                                                                *)
(****************************************************************************)
NormSituation(x) == (Clamp(x, Unit, 5 * Unit) - Unit) \div 4
NormDays(x) == Clamp(x, 0, 180 * Unit) \div 180
NormEntities(n) == (Clamp(n, 0, 8) * Unit) \div 8
NormDebtLoad(total) ==
  IF total <= MinDebt THEN 0 ELSE IF total >= MaxDebt THEN Unit ELSE DebtCurve[total]

HardReject(l) == l.flags \intersect HardFlags # {} \/ l.max_situacion >= 4

RActual(l) ==
  (45 * NormSituation(l.max_situacion * Unit) + 35 * NormSituation(l.avg_situacion)
     + 10 * l.share_sit_2plus + 10 * l.share_sit_3plus) \div 100
RMora(l) == (6 * NormDays(l.max_dias_atraso * Unit) + 4 * NormDays(l.avg_dias)) \div 10
FlagPoints(flag) ==
  CASE flag = "recategorizacionOblig" -> 7500
    [] flag = "refinanciaciones"      -> 4500
    [] flag = "enRevision"            -> 1500
RFlags(l) == Max({0} \union {FlagPoints(f) : f \in l.flags \intersect SoftFlags})
RHistory(h) ==
  (30 * NormSituation(h.worst * Unit)
     + (25 * (h.months2plus + h.months3plus) * Unit) \div MonthsLooked
     + (20 * (MonthsLooked - Min({h.sinceBad, MonthsLooked})) * Unit) \div MonthsLooked) \div 100
RStructure(l) == (6 * NormEntities(l.entidades_count) + 4 * l.largest_share) \div 10

(* The total risk, in units of 1/(1000 * Unit). *)
RTotal(l, h) ==
  250 * RActual(l) + 150 * RMora(l) + 120 * RFlags(l) + 200 * RHistory(h)
    + 95 * RStructure(l) + 185 * NormDebtLoad(l.total_monto)

ComputeZcoreBcraV1(l, h) ==
  IF HardReject(l) THEN 0
  ELSE LET zcoreBase == (1000 * Unit - RTotal(l, h) + Unit \div 2) \div Unit
       IN  Clamp(zcoreBase + TrendAdjustmentPoints(h), 0, 1000)

Score(report) ==
  ComputeZcoreBcraV1(NormalizeLatest(report.latest), NormalizeHistorical(report.historical))
Eligible(score) == score >= 600
RiskLevel(score) == IF score >= 800 THEN "LOW" ELSE IF score >= 600 THEN "MEDIUM" ELSE "HIGH"
=============================================================================
