------------------------------ MODULE MCCredit ------------------------------
(* A small instance of Credit: debts in millions of pesos, eight months of    *)
(* history, four instalments.                                                 *)
EXTENDS Credit

(* 10000 * (log10 x / log10 15) ^ 1.35, x in millions. *)
MCDebtCurve ==
  <<0, 1588, 2958, 4049, 4953, 5725, 6400, 7000, 7541, 8033, 8485, 8903, 9293, 9657, 10000>>

Entity(sit, monto, dias, flags) ==
  [situacion |-> sit, monto |-> monto, dias |-> dias, flags |-> flags]
Latest(entidades) ==
  [ok |-> TRUE, periodos |-> <<[valid |-> TRUE, entidades |-> entidades]>>]
NoPeriods == [ok |-> TRUE, periodos |-> <<>>]
NoAnswer == [ok |-> FALSE, periodos |-> <<>>]
Undated == [ok |-> TRUE, periodos |-> <<[valid |-> FALSE, entidades |-> <<>>]>>]

MCLatest ==
  {Latest(<<Entity(1, m, 0, {}), Entity(s, n, d, f)>>) :
     m \in {0, 3}, n \in {1, 8}, s \in {1, 2, 3, 4}, d \in {0, 170},
     f \in {{}, {"enRevision"}, {"refinanciaciones"}, {"recategorizacionOblig"},
            {"enRevision", "refinanciaciones"}, {"procesoJud"}}}

(* Eight months of one debt: what it was, how it moved every month, what it   *)
(* is now, and the two months in which it was in a worse situation.           *)
History(start, step, now, bad, sit) ==
  [ok |-> TRUE,
   periodos |-> [i \in 1..8 |->
     [periodo |-> i,
      entidades |-> <<[situacion |-> IF i \in bad THEN sit ELSE 1,
                       monto |-> IF i = 8 THEN now ELSE start + step * i]>>]]]
MCHistorical ==
  {History(h[1], h[2], now, bad, 3) :
     h \in {<<0, 0>>, <<100, 0>>, <<100, -8>>, <<60, 8>>}, now \in {0, 4, 40, 95, 110, 130},
     bad \in {{}, {2}, {7, 8}}}
  \union {NoPeriods}

MCReports ==
  {[latest |-> l, historical |-> h] : l \in MCLatest, h \in MCHistorical}
  \union {[latest |-> l, historical |-> h] :
            l \in {NoPeriods, NoAnswer, Undated}, h \in {NoPeriods, NoAnswer}}

(* Annual rates of 208, 200 and 400 percent, and an amount of which no whole  *)
(* cent is amortised by the first instalment.                                 *)
MCTerms ==
  {[amount |-> a, rate |-> [num |-> 1, den |-> d]] :
     a \in {2, 10000, 10001, 10002, 10050, 12345, 13333, 14999}, d \in {25, 26, 13}}
=============================================================================
