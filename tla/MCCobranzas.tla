------------------------------ MODULE MCCobranzas ------------------------------
(* Small instances of Cobranzas: amounts in cents, 1% of mora a day. *)
EXTENDS Cobranzas, TLC

MCSchedule == <<[capital |-> 1000, interes |-> 100, iva |-> 21, total |-> 1121, vence |-> 1],
                [capital |-> 1000, interes |-> 49, iva |-> 10, total |-> 1058, vence |-> 8]>>

\* The evening of the first due date, the next morning and evening, and the days
\* the second instalment is due and one after.
MCInstants == {4, 6, 7, 24, 27}

PagoSymmetry == Permutations(Pagos)
=============================================================================
