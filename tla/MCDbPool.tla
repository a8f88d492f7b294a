------------------------------ MODULE MCDbPool ------------------------------
(* A small instance of DbPool: a payment applied twice at once, a start      *)
(* request and a webhook of one case, and a list.                             *)
EXTENDS DbPool, TLC

CONSTANTS a1, a2, s1, w1, q1, pago1, cuotas1, case1, contract1

MCProgram ==
  (a1 :> <<pago1, Query, cuotas1>>) @@ (a2 :> <<pago1, Query, cuotas1>>)
    @@ (s1 :> <<case1, contract1>>) @@ (w1 :> <<contract1, case1>>) @@ (q1 :> <<>>)
=============================================================================
