------------------------------ MODULE MCCartera ------------------------------
(* The small instances of Cobranzas, with the readers of Cartera beside them. *)
EXTENDS MCCobranzas, Cartera
=============================================================================
