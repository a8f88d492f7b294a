----------------------------- MODULE MCZagaAuth -----------------------------
(* A small instance of ZagaAuth. *)
EXTENDS ZagaAuth, TLC

\* Requests of a kind are interchangeable.
RequestSymmetry == Permutations(Logins) \union Permutations(Logouts)
=============================================================================
