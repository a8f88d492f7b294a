-------------------------------- MODULE Sums --------------------------------
(* The sum of a function of integers over a finite part of its domain.       *)
EXTENDS Integers, FiniteSetsExt

SumOn(f, S) == MapThenSumSet(LAMBDA i : f[i], S)
=============================================================================
