---------------------------- MODULE MCBcraRequests ----------------------------
(* Small instances of BcraRequests. *)
EXTENDS BcraRequests, TLC

=============================================================================
