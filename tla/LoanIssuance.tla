---------------------------- MODULE LoanIssuance ----------------------------
(***************************************************************************)
(* What the contract component promises to the rest of the system: a case  *)
(* has one open contract at a time; an open contract is signed or closed,  *)
(* once and for all; and the first signature lends, no other does.         *)
(***************************************************************************)
CONSTANTS Cases, Contracts, NoCase

VARIABLES
  phase,  \* "none", "open", "signed" or "closed", per contract
  owner,  \* the case of a contract
  lent    \* the contracts that gave a loan, with their cases

issuance == <<phase, owner, lent>>

Init ==
  /\ phase = [k \in Contracts |-> "none"]
  /\ owner = [k \in Contracts |-> NoCase]
  /\ lent = {}

Open(k, c) ==
  /\ phase[k] = "none"
  /\ \A m \in Contracts : owner[m] = c => phase[m] # "open"
  /\ phase' = [phase EXCEPT ![k] = "open"]
  /\ owner' = [owner EXCEPT ![k] = c]
  /\ UNCHANGED lent

\* Several contracts may expire together.
Close(S) ==
  /\ S # {}
  /\ \A k \in S : phase[k] = "open"
  /\ phase' = [k \in Contracts |-> IF k \in S THEN "closed" ELSE phase[k]]
  /\ UNCHANGED <<owner, lent>>

Sign(k) ==
  /\ phase[k] = "open"
  /\ phase' = [phase EXCEPT ![k] = "signed"]
  /\ lent' = IF \E l \in lent : l.case = owner[k]
             THEN lent
             ELSE lent \union {[contract |-> k, case |-> owner[k]]}
  /\ UNCHANGED owner

Next ==
  \/ \E k \in Contracts, c \in Cases : Open(k, c)
  \/ \E S \in SUBSET Contracts : Close(S)
  \/ \E k \in Contracts : Sign(k)

Spec == Init /\ [][Next]_issuance

=============================================================================
