------------------------------ MODULE MCBilling ------------------------------
(***************************************************************************)
(* Instances of Billing for TLC.                                           *)
(***************************************************************************)
EXTENDS Billing, TLC

CONSTANTS d1

(* Every session is the same driver's.                                     *)
SameDriver == [s \in Session |-> d1]

(* Sessions that are neither Courtesy nor Minor are alike, since every one  *)
(* is the same driver's.                                                   *)
BillingSymmetry ==
  Permutations(Session \ (Courtesy \cup Minor)) \cup
  Permutations(Payment) \cup Permutations(Link) \cup Permutations(Reversal)
==============================================================================
