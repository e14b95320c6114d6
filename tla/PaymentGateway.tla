---------------------------- MODULE PaymentGateway ----------------------------
(***************************************************************************)
(* The payment provider (Wompi), as BillingService sees it through the     *)
(* port PaymentGateway: it takes a charge, decides it when it likes, voids *)
(* and refunds what it approved, and takes a driver's payment on a         *)
(* checkout link.  It reports each final status by a webhook that may come *)
(* late or never, and on request.                                          *)
(***************************************************************************)
EXTENDS BillingRows

billingVars == <<sessionVars, paymentVars, debtVars, inbox, callVars, linkVars>>

(* The statuses of p it has gone through and may still report.             *)
Reports(p) ==
  IF psp[p] = "VOIDED" THEN {"APPROVED", "VOIDED"} ELSE {psp[p]} \cap FinalStatuses

(* It receives a charge that is awaited.                                   *)
Take(p) ==
  /\ callPc[p] = "sent" /\ psp[p] = "none"
  /\ psp' = [psp EXCEPT ![p] = "PENDING"]
  /\ UNCHANGED <<via, billingVars, reversalVars>>

Decide(p) ==
  /\ psp[p] = "PENDING"
  /\ \E st \in {"APPROVED", "DECLINED", "ERROR"} : psp' = [psp EXCEPT ![p] = st]
  /\ UNCHANGED <<via, billingVars, reversalVars>>

(* A driver pays at link l; a link is for a single use, and a payment that *)
(* failed does not use it up.                                              *)
PayLink(p, l) ==
  /\ linkPc[l] = "made"
  /\ pState[p] = "ABSENT" /\ psp[p] = "none"
  /\ \A q \in Payment : via[q] = l => psp[q] \in {"DECLINED", "ERROR"}
  /\ psp' = [psp EXCEPT ![p] = "PENDING"]
  /\ via' = [via EXCEPT ![p] = l]
  /\ UNCHANGED <<billingVars, reversalVars>>

(* It answers reversal r: the network still allows a void, only a refund,  *)
(* which it may leave PENDING, or neither succeeds.                        *)
Reverses(r, kind, status) ==
  /\ revPc[r] = "asked"
  /\ psp[revFor[r]] = "APPROVED"
  /\ kind = "VOID" => status # "PENDING"
  /\ psp' = IF kind = "VOID" /\ status = "SUCCEEDED"
            THEN [psp EXCEPT ![revFor[r]] = "VOIDED"] ELSE psp
  /\ revPc' = [revPc EXCEPT ![r] = "answered"]
  /\ revKind' = [revKind EXCEPT ![r] = kind]
  /\ revStatus' = [revStatus EXCEPT ![r] = status]
  /\ UNCHANGED <<via, billingVars, revFor, revRow>>

(* reversePayment throws: an error worth a retry, or both ways are closed. *)
ReversalThrows(r) ==
  /\ revPc[r] = "asked"
  /\ revPc' = [revPc EXCEPT ![r] = "over"]
  /\ UNCHANGED <<pspVars, billingVars, revFor, revKind, revStatus, revRow>>

PaymentGatewayNext ==
  \/ \E p \in Payment : Take(p) \/ Decide(p) \/ \E l \in Link : PayLink(p, l)
  \/ \E r \in Reversal :
       \/ ReversalThrows(r)
       \/ \E kind \in {"VOID", "REFUND"}, status \in {"SUCCEEDED", "PENDING", "FAILED"} :
            Reverses(r, kind, status)
==============================================================================
