---------------------------- MODULE BillingService ----------------------------
(***************************************************************************)
(* BillingService (packages/csms/src/billing/billing-service.ts): what the *)
(* worker, the api and the provider's webhooks do to payments and debts.   *)
(* Each action is one database transaction.  chargeSession, the poll,      *)
(* createDebtPaymentLink and reversePayment are split at the call of the   *)
(* provider they await; everything else may happen there.                  *)
(***************************************************************************)
EXTENDS PaymentGateway

CONSTANTS
  MayFail,            \* may a charge() time out, and a process die in one?
  MayOvertake,        \* may a webhook be processed before the answer to the
                      \* request that it is about?
  WaiveDuringCharge,  \* may a debt be waived while a charge for it is pending?
  ForceUnblock        \* may an operator unblock a driver who owes?

ASSUME FaultAssumption ==
  /\ MayFail \in BOOLEAN /\ MayOvertake \in BOOLEAN
  /\ WaiveDuringCharge \in BOOLEAN /\ ForceUnblock \in BOOLEAN

-----------------------------------------------------------------------------
(* PricingService.settle: an ended session gets its total; one that costs  *)
(* nothing, or is a test, is not to be paid and stays SETTLED.             *)
Settle(s) ==
  /\ sState[s] = "ENDED"
  /\ sState' = [sState EXCEPT ![s] = "SETTLED"]
  /\ sPay' = [sPay EXCEPT ![s] = IF s \in Courtesy THEN "WAIVED" ELSE @]
  /\ UNCHANGED <<paymentVars, debtVars, inbox, callVars, linkVars, reversalVars, pspVars>>

-----------------------------------------------------------------------------
(* Mutants: a charge that awaits the provider does not hold back another;  *)
(* a paid session whose money went back is charged again.                  *)
ChargeableAgain(s) == sState[s] = "SETTLED" /\ sPay[s] \notin {"CAPTURED", "WAIVED"}
ChargeableWhenPaid(s) ==
  sState[s] # "ENDED" /\ sPay[s] \notin {"CAPTURED", "WAIVED", "AUTHORIZED"}

(* chargeSession.  Operators, drivers and retryDueDebts force it, which    *)
(* leaves these guards only.                                               *)
Chargeable(s) ==
  /\ sState[s] = "SETTLED"
  /\ sPay[s] \notin {"CAPTURED", "WAIVED", "AUTHORIZED"}

(* Mutant: debts are not retried.                                          *)
DueOnce(s) == sPay[s] = "NONE" /\ dState[s] # "OPEN"

(* What chargePending (nothing open) and retryDueDebts (a next_attempt_at) *)
(* ask for by themselves.                                                  *)
Due(s) ==
  \/ sPay[s] = "NONE" /\ dState[s] # "OPEN"
  \/ dState[s] = "OPEN" /\ dTries[s] <= Retries

Waive(s) ==
  /\ Chargeable(s)
  /\ s \in Minor
  /\ WaiveSession(s)
  /\ UNCHANGED <<paymentVars, debtVars, inbox, callVars, linkVars, reversalVars, pspVars>>

NoPaymentMethod(s) ==
  /\ Chargeable(s)
  /\ s \notin Minor
  /\ RegisterDecline(s)
  /\ UNCHANGED <<paymentVars, inbox, callVars, linkVars, reversalVars, pspVars>>

(* The payment is recorded, the session AUTHORIZED, and the request goes.  *)
Charge(s, p) ==
  /\ Chargeable(s)
  /\ s \notin Minor
  /\ pState[p] = "ABSENT" /\ psp[p] = "none"
  /\ pState' = [pState EXCEPT ![p] = "PENDING"]
  /\ pPsp' = [pPsp EXCEPT ![p] = "PENDING"]
  /\ pSession' = [pSession EXCEPT ![p] = s]
  /\ sPay' = [sPay EXCEPT ![s] = "AUTHORIZED"]
  /\ callPc' = [callPc EXCEPT ![p] = "sent"]
  /\ UNCHANGED <<sState, pRef, debtVars, inbox, polled, linkVars, reversalVars, pspVars>>

CallEnds(p) ==
  /\ callPc[p] = "sent"
  /\ callPc' = [callPc EXCEPT ![p] = "over"]
  /\ UNCHANGED <<inbox, polled, linkVars, reversalVars, pspVars>>

(* The answer tells a status the transaction has, or had when it was sent. *)
Answered(p, st) ==
  /\ CallEnds(p)
  /\ psp[p] # "none"
  /\ st \in Reports(p) \cup {"PENDING"}
  /\ ApplyOutcome(p, st)

(* An error that is not worth a retry counts as a decline.                 *)
Refused(p) ==
  /\ CallEnds(p)
  /\ psp[p] = "none"
  /\ UNCHANGED pSession
  /\ Decline(p, pSession[p], "DECLINED", {})

(* A technical error: both rows are written by id alone.                   *)
TechnicalError(p) ==
  /\ MayFail
  /\ CallEnds(p)
  /\ pState' = [pState EXCEPT ![p] = "FAILED"]
  /\ pPsp' = [pPsp EXCEPT ![p] = "ERROR"]
  /\ sPay' = [sPay EXCEPT ![pSession[p]] = "NONE"]
  /\ UNCHANGED <<sState, pRef, pSession, debtVars>>

(* The process dies before it handles the answer.                          *)
Crash(p) ==
  /\ MayFail
  /\ CallEnds(p)
  /\ UNCHANGED <<sessionVars, paymentVars, debtVars>>

-----------------------------------------------------------------------------
(* processWebhook: an event not yet in the inbox, about a payment with a   *)
(* row.                                                                    *)
Webhook(p, st) ==
  /\ st \in Reports(p) /\ <<p, st>> \notin inbox
  /\ pState[p] # "ABSENT"
  /\ MayOvertake \/ callPc[p] # "sent"
  /\ inbox' = inbox \cup {<<p, st>>}
  /\ ApplyOutcome(p, st)
  /\ UNCHANGED <<callVars, linkVars, reversalVars, pspVars>>

(* The first event of a payment made at a link: a row for it, and its      *)
(* outcome.                                                                *)
LinkWebhook(p, st, s) ==
  /\ st \in Reports(p) /\ <<p, st>> \notin inbox
  /\ pState[p] = "ABSENT"
  /\ dState[s] # "ABSENT" /\ dLink[s] = via[p]
  /\ inbox' = inbox \cup {<<p, st>>}
  /\ pSession' = [pSession EXCEPT ![p] = s]
  /\ \/ st = "APPROVED" /\ Approve(p, s)
     \/ st \in {"DECLINED", "ERROR"} /\ Decline(p, s, st, {p})
     \/ st = "VOIDED" /\ VoidPayment(p, s)
  /\ UNCHANGED <<callVars, linkVars, reversalVars, pspVars>>

(* UNKNOWN_LINK: no debt has this link.                                    *)
UnknownLink(p, st) ==
  /\ st \in Reports(p) /\ <<p, st>> \notin inbox
  /\ pState[p] = "ABSENT"
  /\ \A s \in Session : dState[s] # "ABSENT" => dLink[s] # via[p]
  /\ inbox' = inbox \cup {<<p, st>>}
  /\ UNCHANGED <<sessionVars, paymentVars, debtVars, callVars, linkVars, reversalVars, pspVars>>

-----------------------------------------------------------------------------
(* Mutant: only rows with a psp_reference are listed.                      *)
PollReadsAnswered(p) ==
  /\ pState[p] = "PENDING" /\ callPc[p] # "sent" /\ polled[p] = "no" /\ p \in pRef
  /\ polled' = [polled EXCEPT ![p] = "asked"]
  /\ UNCHANGED <<sessionVars, paymentVars, debtVars, inbox, callPc, linkVars, reversalVars, pspVars>>

(* pollPendingPayments lists the rows that have been PENDING for longer    *)
(* than charge() may take, and then goes through the list.                 *)
PollReads(p) ==
  /\ pState[p] = "PENDING" /\ callPc[p] # "sent" /\ polled[p] = "no"
  /\ polled' = [polled EXCEPT ![p] = IF p \in pRef THEN "asked" ELSE "silent"]
  /\ UNCHANGED <<sessionVars, paymentVars, debtVars, inbox, callPc, linkVars, reversalVars, pspVars>>

(* A row without psp_reference fails if it is still PENDING; the session   *)
(* is released if it is AUTHORIZED, for whichever payment.                 *)
PollGivesUp(p) ==
  /\ polled[p] = "silent"
  /\ polled' = [polled EXCEPT ![p] = "no"]
  /\ IF pState[p] = "PENDING"
     THEN pState' = [pState EXCEPT ![p] = "FAILED"] /\ pPsp' = [pPsp EXCEPT ![p] = "ERROR"]
     ELSE UNCHANGED <<pState, pPsp>>
  /\ sPay' = [sPay EXCEPT ![pSession[p]] = IF @ = "AUTHORIZED" THEN "NONE" ELSE @]
  /\ UNCHANGED <<sState, pRef, pSession, debtVars, inbox, callPc, linkVars, reversalVars, pspVars>>

(* Mutant: PENDING is applied like a verdict.                              *)
PollAnsweredPending(p, st) ==
  /\ polled[p] = "asked"
  /\ polled' = [polled EXCEPT ![p] = "no"]
  /\ ApplyOutcome(p, "PENDING")
  /\ UNCHANGED <<inbox, callPc, linkVars, reversalVars, pspVars>>

PollAnswered(p, st) ==
  /\ polled[p] = "asked"
  /\ st \in Reports(p)
  /\ polled' = [polled EXCEPT ![p] = "no"]
  /\ ApplyOutcome(p, st)
  /\ UNCHANGED <<inbox, callPc, linkVars, reversalVars, pspVars>>

(* The provider says PENDING, or nothing.                                  *)
PollFails(p) ==
  /\ polled[p] = "asked"
  /\ polled' = [polled EXCEPT ![p] = "no"]
  /\ UNCHANGED <<sessionVars, paymentVars, debtVars, inbox, callPc, linkVars, reversalVars, pspVars>>

-----------------------------------------------------------------------------
(* Debts and drivers                                                       *)

WaiveDebt(s) ==
  /\ dState[s] = "OPEN"
  /\ WaiveDuringCharge \/ sPay[s] # "AUTHORIZED"
  /\ dState' = [dState EXCEPT ![s] = "WAIVED"]
  /\ waivedBy' = waivedBy \cup {s}
  /\ IF sState[s] = "SETTLED" THEN WaiveSession(s) ELSE UNCHANGED sessionVars
  /\ driver' = UnblockIfClear(DriverOf[s], dState')
  /\ UNCHANGED <<dTries, dLink, linkValid, paymentVars, inbox, callVars, linkVars, reversalVars, pspVars>>

BlockDriver(d) ==
  /\ driver' = [driver EXCEPT ![d] = "BLOCKED_MANUAL"]
  /\ UNCHANGED <<sessionVars, dState, dTries, waivedBy, dLink, linkValid, paymentVars, inbox,
                 callVars, linkVars, reversalVars, pspVars>>

UnblockDriver(d) ==
  /\ ForceUnblock \/ ~Owes(d, dState)
  /\ driver' = [driver EXCEPT ![d] = "OK"]
  /\ UNCHANGED <<sessionVars, dState, dTries, waivedBy, dLink, linkValid, paymentVars, inbox,
                 callVars, linkVars, reversalVars, pspVars>>

(* createDebtPaymentLink: an open debt without a valid link asks for one;  *)
(* the answer is stored whatever the debt has become.                      *)
AskLink(l, s) ==
  /\ linkPc[l] = "none"
  /\ dState[s] = "OPEN" /\ s \notin linkValid
  /\ linkPc' = [linkPc EXCEPT ![l] = "asked"]
  /\ linkFor' = [linkFor EXCEPT ![l] = s]
  /\ UNCHANGED <<sessionVars, paymentVars, debtVars, inbox, callVars, reversalVars, pspVars>>

StoreLink(l) ==
  /\ linkPc[l] = "asked"
  /\ linkPc' = [linkPc EXCEPT ![l] = "made"]
  /\ dLink' = [dLink EXCEPT ![linkFor[l]] = l]
  /\ linkValid' = linkValid \cup {linkFor[l]}
  /\ UNCHANGED <<sessionVars, paymentVars, dState, dTries, waivedBy, driver, inbox, linkFor,
                 callVars, reversalVars, pspVars>>

(* payment_link_expires_at passes.                                         *)
LinkExpires(s) ==
  /\ s \in linkValid
  /\ linkValid' = linkValid \ {s}
  /\ UNCHANGED <<sessionVars, paymentVars, dState, dTries, waivedBy, driver, dLink, inbox,
                 linkVars, callVars, reversalVars, pspVars>>

-----------------------------------------------------------------------------
(* reversePayment: a payment that succeeded is voided or refunded, and a   *)
(* row of its own records it.                                              *)
AskReversal(r, p) ==
  /\ revPc[r] = "idle"
  /\ pState[p] = "SUCCEEDED" /\ p \in pRef
  /\ revPc' = [revPc EXCEPT ![r] = "asked"]
  /\ revFor' = [revFor EXCEPT ![r] = p]
  /\ UNCHANGED <<sessionVars, paymentVars, debtVars, inbox, callVars, linkVars, pspVars,
                 revKind, revStatus, revRow>>

(* payment_reference_uq: the reference of a reversal is made of its kind   *)
(* and the payment, so there is one row of each.                           *)
ReferenceTaken(r) ==
  \E q \in revRow : revKind[q] = revKind[r] /\ revFor[q] = revFor[r]

RecordReversal(r) ==
  /\ revPc[r] = "answered" /\ ~ReferenceTaken(r)
  /\ revPc' = [revPc EXCEPT ![r] = "over"]
  /\ revRow' = revRow \cup {r}
  /\ sPay' = IF revStatus[r] = "SUCCEEDED"
             THEN [sPay EXCEPT ![pSession[revFor[r]]] = "REFUNDED"] ELSE sPay
  /\ IF revStatus[r] = "SUCCEEDED" /\ revKind[r] = "VOID"
     THEN /\ pState' = [pState EXCEPT ![revFor[r]] = "CANCELLED"]
          /\ pPsp' = [pPsp EXCEPT ![revFor[r]] = "VOIDED"]
     ELSE UNCHANGED <<pState, pPsp>>
  /\ UNCHANGED <<sState, pRef, pSession, debtVars, inbox, callVars, linkVars, pspVars,
                 revFor, revKind, revStatus>>

(* The INSERT is refused; nothing is written.                              *)
ReversalRefused(r) ==
  /\ revPc[r] = "answered" /\ ReferenceTaken(r)
  /\ revPc' = [revPc EXCEPT ![r] = "over"]
  /\ UNCHANGED <<sessionVars, paymentVars, debtVars, inbox, callVars, linkVars, pspVars,
                 revFor, revKind, revStatus, revRow>>
==============================================================================
