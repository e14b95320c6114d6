------------------------------- MODULE Billing -------------------------------
(***************************************************************************)
(* The charging of sessions: BillingService, the provider, and the people  *)
(* who retry, waive, pay and give back.                                    *)
(***************************************************************************)
EXTENDS BillingService

vars == <<sessionVars, paymentVars, debtVars, inbox, callVars, linkVars, reversalVars, pspVars>>

Init == RowsInit /\ CallsInit

ChargeStep ==
  \E p \in Payment :
    \/ \E s \in Session : Charge(s, p)
    \/ \E st \in PspStatuses : Answered(p, st)
    \/ Refused(p) \/ TechnicalError(p) \/ Crash(p)

EventStep ==
  \E p \in Payment :
    \/ \E st \in FinalStatuses :
         \/ Webhook(p, st) \/ UnknownLink(p, st) \/ PollAnswered(p, st)
         \/ \E s \in Session : LinkWebhook(p, st, s)
    \/ PollReads(p) \/ PollGivesUp(p) \/ PollFails(p)

DebtStep ==
  \/ \E s \in Session :
       \/ Settle(s) \/ Waive(s) \/ NoPaymentMethod(s) \/ WaiveDebt(s) \/ LinkExpires(s)
       \/ \E l \in Link : AskLink(l, s)
  \/ \E l \in Link : StoreLink(l)
  \/ \E d \in Driver : BlockDriver(d) \/ UnblockDriver(d)

ReversalStep ==
  \E r \in Reversal :
    \/ \E p \in Payment : AskReversal(r, p)
    \/ RecordReversal(r) \/ ReversalRefused(r)

Next == ChargeStep \/ EventStep \/ DebtStep \/ ReversalStep \/ PaymentGatewayNext

Spec == Init /\ [][Next]_vars

(* charge() returns or times out; the provider decides what it took, and   *)
(* answers a poll that is repeated often enough; the worker's jobs run     *)
(* again and again.                                                        *)
CallReturns(p) == Refused(p) \/ TechnicalError(p) \/ Crash(p) \/ \E st \in PspStatuses : Answered(p, st)

Fairness ==
  /\ \A p \in Payment :
       /\ WF_vars(CallReturns(p)) /\ WF_vars(Decide(p))
       /\ WF_vars(PollReads(p)) /\ WF_vars(PollGivesUp(p))
       /\ SF_vars(\E st \in FinalStatuses : PollAnswered(p, st))
  /\ \A s \in Session :
       /\ WF_vars(Settle(s)) /\ WF_vars(Waive(s))
       /\ WF_vars(Due(s) /\ (NoPaymentMethod(s) \/ \E p \in Payment : Charge(s, p)))

FairSpec == Spec /\ Fairness

-----------------------------------------------------------------------------
TypeOK == RowsTypeOK /\ CallsTypeOK

(* A session is PAID only if the provider approved a payment of it (it may *)
(* have given the money back since), or somebody waived it: ADR 0002       *)
(* point 5, whatever answers, webhooks and polls arrive in whatever order. *)
PaidIsEarned ==
  \A s \in Session : sState[s] = "PAID" =>
    \/ s \in Minor \cup waivedBy
    \/ \E p \in PaymentsOf(s) : psp[p] \in {"APPROVED", "VOIDED"}

(* Two of the discrepancies reconcile() looks for cannot arise: a payment  *)
(* that succeeded whose session is not PAID, and a session paid by a       *)
(* capture of which no row is left.                                        *)
BooksAgree ==
  /\ \A p \in Payment : pState[p] = "SUCCEEDED" => sState[pSession[p]] = "PAID"
  /\ \A s \in Session : sState[s] = "PAID" /\ sPay[s] = "CAPTURED" =>
       \E p \in PaymentsOf(s) : pState[p] = "SUCCEEDED"

(* chargeSession refuses an AUTHORIZED session, so one that has nothing    *)
(* PENDING would never be charged again: no interleaving of answers, polls *)
(* and links leaves one behind.                                            *)
AuthorizedHasPending ==
  \A s \in Session : sPay[s] = "AUTHORIZED" =>
    \E p \in PaymentsOf(s) : pState[p] = "PENDING"

(* A driver is blocked for debt only while a debt of his is open (ADR 0002 *)
(* point 6), and unless somebody forced it, a driver who owes is blocked.  *)
BlockedWhileOwing ==
  \A d \in Driver :
    /\ driver[d] = "BLOCKED_DEBT" => Owes(d, dState)
    /\ BlockOnDebt /\ ~ForceUnblock /\ driver[d] = "OK" => ~Owes(d, dState)

(* A session is settled, then paid, and never goes back: no late answer,   *)
(* decline or reversal takes PAID away.                                    *)
PaidIsFinal ==
  [][\A s \in Session :
       /\ sState[s] = "PAID" => sState'[s] = "PAID"
       /\ sState[s] = "ENDED" => sState'[s] # "PAID"]_vars

(* ADR 0002 point 5: one transaction per session takes money.              *)
CapturedOnce ==
  \A s \in Session : \A p, q \in PaymentsOf(s) :
    psp[p] = "APPROVED" /\ psp[q] = "APPROVED" => p = q

(* The debt of a session that has been paid or waived is closed: the       *)
(* driver is not blocked for it (ADR 0020 point 5).                        *)
PaidSessionOwesNothing ==
  \A s \in Session : sState[s] = "PAID" => dState[s] # "OPEN"

(* The answer to charge() comes when a webhook has already told the        *)
(* verdict on p.                                                           *)
AnsweredLate(p) ==
  /\ callPc[p] = "sent" /\ callPc'[p] = "over"
  /\ \E st \in FinalStatuses : <<p, st>> \in inbox

(* applyOutcome is idempotent by state: once the provider's verdict on a   *)
(* payment is recorded the payment is not pending again.  No poll, later   *)
(* event, retry or reversal reopens it; the answer to its own charge() can *)
(* if a webhook overtook it, but not a payment that has succeeded.         *)
VerdictIsFinal ==
  [][\A p \in Payment :
       pState[p] \in {"SUCCEEDED", "FAILED", "CANCELLED"} /\ pState'[p] = "PENDING" =>
         pState[p] # "SUCCEEDED" /\ AnsweredLate(p)]_vars

(* ... and a payment that was voided has not succeeded again.              *)
VoidedIsNotRevived ==
  [][\A p \in Payment : pState[p] = "CANCELLED" => pState'[p] # "SUCCEEDED"]_vars

(* The event of a payment made at a link settles the debt (ADR 0020        *)
(* point 5).                                                               *)
LinkMoneyIsApplied ==
  \A p \in Payment : <<p, "APPROVED">> \in inbox => pState[p] # "ABSENT"

(* A reversal the provider made is on record when reversePayment is over.  *)
ReversalIsRecorded ==
  \A r \in Reversal : revPc[r] = "over" /\ revStatus[r] = "SUCCEEDED" => r \in revRow

(* No session waits for the provider for ever, even when processes die and *)
(* webhooks are lost: the poll resolves what it left.                      *)
AuthorizedIsResolved ==
  \A s \in Session : sPay[s] = "AUTHORIZED" ~> sPay[s] # "AUTHORIZED"

(* Every session that costs something is paid or waived in the end, or its *)
(* retries run out.                                                        *)
SettledIsCharged ==
  \A s \in Session \ Courtesy :
    sState[s] = "SETTLED" ~>
      sState[s] = "PAID" \/ (dState[s] = "OPEN" /\ dTries[s] > Retries)

-----------------------------------------------------------------------------
(* The ledger these rows keep.  Money is taken when the provider approves  *)
(* and given back when it voids or refunds, whatever is on record.         *)
Taken(s) == {p \in PaymentsOf(s) : psp[p] \in {"APPROVED", "VOIDED"}}

Returned ==
  {p \in Payment :
     \/ psp[p] = "VOIDED"
     \/ \E r \in Reversal :
          revFor[r] = p /\ revKind[r] = "REFUND" /\ revStatus[r] = "SUCCEEDED"}

Bill(s) ==
  CASE sState[s] = "ENDED" -> "OPEN"
    [] sState[s] = "SETTLED" -> IF s \in Courtesy THEN "FORGIVEN" ELSE "DUE"
    [] sState[s] = "PAID" -> IF Taken(s) = {} THEN "FORGIVEN" ELSE "PAID"

Books == INSTANCE Ledger WITH
  Free <- Courtesy,
  bill <- [s \in Session |-> Bill(s)],
  taken <- [s \in Session |-> Taken(s)],
  returned <- Returned,
  owed <- {s \in Session : dState[s] = "OPEN"}

(* Billing implements Ledger: ADR 0002 points 5 to 7, as far as they are   *)
(* about one session.                                                      *)
LedgerSpec == Books!Spec
==============================================================================
