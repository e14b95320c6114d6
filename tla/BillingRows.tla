----------------------------- MODULE BillingRows -----------------------------
(***************************************************************************)
(* What BillingService keeps in PostgreSQL, charged sessions, payments,    *)
(* debts, the block of a driver and the inbox of webhooks, and what its    *)
(* database transactions have in common: applyOutcome, registerDecline,    *)
(* unblockIfClear.  The awaits of the service and the payment provider are *)
(* declared here too, so that the two sides share them.                    *)
(***************************************************************************)
EXTENDS Naturals, FiniteSets

CONSTANTS
  Session,      \* sessions that have ended and are to be charged
  Driver,
  DriverOf,     \* DriverOf[s]: the driver of session s
  Courtesy,     \* sessions that settle at zero, or are tests
  Minor,        \* sessions without driver, or below billing.min_charge_minor
  Payment,      \* references the provider knows a payment by; the row of a
                \* payment and the provider's transaction share one
  Link,         \* checkout links
  Reversal,     \* calls of reversePayment
  Retries,      \* length of billing.retry_schedule_h
  BlockOnDebt,  \* billing.block_on_debt
  None          \* SQL NULL

ASSUME RowsAssumption ==
  /\ DriverOf \in [Session -> Driver]
  /\ Courtesy \subseteq Session /\ Minor \subseteq Session
  /\ Retries \in Nat
  /\ BlockOnDebt \in BOOLEAN
  /\ None \notin Session \cup Payment \cup Link \cup {"VOID", "REFUND"}

VARIABLES
  sState,     \* charging_session.state, from ENDED on
  sPay,       \* charging_session.payment_status
  pState,     \* payment.status, "ABSENT" while there is no row
  pPsp,       \* payment.psp_status
  pRef,       \* payments with psp_reference set
  pSession,   \* payment.session_id
  dState,     \* status of the debt of a session, "ABSENT" while there is none
  dTries,     \* debt.attempts, counted up to Retries + 1: from there on
              \* next_attempt_at is NULL
  waivedBy,   \* sessions whose debt has waived_by set
  dLink,      \* debt.payment_link_id
  linkValid,  \* sessions whose debt has a payment_link_expires_at in the future
  driver,     \* driver.billing_status
  inbox,      \* webhook_inbox: the events already processed
  callPc,     \* the charge() of a payment: "none", "sent" (awaited), "over"
  polled,     \* pollPendingPayments has a row in its list: "no"; "silent",
              \* without psp_reference; "asked", with one
  linkPc,     \* createDebtPaymentLink: "none", "asked" (awaited), "made"
  linkFor,    \* the session whose debt a link is for
  revPc,      \* reversePayment: "idle", "asked", "answered", "over"
  revFor,     \* the payment it read
  revKind,    \* VOID or REFUND, as the provider did it
  revStatus,  \* the outcome of that
  revRow,     \* reversals with a row of their own
  psp,        \* the provider's transaction, "none" while there is none
  via         \* the link it was paid through

sessionVars == <<sState, sPay>>
paymentVars == <<pState, pPsp, pRef, pSession>>
debtVars == <<dState, dTries, waivedBy, dLink, linkValid, driver>>
callVars == <<callPc, polled>>
linkVars == <<linkPc, linkFor>>
reversalVars == <<revPc, revFor, revKind, revStatus, revRow>>
pspVars == <<psp, via>>

FinalStatuses == {"APPROVED", "DECLINED", "ERROR", "VOIDED"}
PspStatuses == {"PENDING"} \cup FinalStatuses

RowsTypeOK ==
  /\ sState \in [Session -> {"ENDED", "SETTLED", "PAID"}]
  /\ sPay \in [Session -> {"NONE", "AUTHORIZED", "CAPTURED", "FAILED", "WAIVED", "REFUNDED"}]
  /\ pState \in [Payment -> {"ABSENT", "PENDING", "SUCCEEDED", "FAILED", "CANCELLED"}]
  /\ pPsp \in [Payment -> PspStatuses \cup {None}]
  /\ pRef \subseteq Payment
  /\ pSession \in [Payment -> Session \cup {None}]
  /\ dState \in [Session -> {"ABSENT", "OPEN", "PAID", "WAIVED"}]
  /\ dTries \in [Session -> 0 .. Retries + 1]
  /\ waivedBy \subseteq Session
  /\ dLink \in [Session -> Link \cup {None}]
  /\ linkValid \subseteq Session
  /\ driver \in [Driver -> {"OK", "BLOCKED_DEBT", "BLOCKED_MANUAL"}]
  /\ inbox \subseteq Payment \X FinalStatuses

CallsTypeOK ==
  /\ callPc \in [Payment -> {"none", "sent", "over"}]
  /\ polled \in [Payment -> {"no", "silent", "asked"}]
  /\ linkPc \in [Link -> {"none", "asked", "made"}]
  /\ linkFor \in [Link -> Session \cup {None}]
  /\ revPc \in [Reversal -> {"idle", "asked", "answered", "over"}]
  /\ revFor \in [Reversal -> Payment \cup {None}]
  /\ revKind \in [Reversal -> {"VOID", "REFUND", None}]
  /\ revStatus \in [Reversal -> {"SUCCEEDED", "PENDING", "FAILED", None}]
  /\ revRow \subseteq Reversal
  /\ psp \in [Payment -> {"none"} \cup PspStatuses]
  /\ via \in [Payment -> Link \cup {None}]

RowsInit ==
  /\ sState = [s \in Session |-> "ENDED"]
  /\ sPay = [s \in Session |-> "NONE"]
  /\ pState = [p \in Payment |-> "ABSENT"]
  /\ pPsp = [p \in Payment |-> None]
  /\ pRef = {}
  /\ pSession = [p \in Payment |-> None]
  /\ dState = [s \in Session |-> "ABSENT"]
  /\ dTries = [s \in Session |-> 0]
  /\ waivedBy = {}
  /\ dLink = [s \in Session |-> None]
  /\ linkValid = {}
  /\ driver = [d \in Driver |-> "OK"]
  /\ inbox = {}

CallsInit ==
  /\ callPc = [p \in Payment |-> "none"]
  /\ polled = [p \in Payment |-> "no"]
  /\ linkPc = [l \in Link |-> "none"]
  /\ linkFor = [l \in Link |-> None]
  /\ revPc = [r \in Reversal |-> "idle"]
  /\ revFor = [r \in Reversal |-> None]
  /\ revKind = [r \in Reversal |-> None]
  /\ revStatus = [r \in Reversal |-> None]
  /\ revRow = {}
  /\ psp = [p \in Payment |-> "none"]
  /\ via = [p \in Payment |-> None]

PaymentsOf(s) == {p \in Payment : pState[p] # "ABSENT" /\ pSession[p] = s}

-----------------------------------------------------------------------------
(* Database transactions of BillingService                                 *)

Owes(d, debts) == \E s \in Session : DriverOf[s] = d /\ debts[s] = "OPEN"

(* Mutant: a payment unblocks the driver without looking at other debts.   *)
UnblockAlways(d, debts) ==
  IF driver[d] = "BLOCKED_DEBT" THEN [driver EXCEPT ![d] = "OK"] ELSE driver

(* unblockIfClear, when the debts are as given.                            *)
UnblockIfClear(d, debts) ==
  IF driver[d] = "BLOCKED_DEBT" /\ ~Owes(d, debts)
  THEN [driver EXCEPT ![d] = "OK"] ELSE driver

(* Mutant: a decline settles the session again.                            *)
RegisterDeclineReopening(s) ==
  /\ dState' = [dState EXCEPT ![s] = "OPEN"]
  /\ dTries' = [dTries EXCEPT ![s] = IF @ > Retries THEN @ ELSE @ + 1]
  /\ sState' = [sState EXCEPT ![s] = "SETTLED"]
  /\ sPay' = [sPay EXCEPT ![s] = "FAILED"]
  /\ UNCHANGED <<driver, waivedBy, dLink, linkValid>>

(* registerDecline: the debt of s is open, whatever it was, and the driver *)
(* is blocked.                                                             *)
RegisterDecline(s) ==
  /\ dState' = [dState EXCEPT ![s] = "OPEN"]
  /\ dTries' = [dTries EXCEPT ![s] = IF @ > Retries THEN @ ELSE @ + 1]
  /\ sPay' = [sPay EXCEPT ![s] = "FAILED"]
  /\ driver' = IF BlockOnDebt /\ driver[DriverOf[s]] = "OK"
               THEN [driver EXCEPT ![DriverOf[s]] = "BLOCKED_DEBT"] ELSE driver
  /\ UNCHANGED <<sState, waivedBy, dLink, linkValid>>

(* waive: PAID without a payment.                                          *)
WaiveSession(s) ==
  /\ sState' = [sState EXCEPT ![s] = "PAID"]
  /\ sPay' = [sPay EXCEPT ![s] = "WAIVED"]

(* applyOutcome, one operator per status of the provider's transaction.    *)
Approve(p, s) ==
  /\ pState' = [pState EXCEPT ![p] = "SUCCEEDED"]
  /\ pPsp' = [pPsp EXCEPT ![p] = "APPROVED"]
  /\ pRef' = pRef \cup {p}
  /\ sState' = [sState EXCEPT ![s] = IF @ = "SETTLED" THEN "PAID" ELSE @]
  /\ sPay' = [sPay EXCEPT ![s] = "CAPTURED"]
  /\ dState' = [dState EXCEPT ![s] = IF @ = "OPEN" THEN "PAID" ELSE @]
  /\ driver' = UnblockIfClear(DriverOf[s], dState')
  /\ UNCHANGED <<dTries, waivedBy, dLink, linkValid>>

Decline(p, s, st, refs) ==
  /\ pState' = [pState EXCEPT ![p] = "FAILED"]
  /\ pPsp' = [pPsp EXCEPT ![p] = st]
  /\ pRef' = pRef \cup refs
  /\ RegisterDecline(s)

VoidPayment(p, s) ==
  /\ pState' = [pState EXCEPT ![p] = "CANCELLED"]
  /\ pPsp' = [pPsp EXCEPT ![p] = "VOIDED"]
  /\ pRef' = pRef \cup {p}
  /\ sPay' = IF pState[p] = "SUCCEEDED" THEN [sPay EXCEPT ![s] = "REFUNDED"] ELSE sPay
  /\ UNCHANGED <<sState, debtVars>>

(* Mutant: PENDING is taken for an approval.                               *)
HoldAsApproved(p) == Approve(p, pSession[p])

Hold(p) ==
  /\ pState' = [pState EXCEPT ![p] = "PENDING"]
  /\ pPsp' = [pPsp EXCEPT ![p] = "PENDING"]
  /\ pRef' = pRef \cup {p}
  /\ UNCHANGED <<sessionVars, debtVars>>

(* Mutant: a verdict is applied to any payment that has another.           *)
AlreadyAppliedByStatusOnly(p, st) == pState[p] # "PENDING" /\ pPsp[p] = st

(* The first two returns of applyOutcome.                                  *)
AlreadyApplied(p, st) ==
  \/ pState[p] # "PENDING" /\ pPsp[p] = st
  \/ pState[p] = "SUCCEEDED" /\ st # "VOIDED"

(* applyOutcome for the row p, which exists, and the provider's status st. *)
ApplyOutcome(p, st) ==
  /\ UNCHANGED pSession
  /\ \/ AlreadyApplied(p, st) /\ UNCHANGED <<pState, pPsp, pRef, sessionVars, debtVars>>
     \/ ~AlreadyApplied(p, st) /\ st = "APPROVED" /\ Approve(p, pSession[p])
     \/ ~AlreadyApplied(p, st) /\ st \in {"DECLINED", "ERROR"} /\ Decline(p, pSession[p], st, {p})
     \/ ~AlreadyApplied(p, st) /\ st = "VOIDED" /\ VoidPayment(p, pSession[p])
     \/ ~AlreadyApplied(p, st) /\ st = "PENDING" /\ Hold(p)
==============================================================================
