---------------------------- MODULE Billing_proofs ----------------------------
(***************************************************************************)
(* Proofs about Billing, for any number of sessions, payments, links and   *)
(* reversals: first what holds whatever fails and overtakes, then what     *)
(* holds only while nothing does, and that Billing then implements Ledger. *)
(***************************************************************************)
EXTENDS Billing, TLAPS

USE RowsAssumption, FaultAssumption

-----------------------------------------------------------------------------
(* The inductive invariant                                                 *)

(* A payment is a session's, and a reversal that is under way is of a      *)
(* payment whose session is paid.                                          *)
Linked ==
  /\ \A p \in Payment : pState[p] # "ABSENT" => pSession[p] \in Session
  /\ \A r \in Reversal : revPc[r] \in {"asked", "answered"} =>
       /\ revFor[r] \in Payment
       /\ pState[revFor[r]] # "ABSENT"
       /\ sState[pSession[revFor[r]]] = "PAID"

(* What is awaited or polled has a row, and a link was asked for a debt.   *)
CallsLinked ==
  /\ \A p \in Payment : callPc[p] = "sent" \/ polled[p] # "no" => pState[p] # "ABSENT"
  /\ \A l \in Link : linkPc[l] # "none" => linkFor[l] \in Session

(* Only sessions that have been settled have payments and debts, and only  *)
(* one that is not yet paid waits for the provider.                        *)
Settled ==
  /\ \A p \in Payment : pState[p] # "ABSENT" => sState[pSession[p]] \in {"SETTLED", "PAID"}
  /\ \A s \in Session : dState[s] # "ABSENT" => sState[s] \in {"SETTLED", "PAID"}
  /\ \A s \in Session : sPay[s] = "AUTHORIZED" => sState[s] = "SETTLED"

(* The provider approved what succeeded, and voided only on request.       *)
Approved ==
  /\ \A p \in Payment : pState[p] = "SUCCEEDED" => psp[p] \in {"APPROVED", "VOIDED"}
  /\ \A p \in Payment : psp[p] = "VOIDED" =>
       pState[p] # "ABSENT" /\ sState[pSession[p]] = "PAID"

RowsInv ==
  /\ RowsTypeOK /\ Linked /\ Settled /\ Approved
  /\ PaidIsEarned /\ BooksAgree /\ AuthorizedHasPending /\ BlockedWhileOwing

IInv == RowsInv /\ CallsTypeOK /\ CallsLinked

LEMMA IInvInit == Init => IInv
BY DEF Init, RowsInit, CallsInit, IInv, RowsInv, RowsTypeOK, CallsTypeOK, Linked, CallsLinked,
       Settled, Approved, PaidIsEarned, BooksAgree, AuthorizedHasPending, BlockedWhileOwing, Owes

-----------------------------------------------------------------------------
(* The block of a driver                                                   *)

(* A step that closes debts and then looks whether the driver is clear.    *)
LEMMA ClosingUnblocks ==
  ASSUME RowsTypeOK, BlockedWhileOwing, NEW s \in Session,
         NEW closed \in {"PAID", "WAIVED"},
         dState' = [dState EXCEPT ![s] = IF @ = "OPEN" THEN closed ELSE @],
         driver' = UnblockIfClear(DriverOf[s], dState')
  PROVE  BlockedWhileOwing'
<1>1. ASSUME NEW d \in Driver, d # DriverOf[s]
      PROVE  driver'[d] = driver[d] /\ (Owes(d, dState)' <=> Owes(d, dState))
  BY <1>1 DEF RowsTypeOK, UnblockIfClear, Owes
<1>2. Owes(DriverOf[s], dState)' => Owes(DriverOf[s], dState)
  BY DEF RowsTypeOK, Owes
<1>3. /\ driver'[DriverOf[s]] = "BLOCKED_DEBT" => Owes(DriverOf[s], dState)'
      /\ driver'[DriverOf[s]] = "OK" =>
           driver[DriverOf[s]] = "OK" \/ ~Owes(DriverOf[s], dState)'
  BY DEF RowsTypeOK, UnblockIfClear, BlockedWhileOwing, Owes
<1> QED
  BY <1>1, <1>2, <1>3 DEF BlockedWhileOwing

(* A decline opens a debt and blocks.                                      *)
LEMMA DecliningBlocks ==
  ASSUME RowsTypeOK, BlockedWhileOwing, NEW s \in Session, RegisterDecline(s)
  PROVE  BlockedWhileOwing'
<1>1. ASSUME NEW d \in Driver, d # DriverOf[s]
      PROVE  driver'[d] = driver[d] /\ (Owes(d, dState)' <=> Owes(d, dState))
  BY <1>1 DEF RowsTypeOK, RegisterDecline, Owes
<1>2. Owes(DriverOf[s], dState)'
  BY DEF RowsTypeOK, RegisterDecline, Owes
<1>3. driver'[DriverOf[s]] = "OK" => ~BlockOnDebt
  BY DEF RowsTypeOK, RegisterDecline
<1> QED
  BY <1>1, <1>2, <1>3 DEF BlockedWhileOwing

-----------------------------------------------------------------------------
(* What applyOutcome does to the rows                                      *)

(* A payment of s, which had none or was one of s, is given an outcome.    *)
OutcomeOf(p, s) ==
  /\ pSession' = [pSession EXCEPT ![p] = s]
  /\ pState[p] # "ABSENT" => pSession[p] = s
  /\ sState[s] \in {"SETTLED", "PAID"}
  /\ inbox' \subseteq Payment \X FinalStatuses
  /\ UNCHANGED <<pspVars, reversalVars>>

(* The provider approved it.                                               *)
LEMMA ApproveRows ==
  ASSUME RowsInv, NEW p \in Payment, NEW s \in Session,
         Approve(p, s), OutcomeOf(p, s), psp[p] \in {"APPROVED", "VOIDED"}
  PROVE  RowsInv'
<1> USE DEF Approve, OutcomeOf, pspVars, reversalVars
<1>1. /\ RowsTypeOK
      /\ sState' = [sState EXCEPT ![s] = "PAID"]
  BY DEF RowsInv, RowsTypeOK
<1>2. RowsTypeOK'
  BY <1>1 DEF RowsTypeOK, PspStatuses, FinalStatuses, UnblockIfClear
<1>3. Linked' /\ Settled'
  BY <1>1 DEF RowsInv, RowsTypeOK, Linked, Settled
<1>4. Approved'
  BY <1>1 DEF RowsInv, RowsTypeOK, Approved
<1>5. PaidIsEarned' /\ BooksAgree' /\ AuthorizedHasPending'
  <2>1. ASSUME NEW x \in Session, x # s
        PROVE  /\ sState'[x] = sState[x] /\ sPay'[x] = sPay[x]
               /\ \A q \in PaymentsOf(x) :
                    q \in PaymentsOf(x)' /\ pState'[q] = pState[q]
    BY <1>1, <2>1 DEF RowsTypeOK, PaymentsOf
  <2>2. p \in PaymentsOf(s)' /\ pState'[p] = "SUCCEEDED" /\ sPay'[s] = "CAPTURED"
    BY <1>1 DEF RowsTypeOK, PaymentsOf
  <2>3. \A q \in Payment : pState'[q] = "SUCCEEDED" => sState'[pSession'[q]] = "PAID"
    BY <1>1 DEF RowsTypeOK, RowsInv, BooksAgree, Linked
  <2> QED
    BY <1>1, <2>1, <2>2, <2>3 DEF RowsInv, PaidIsEarned, BooksAgree, AuthorizedHasPending
<1>6. BlockedWhileOwing'
  BY <1>1, ClosingUnblocks DEF RowsInv
<1> QED
  BY <1>2, <1>3, <1>4, <1>5, <1>6 DEF RowsInv

(* It was declined, or refused, before it succeeded.                       *)
LEMMA DeclineRows ==
  ASSUME RowsInv, NEW p \in Payment, NEW s \in Session,
         NEW st \in {"DECLINED", "ERROR"}, NEW refs \in SUBSET Payment,
         Decline(p, s, st, refs), OutcomeOf(p, s), pState[p] # "SUCCEEDED"
  PROVE  RowsInv'
<1> USE DEF Decline, RegisterDecline, OutcomeOf, pspVars, reversalVars
<1>1. RowsTypeOK
  BY DEF RowsInv
<1>2. RowsTypeOK'
  BY <1>1 DEF RowsTypeOK, PspStatuses, FinalStatuses
<1>3. Linked' /\ Settled'
  BY <1>1 DEF RowsInv, RowsTypeOK, Linked, Settled
<1>4. Approved'
  BY <1>1 DEF RowsInv, RowsTypeOK, Approved
<1>5. PaidIsEarned' /\ BooksAgree' /\ AuthorizedHasPending'
  <2>1. ASSUME NEW x \in Session, x # s
        PROVE  /\ sPay'[x] = sPay[x]
               /\ \A q \in PaymentsOf(x) :
                    q \in PaymentsOf(x)' /\ pState'[q] = pState[q]
    BY <1>1, <2>1 DEF RowsTypeOK, PaymentsOf
  <2>2. /\ PaymentsOf(s) \subseteq PaymentsOf(s)'
        /\ sPay'[s] = "FAILED"
    BY <1>1 DEF RowsTypeOK, PaymentsOf
  <2>3. \A q \in Payment : pState'[q] = "SUCCEEDED" => sState'[pSession'[q]] = "PAID"
    BY <1>1 DEF RowsTypeOK, RowsInv, BooksAgree, Linked
  <2> QED
    BY <1>1, <2>1, <2>2, <2>3 DEF RowsInv, PaidIsEarned, BooksAgree, AuthorizedHasPending
<1>6. BlockedWhileOwing'
  BY <1>1, DecliningBlocks DEF RowsInv
<1> QED
  BY <1>2, <1>3, <1>4, <1>5, <1>6 DEF RowsInv

(* It was voided: its session is paid, so nothing waits for it.            *)
LEMMA VoidRows ==
  ASSUME RowsInv, NEW p \in Payment, NEW s \in Session,
         VoidPayment(p, s), OutcomeOf(p, s), psp[p] = "VOIDED"
  PROVE  RowsInv'
<1> USE DEF VoidPayment, OutcomeOf, pspVars, reversalVars, debtVars
<1>1. RowsTypeOK
  BY DEF RowsInv
<1>2. RowsTypeOK'
  BY <1>1 DEF RowsTypeOK, PspStatuses, FinalStatuses
<1>3. Linked' /\ Settled'
  BY <1>1 DEF RowsInv, RowsTypeOK, Linked, Settled
<1>4. Approved'
  BY <1>1 DEF RowsInv, RowsTypeOK, Approved
<1>5. PaidIsEarned' /\ BooksAgree' /\ AuthorizedHasPending'
  <2>1. ASSUME NEW x \in Session, x # s
        PROVE  /\ sPay'[x] = sPay[x]
               /\ \A q \in PaymentsOf(x) :
                    q \in PaymentsOf(x)' /\ pState'[q] = pState[q]
    BY <1>1, <2>1 DEF RowsTypeOK, PaymentsOf
  <2>2. /\ PaymentsOf(s) \subseteq PaymentsOf(s)'
        /\ sState[s] = "PAID" /\ sPay'[s] # "AUTHORIZED"
        /\ sPay'[s] = "CAPTURED" => sPay[s] = "CAPTURED" /\ pState[p] # "SUCCEEDED"
        /\ \A q \in Payment : q # p => pState'[q] = pState[q]
    BY <1>1 DEF RowsTypeOK, PaymentsOf, RowsInv, Approved, Settled
  <2>3. \A q \in Payment : pState'[q] = "SUCCEEDED" => sState'[pSession'[q]] = "PAID"
    BY <1>1 DEF RowsTypeOK, RowsInv, BooksAgree, Linked
  <2> QED
    BY <1>1, <2>1, <2>2, <2>3 DEF RowsInv, PaidIsEarned, BooksAgree, AuthorizedHasPending
<1>6. BlockedWhileOwing'
  BY <1>1 DEF RowsInv, BlockedWhileOwing, Owes
<1> QED
  BY <1>2, <1>3, <1>4, <1>5, <1>6 DEF RowsInv

(* It is pending, as far as the provider says.                             *)
LEMMA HoldRows ==
  ASSUME RowsInv, NEW p \in Payment, NEW s \in Session,
         Hold(p), OutcomeOf(p, s), pState[p] # "SUCCEEDED"
  PROVE  RowsInv'
<1> USE DEF Hold, OutcomeOf, pspVars, reversalVars, sessionVars, debtVars
<1>1. RowsTypeOK
  BY DEF RowsInv
<1>2. RowsTypeOK'
  BY <1>1 DEF RowsTypeOK, PspStatuses, FinalStatuses
<1>3. Linked' /\ Settled'
  BY <1>1 DEF RowsInv, RowsTypeOK, Linked, Settled
<1>4. Approved'
  BY <1>1 DEF RowsInv, RowsTypeOK, Approved
<1>5. PaidIsEarned' /\ BooksAgree' /\ AuthorizedHasPending'
  <2>1. ASSUME NEW x \in Session, NEW q \in PaymentsOf(x)
        PROVE  /\ q \in PaymentsOf(x)'
               /\ pState'[q] = pState[q] \/ (pState'[q] = "PENDING" /\ pState[q] # "SUCCEEDED")
    BY <1>1, <2>1 DEF RowsTypeOK, PaymentsOf
  <2>3. \A q \in Payment : pState'[q] = "SUCCEEDED" => sState'[pSession'[q]] = "PAID"
    BY <1>1 DEF RowsTypeOK, RowsInv, BooksAgree, Linked
  <2> QED
    BY <1>1, <2>1, <2>3 DEF RowsInv, PaidIsEarned, BooksAgree, AuthorizedHasPending
<1>6. BlockedWhileOwing'
  BY <1>1 DEF RowsInv, BlockedWhileOwing, Owes
<1> QED
  BY <1>2, <1>3, <1>4, <1>5, <1>6 DEF RowsInv

(* applyOutcome, for a payment with a row and a status the provider has    *)
(* reported.                                                               *)
LEMMA ApplyOutcomeRows ==
  ASSUME RowsInv, NEW p \in Payment, NEW st \in PspStatuses, ApplyOutcome(p, st),
         pState[p] # "ABSENT",
         st = "PENDING" \/ st \in Reports(p),
         inbox' \subseteq Payment \X FinalStatuses,
         UNCHANGED <<pspVars, reversalVars>>
  PROVE  RowsInv'
<1>1. /\ pSession[p] \in Session
      /\ OutcomeOf(p, pSession[p])
  BY DEF RowsInv, Linked, Settled, RowsTypeOK, OutcomeOf, ApplyOutcome
<1>2. /\ st = "APPROVED" => psp[p] \in {"APPROVED", "VOIDED"}
      /\ st = "VOIDED" => psp[p] = "VOIDED"
  BY DEF Reports, FinalStatuses
<1>3. CASE UNCHANGED <<pState, pPsp, pRef, sessionVars, debtVars>>
  BY <1>1, <1>3 DEF RowsInv, RowsTypeOK, Linked, Settled, Approved, PaidIsEarned, BooksAgree,
     AuthorizedHasPending, BlockedWhileOwing, PaymentsOf, Owes, sessionVars, debtVars, pspVars,
     reversalVars, ApplyOutcome
<1>4. CASE ~AlreadyApplied(p, st)
  <2>1. pState[p] # "SUCCEEDED" \/ st = "VOIDED"
    BY <1>4 DEF AlreadyApplied
  <2>2. CASE st = "APPROVED" /\ Approve(p, pSession[p])
    BY <1>1, <1>2, <2>2, ApproveRows
  <2>3. CASE st \in {"DECLINED", "ERROR"} /\ Decline(p, pSession[p], st, {p})
    BY <1>1, <2>1, <2>3, DeclineRows
  <2>4. CASE st = "VOIDED" /\ VoidPayment(p, pSession[p])
    BY <1>1, <1>2, <2>4, VoidRows
  <2>5. CASE st = "PENDING" /\ Hold(p)
    BY <1>1, <2>1, <2>5, HoldRows
  <2> QED
    BY <1>4, <2>2, <2>3, <2>4, <2>5 DEF ApplyOutcome
<1> QED
  BY <1>3, <1>4 DEF ApplyOutcome

-----------------------------------------------------------------------------
(* The other steps                                                         *)

(* A step that leaves sessions, payments and debts alone, while the        *)
(* provider, a link or a reversal moves on.                                *)
LEMMA SameRows ==
  ASSUME RowsInv,
         UNCHANGED <<sessionVars, paymentVars, dState, dTries, waivedBy, driver>>,
         dLink' \in [Session -> Link \cup {None}], linkValid' \subseteq Session,
         inbox' \subseteq Payment \X FinalStatuses,
         \A p \in Payment :
           /\ psp[p] \in {"APPROVED", "VOIDED"} => psp'[p] \in {"APPROVED", "VOIDED"}
           /\ psp'[p] = "VOIDED" =>
                \/ psp[p] = "VOIDED"
                \/ pState[p] # "ABSENT" /\ sState[pSession[p]] = "PAID",
         Linked'
  PROVE  RowsInv'
<1> USE DEF sessionVars, paymentVars
<1>1. RowsTypeOK'
  BY DEF RowsInv, RowsTypeOK
<1>2. Settled' /\ Approved'
  BY DEF RowsInv, Settled, Approved
<1>3. PaidIsEarned' /\ BooksAgree' /\ AuthorizedHasPending' /\ BlockedWhileOwing'
  BY DEF RowsInv, PaidIsEarned, BooksAgree, AuthorizedHasPending, BlockedWhileOwing,
         PaymentsOf, Owes
<1> QED
  BY <1>1, <1>2, <1>3 DEF RowsInv

(* chargeSession finds no way to charge, and registers a decline.          *)
LEMMA NoPaymentMethodRows ==
  ASSUME RowsInv, NEW s \in Session, NoPaymentMethod(s)
  PROVE  RowsInv'
<1> USE DEF NoPaymentMethod, Chargeable, RegisterDecline, paymentVars, reversalVars, pspVars
<1>1. RowsTypeOK /\ RowsTypeOK'
  BY DEF RowsInv, RowsTypeOK
<1>2. Linked' /\ Settled' /\ Approved'
  BY <1>1 DEF RowsInv, RowsTypeOK, Linked, Settled, Approved
<1>3. PaidIsEarned' /\ BooksAgree' /\ AuthorizedHasPending'
  BY <1>1 DEF RowsInv, RowsTypeOK, PaidIsEarned, BooksAgree, AuthorizedHasPending, PaymentsOf
<1>4. BlockedWhileOwing'
  BY <1>1, DecliningBlocks DEF RowsInv
<1> QED
  BY <1>1, <1>2, <1>3, <1>4 DEF RowsInv

(* A charge is recorded and sent.                                          *)
LEMMA ChargeRows ==
  ASSUME RowsInv, NEW s \in Session, NEW p \in Payment, Charge(s, p)
  PROVE  RowsInv'
<1> USE DEF Charge, Chargeable, debtVars, reversalVars, pspVars
<1>1. RowsTypeOK /\ RowsTypeOK'
  BY DEF RowsInv, RowsTypeOK, PspStatuses
<1>2. Linked' /\ Settled' /\ Approved'
  BY <1>1 DEF RowsInv, RowsTypeOK, Linked, Settled, Approved
<1>3. PaidIsEarned' /\ BooksAgree' /\ AuthorizedHasPending'
  <2>1. ASSUME NEW x \in Session, NEW q \in PaymentsOf(x)
        PROVE  q # p /\ q \in PaymentsOf(x)' /\ pState'[q] = pState[q]
    BY <1>1, <2>1 DEF RowsTypeOK, PaymentsOf
  <2>2. p \in PaymentsOf(s)' /\ pState'[p] = "PENDING"
    BY <1>1 DEF RowsTypeOK, PaymentsOf
  <2>3. \A q \in Payment : pState'[q] = "SUCCEEDED" => sState'[pSession'[q]] = "PAID"
    BY <1>1 DEF RowsTypeOK, RowsInv, BooksAgree
  <2> QED
    BY <1>1, <2>1, <2>2, <2>3 DEF RowsInv, RowsTypeOK, PaidIsEarned, BooksAgree,
                                  AuthorizedHasPending
<1>4. BlockedWhileOwing'
  BY DEF RowsInv, BlockedWhileOwing, Owes
<1> QED
  BY <1>1, <1>2, <1>3, <1>4 DEF RowsInv

(* A payment fails without a decline: its call fails, or the poll finds    *)
(* that it was never answered.                                             *)
LEMMA GivenUpRows ==
  ASSUME RowsInv, NEW p \in Payment, pState[p] # "ABSENT",
         \/ /\ pState' = [pState EXCEPT ![p] = "FAILED"]
            /\ sPay' = [sPay EXCEPT ![pSession[p]] = "NONE"]
         \/ /\ pState' = IF pState[p] = "PENDING" THEN [pState EXCEPT ![p] = "FAILED"] ELSE pState
            /\ sPay' = [sPay EXCEPT ![pSession[p]] = IF @ = "AUTHORIZED" THEN "NONE" ELSE @],
         pPsp' = [pPsp EXCEPT ![p] = "ERROR"] \/ UNCHANGED pPsp,
         UNCHANGED <<sState, pRef, pSession, debtVars, inbox, reversalVars, pspVars>>
  PROVE  RowsInv'
<1> USE DEF debtVars, reversalVars, pspVars
<1>1. RowsTypeOK /\ pSession[p] \in Session
  BY DEF RowsInv, Linked
<1>2. RowsTypeOK'
  BY <1>1 DEF RowsTypeOK, PspStatuses, FinalStatuses
<1>3. Linked' /\ Settled' /\ Approved'
  BY <1>1 DEF RowsInv, RowsTypeOK, Linked, Settled, Approved
<1>4. PaidIsEarned' /\ BooksAgree' /\ AuthorizedHasPending'
  <2>1. \A x \in Session : PaymentsOf(x) = PaymentsOf(x)'
    BY <1>1 DEF RowsTypeOK, PaymentsOf
  <2>2. /\ \A q \in Payment : q # p => pState'[q] = pState[q]
        /\ \A x \in Session : x # pSession[p] => sPay'[x] = sPay[x]
    BY <1>1 DEF RowsTypeOK
  <2>3. /\ sPay'[pSession[p]] # "AUTHORIZED"
        /\ \/ sPay'[pSession[p]] = "NONE"
           \/ /\ sPay'[pSession[p]] = sPay[pSession[p]]
              /\ pState[p] # "PENDING" => pState' = pState
    BY <1>1 DEF RowsTypeOK
  <2>4. \A q \in Payment : pState'[q] = "SUCCEEDED" => pState[q] = "SUCCEEDED"
    BY <1>1 DEF RowsTypeOK
  <2> QED
    BY <1>1, <2>1, <2>2, <2>3, <2>4 DEF RowsInv, PaidIsEarned, BooksAgree, AuthorizedHasPending,
                                        PaymentsOf
<1>5. BlockedWhileOwing'
  BY DEF RowsInv, BlockedWhileOwing, Owes
<1> QED
  BY <1>2, <1>3, <1>4, <1>5 DEF RowsInv

(* A session is settled; or waived as too small to charge.                 *)
LEMMA SettleRows ==
  ASSUME RowsInv, NEW s \in Session, Settle(s) \/ Waive(s)
  PROVE  RowsInv'
<1> USE DEF Settle, Waive, Chargeable, WaiveSession, paymentVars, debtVars, reversalVars, pspVars
<1>1. RowsTypeOK /\ RowsTypeOK'
  BY DEF RowsInv, RowsTypeOK
<1>2. Linked' /\ Settled' /\ Approved'
  BY <1>1 DEF RowsInv, RowsTypeOK, Linked, Settled, Approved
<1>3. PaidIsEarned' /\ BooksAgree' /\ AuthorizedHasPending'
  BY <1>1 DEF RowsInv, RowsTypeOK, PaidIsEarned, BooksAgree, AuthorizedHasPending, PaymentsOf,
              Linked
<1>4. BlockedWhileOwing'
  BY DEF RowsInv, BlockedWhileOwing, Owes
<1> QED
  BY <1>1, <1>2, <1>3, <1>4 DEF RowsInv

(* An operator waives a debt.                                              *)
LEMMA WaiveDebtRows ==
  ASSUME RowsInv, NEW s \in Session, WaiveDebt(s)
  PROVE  RowsInv'
<1>1. /\ RowsTypeOK
      /\ sState' = [sState EXCEPT ![s] = "PAID"]
      /\ waivedBy' = waivedBy \cup {s}
      /\ \A x \in Session : x # s => sPay'[x] = sPay[x]
      /\ sPay'[s] = "WAIVED" \/ (sPay'[s] = sPay[s] /\ sState[s] = "PAID")
      /\ sPay' \in [Session -> {"NONE", "AUTHORIZED", "CAPTURED", "FAILED", "WAIVED", "REFUNDED"}]
  <2>1. /\ RowsTypeOK
        /\ sState[s] \in {"SETTLED", "PAID"}
        /\ waivedBy' = waivedBy \cup {s}
    BY DEF RowsInv, Settled, WaiveDebt
  <2>2. /\ sState \in [Session -> {"ENDED", "SETTLED", "PAID"}]
        /\ sPay \in [Session -> {"NONE", "AUTHORIZED", "CAPTURED", "FAILED", "WAIVED", "REFUNDED"}]
    BY <2>1 DEF RowsTypeOK
  <2>3. CASE sState[s] = "SETTLED"
    <3>1. WaiveSession(s)
      BY <2>3 DEF WaiveDebt
    <3> QED
      BY <2>1, <2>2, <3>1 DEF WaiveSession
  <2>4. CASE sState[s] = "PAID"
    <3>1. UNCHANGED <<sState, sPay>>
      BY <2>4 DEF WaiveDebt, sessionVars
    <3> QED
      BY <2>1, <2>2, <2>4, <3>1
  <2> QED
    BY <2>1, <2>3, <2>4
<1> USE DEF WaiveDebt, WaiveSession, sessionVars, paymentVars, reversalVars, pspVars
<1>2. RowsTypeOK'
  BY <1>1 DEF RowsTypeOK, UnblockIfClear
<1>3. Linked' /\ Settled' /\ Approved'
  BY <1>1 DEF RowsInv, RowsTypeOK, Linked, Settled, Approved
<1>4. PaidIsEarned' /\ BooksAgree' /\ AuthorizedHasPending'
  <2>1. \A x \in Session : PaymentsOf(x)' = PaymentsOf(x)
    BY DEF PaymentsOf
  <2> QED
    BY <1>1, <2>1 DEF RowsInv, RowsTypeOK, PaidIsEarned, BooksAgree, AuthorizedHasPending, Linked
<1>5. BlockedWhileOwing'
  <2>1. dState' = [dState EXCEPT ![s] = IF @ = "OPEN" THEN "WAIVED" ELSE @]
    BY <1>1 DEF RowsTypeOK
  <2> QED
    BY <1>1, <2>1, ClosingUnblocks DEF RowsInv
<1> QED
  BY <1>2, <1>3, <1>4, <1>5 DEF RowsInv

(* An operator blocks or unblocks a driver.                                *)
LEMMA DriverRows ==
  ASSUME RowsInv, NEW d \in Driver, BlockDriver(d) \/ UnblockDriver(d)
  PROVE  RowsInv'
<1> USE DEF BlockDriver, UnblockDriver, sessionVars, paymentVars, reversalVars, pspVars
<1>1. RowsTypeOK /\ RowsTypeOK'
  BY DEF RowsInv, RowsTypeOK
<1>2. Linked' /\ Settled' /\ Approved'
  BY DEF RowsInv, Linked, Settled, Approved
<1>3. PaidIsEarned' /\ BooksAgree' /\ AuthorizedHasPending'
  BY DEF RowsInv, PaidIsEarned, BooksAgree, AuthorizedHasPending, PaymentsOf
<1>4. BlockedWhileOwing'
  <2>1. \A x \in Driver : x # d => driver'[x] = driver[x]
    BY <1>1 DEF RowsTypeOK
  <2>2. /\ driver'[d] # "BLOCKED_DEBT"
        /\ driver'[d] = "OK" => ForceUnblock \/ ~Owes(d, dState)
    BY <1>1 DEF RowsTypeOK
  <2>3. \A x \in Driver : Owes(x, dState)' <=> Owes(x, dState)
    BY DEF Owes
  <2> QED
    BY <2>1, <2>2, <2>3 DEF RowsInv, BlockedWhileOwing
<1> QED
  BY <1>1, <1>2, <1>3, <1>4 DEF RowsInv

(* What the provider gave back is recorded.                                *)
LEMMA RecordReversalRows ==
  ASSUME RowsInv, NEW r \in Reversal, RecordReversal(r),
         revPc \in [Reversal -> {"idle", "asked", "answered", "over"}]
  PROVE  RowsInv'
<1> USE DEF RecordReversal, debtVars, pspVars
<1> DEFINE p == revFor[r]
<1>1. /\ RowsTypeOK
      /\ p \in Payment /\ pState[p] # "ABSENT"
      /\ pSession[p] \in Session /\ sState[pSession[p]] = "PAID"
  BY DEF RowsInv, Linked
<1>2. RowsTypeOK'
  BY <1>1 DEF RowsTypeOK, PspStatuses, FinalStatuses
<1>3. Linked'
  <2>1. \A q \in Payment : pState'[q] # "ABSENT" <=> pState[q] # "ABSENT"
    BY <1>1 DEF RowsTypeOK
  <2>2. \A x \in Reversal : revPc'[x] \in {"asked", "answered"} =>
                              revPc[x] \in {"asked", "answered"}
    OBVIOUS
  <2> QED
    BY <2>1, <2>2 DEF RowsInv, Linked
<1>4. Settled' /\ Approved'
  BY <1>1 DEF RowsInv, RowsTypeOK, Settled, Approved
<1>5. PaidIsEarned' /\ BooksAgree' /\ AuthorizedHasPending'
  <2>1. \A x \in Session : PaymentsOf(x)' = PaymentsOf(x)
    BY <1>1 DEF RowsTypeOK, PaymentsOf
  <2>2. \A x \in Session :
          \/ sPay'[x] = "REFUNDED"
          \/ sPay'[x] = sPay[x] /\ (\A q \in PaymentsOf(x) : pState'[q] = pState[q])
    BY <1>1 DEF RowsTypeOK, PaymentsOf
  <2>3. \A q \in Payment : pState'[q] = "SUCCEEDED" => pState[q] = "SUCCEEDED"
    BY <1>1 DEF RowsTypeOK
  <2> QED
    BY <2>1, <2>2, <2>3 DEF RowsInv, PaidIsEarned, BooksAgree, AuthorizedHasPending
<1>6. BlockedWhileOwing'
  BY DEF RowsInv, BlockedWhileOwing, Owes
<1> QED
  BY <1>2, <1>3, <1>4, <1>5, <1>6 DEF RowsInv

-----------------------------------------------------------------------------
(* Every step keeps the rows                                               *)

(* The answer to a charge, its refusal and its failure.                    *)
LEMMA CallRows ==
  ASSUME IInv, NEW p \in Payment, CallReturns(p)
  PROVE  RowsInv'
<1>1. /\ RowsInv /\ pState[p] # "ABSENT"
      /\ inbox' \subseteq Payment \X FinalStatuses
      /\ UNCHANGED <<pspVars, reversalVars>>
  BY DEF IInv, CallsLinked, RowsInv, RowsTypeOK, CallReturns, Answered, Refused, TechnicalError,
         Crash, CallEnds
<1>2. ASSUME NEW st \in PspStatuses, Answered(p, st) PROVE RowsInv'
  BY <1>1, <1>2, ApplyOutcomeRows DEF Answered
<1>3. CASE Refused(p)
  <2>1. OutcomeOf(p, pSession[p]) /\ pSession[p] \in Session
    BY <1>1, <1>3 DEF OutcomeOf, Refused, RowsInv, RowsTypeOK, Linked, Settled
  <2>2. pState[p] # "SUCCEEDED"
    BY <1>3 DEF Refused, IInv, RowsInv, Approved
  <2> QED
    BY <1>1, <1>3, <2>1, <2>2, DeclineRows DEF Refused
<1>4. CASE TechnicalError(p)
  BY <1>1, <1>4, GivenUpRows DEF TechnicalError, CallEnds
<1>5. CASE Crash(p)
  <2>1. UNCHANGED <<sessionVars, paymentVars, debtVars, inbox, pspVars, reversalVars>>
    BY <1>5 DEF Crash, CallEnds
  <2> QED
    BY <1>1, <2>1, SameRows DEF RowsInv, RowsTypeOK, Linked, debtVars, pspVars, reversalVars,
                                sessionVars, paymentVars
<1> QED
  BY <1>2, <1>3, <1>4, <1>5 DEF CallReturns

LEMMA ChargeStepRows ==
  ASSUME IInv, ChargeStep PROVE RowsInv'
BY ChargeRows, CallRows DEF ChargeStep, CallReturns, IInv

(* Webhooks and the poll.                                                  *)
LEMMA EventStepRows ==
  ASSUME IInv, EventStep PROVE RowsInv'
<1>1. RowsInv
  BY DEF IInv
<1>2. ASSUME NEW p \in Payment, NEW st \in FinalStatuses, Webhook(p, st) PROVE RowsInv'
  <2>1. inbox' \subseteq Payment \X FinalStatuses
    BY <1>1, <1>2 DEF Webhook, RowsInv, RowsTypeOK
  <2> QED
    BY <1>1, <1>2, <2>1, ApplyOutcomeRows DEF Webhook, PspStatuses
<1>3. ASSUME NEW p \in Payment, NEW st \in FinalStatuses, PollAnswered(p, st) PROVE RowsInv'
  BY <1>1, <1>3, ApplyOutcomeRows DEF PollAnswered, PspStatuses, RowsInv, RowsTypeOK, IInv,
                                      CallsLinked
<1>4. ASSUME NEW p \in Payment, NEW st \in FinalStatuses, NEW s \in Session,
             LinkWebhook(p, st, s)
      PROVE  RowsInv'
  <2>1. OutcomeOf(p, s) /\ pState[p] # "SUCCEEDED" /\ psp[p] # "VOIDED"
    BY <1>1, <1>4 DEF LinkWebhook, OutcomeOf, RowsInv, RowsTypeOK, Settled, Approved
  <2>2. /\ st = "APPROVED" => psp[p] \in {"APPROVED", "VOIDED"}
        /\ st # "VOIDED"
    BY <1>4, <2>1 DEF LinkWebhook, Reports, FinalStatuses
  <2> QED
    BY <1>1, <1>4, <2>1, <2>2, ApproveRows, DeclineRows DEF LinkWebhook
<1>5. ASSUME NEW p \in Payment, PollGivesUp(p) PROVE RowsInv'
  <2>1. pState[p] # "ABSENT"
    BY <1>5 DEF PollGivesUp, IInv, CallsLinked
  <2> QED
    BY <1>1, <1>5, <2>1, GivenUpRows DEF PollGivesUp
<1>6. ASSUME UNCHANGED <<sessionVars, paymentVars, debtVars, pspVars, reversalVars>>,
             inbox' \subseteq Payment \X FinalStatuses
      PROVE  RowsInv'
  BY <1>1, <1>6, SameRows DEF RowsInv, RowsTypeOK, Linked, debtVars, pspVars, reversalVars,
                              sessionVars, paymentVars
<1>7. ASSUME NEW p \in Payment, PollReads(p) \/ PollFails(p) PROVE RowsInv'
  BY <1>1, <1>6, <1>7 DEF PollReads, PollFails, RowsInv, RowsTypeOK
<1>8. ASSUME NEW p \in Payment, NEW st \in FinalStatuses, UnknownLink(p, st) PROVE RowsInv'
  BY <1>1, <1>6, <1>8 DEF UnknownLink, RowsInv, RowsTypeOK
<1> QED
  BY <1>2, <1>3, <1>4, <1>5, <1>7, <1>8 DEF EventStep

(* Sessions, debts, links and drivers.                                     *)
LEMMA DebtStepRows ==
  ASSUME IInv, DebtStep PROVE RowsInv'
<1>1. RowsInv /\ CallsLinked
  BY DEF IInv
<1>2. ASSUME UNCHANGED <<sessionVars, paymentVars, dState, dTries, waivedBy, driver, inbox,
                         pspVars, reversalVars>>,
             dLink' \in [Session -> Link \cup {None}], linkValid' \subseteq Session
      PROVE  RowsInv'
  BY <1>1, <1>2, SameRows DEF RowsInv, RowsTypeOK, Linked, pspVars, reversalVars, sessionVars,
                              paymentVars
<1>3. ASSUME NEW s \in Session, LinkExpires(s) PROVE RowsInv'
  BY <1>1, <1>2, <1>3 DEF LinkExpires, RowsInv, RowsTypeOK
<1>4. ASSUME NEW l \in Link, NEW s \in Session, AskLink(l, s) PROVE RowsInv'
  BY <1>1, <1>2, <1>4 DEF AskLink, debtVars, RowsInv, RowsTypeOK
<1>5. ASSUME NEW l \in Link, StoreLink(l) PROVE RowsInv'
  <2>1. linkFor[l] \in Session
    BY <1>1, <1>5 DEF StoreLink, CallsLinked
  <2> QED
    BY <1>1, <1>2, <1>5, <2>1 DEF StoreLink, RowsInv, RowsTypeOK
<1> QED
  BY <1>1, <1>3, <1>4, <1>5, SettleRows, NoPaymentMethodRows, WaiveDebtRows, DriverRows
  DEF DebtStep

(* Reversals, and the provider.                                            *)
LEMMA ReversalStepRows ==
  ASSUME IInv, ReversalStep PROVE RowsInv'
<1>1. RowsInv
  BY DEF IInv
<1>2. ASSUME UNCHANGED <<sessionVars, paymentVars, debtVars, inbox, pspVars>>, Linked'
      PROVE  RowsInv'
  BY <1>1, <1>2, SameRows DEF RowsInv, RowsTypeOK, debtVars, pspVars
<1>3. ASSUME NEW r \in Reversal, NEW p \in Payment, AskReversal(r, p) PROVE RowsInv'
  <2>1. sState[pSession[p]] = "PAID"
    BY <1>1, <1>3 DEF AskReversal, RowsInv, BooksAgree
  <2>2. Linked'
    BY <1>1, <1>3, <2>1 DEF AskReversal, RowsInv, Linked, sessionVars, paymentVars, IInv,
                            CallsTypeOK
  <2> QED
    BY <1>2, <1>3, <2>2 DEF AskReversal
<1>4. ASSUME NEW r \in Reversal, ReversalRefused(r) PROVE RowsInv'
  <2>1. Linked'
    BY <1>1, <1>4 DEF ReversalRefused, RowsInv, Linked, sessionVars, paymentVars, IInv,
                      CallsTypeOK
  <2> QED
    BY <1>2, <1>4, <2>1 DEF ReversalRefused
<1>5. ASSUME NEW r \in Reversal, RecordReversal(r) PROVE RowsInv'
  <2>1. revPc \in [Reversal -> {"idle", "asked", "answered", "over"}]
    BY DEF IInv, CallsTypeOK
  <2> QED
    BY <1>1, <1>5, <2>1, RecordReversalRows
<1> QED
  BY <1>3, <1>4, <1>5 DEF ReversalStep

LEMMA PaymentGatewayRows ==
  ASSUME IInv, PaymentGatewayNext PROVE RowsInv'
<1>1. RowsInv /\ psp \in [Payment -> {"none"} \cup PspStatuses]
      /\ revPc \in [Reversal -> {"idle", "asked", "answered", "over"}]
  BY DEF IInv, CallsTypeOK
<1>2. ASSUME UNCHANGED billingVars, Linked',
             \A p \in Payment :
               /\ psp[p] \in {"APPROVED", "VOIDED"} => psp'[p] \in {"APPROVED", "VOIDED"}
               /\ psp'[p] = "VOIDED" =>
                    \/ psp[p] = "VOIDED"
                    \/ pState[p] # "ABSENT" /\ sState[pSession[p]] = "PAID"
      PROVE  RowsInv'
  BY <1>1, <1>2, SameRows DEF RowsInv, RowsTypeOK, billingVars, debtVars
<1>3. ASSUME UNCHANGED <<billingVars, revFor>>,
             \A r \in Reversal :
               revPc'[r] \in {"asked", "answered"} => revPc[r] \in {"asked", "answered"}
      PROVE  Linked'
  BY <1>1, <1>3 DEF RowsInv, Linked, billingVars, sessionVars, paymentVars
<1>4. ASSUME NEW p \in Payment, Take(p) \/ Decide(p) PROVE RowsInv'
  BY <1>1, <1>2, <1>3, <1>4 DEF Take, Decide, reversalVars
<1>5. ASSUME NEW p \in Payment, NEW l \in Link, PayLink(p, l) PROVE RowsInv'
  BY <1>1, <1>2, <1>3, <1>5 DEF PayLink, reversalVars
<1>6. ASSUME NEW r \in Reversal, ReversalThrows(r) PROVE RowsInv'
  BY <1>1, <1>2, <1>3, <1>6 DEF ReversalThrows, pspVars
<1>7. ASSUME NEW r \in Reversal, NEW kind, NEW status, Reverses(r, kind, status) PROVE RowsInv'
  <2>1. /\ revFor[r] \in Payment /\ pState[revFor[r]] # "ABSENT"
        /\ sState[pSession[revFor[r]]] = "PAID"
    BY <1>1, <1>7 DEF Reverses, RowsInv, Linked
  <2>2. Linked'
    BY <1>1, <1>3, <1>7 DEF Reverses
  <2> QED
    BY <1>1, <1>2, <1>7, <2>1, <2>2 DEF Reverses
<1> QED
  BY <1>4, <1>5, <1>6, <1>7 DEF PaymentGatewayNext

-----------------------------------------------------------------------------
(* Every step keeps the calls                                              *)

(* No row of a payment goes away.                                          *)
RowsStay == \A p \in Payment : pState[p] # "ABSENT" => pState'[p] # "ABSENT"

LEMMA OutcomeStays ==
  ASSUME RowsTypeOK, NEW p \in Payment, NEW s, NEW st, NEW refs,
         \/ Approve(p, s) \/ Decline(p, s, st, refs) \/ VoidPayment(p, s)
         \/ ApplyOutcome(p, st)
  PROVE  RowsStay
BY DEF RowsTypeOK, RowsStay, Approve, Decline, VoidPayment, Hold, ApplyOutcome

LEMMA StepsStay == ASSUME RowsTypeOK, Next PROVE RowsStay
<1>1. ASSUME UNCHANGED pState PROVE RowsStay
  BY <1>1 DEF RowsStay
<1>2. ASSUME NEW p \in Payment, CallReturns(p) PROVE RowsStay
  <2>1. CASE TechnicalError(p)
    BY <2>1 DEF TechnicalError, RowsStay, RowsTypeOK
  <2>2. CASE Crash(p)
    BY <1>1, <2>2 DEF Crash, paymentVars
  <2> QED
    BY <1>2, <2>1, <2>2, OutcomeStays DEF CallReturns, Answered, Refused
<1>3. CASE ChargeStep
  <2>1. ASSUME NEW p \in Payment, NEW s \in Session, Charge(s, p) PROVE RowsStay
    BY <2>1 DEF Charge, RowsStay, RowsTypeOK
  <2> QED
    BY <1>3, <1>2, <2>1 DEF ChargeStep, CallReturns
<1>4. CASE EventStep
  <2>1. ASSUME NEW p \in Payment, PollGivesUp(p) PROVE RowsStay
    BY <2>1 DEF PollGivesUp, RowsStay, RowsTypeOK
  <2>2. ASSUME NEW p \in Payment, NEW st \in FinalStatuses,
               Webhook(p, st) \/ PollAnswered(p, st)
        PROVE  RowsStay
    BY <2>2, OutcomeStays DEF Webhook, PollAnswered
  <2>3. ASSUME NEW p \in Payment, NEW st \in FinalStatuses, NEW s \in Session,
               LinkWebhook(p, st, s)
        PROVE  RowsStay
    BY <2>3, OutcomeStays DEF LinkWebhook
  <2>4. ASSUME NEW p \in Payment, NEW st \in FinalStatuses,
               PollReads(p) \/ PollFails(p) \/ UnknownLink(p, st)
        PROVE  RowsStay
    BY <1>1, <2>4 DEF PollReads, PollFails, UnknownLink, paymentVars
  <2> QED
    BY <1>4, <2>1, <2>2, <2>3, <2>4 DEF EventStep, FinalStatuses
<1>5. CASE DebtStep
  BY <1>5, <1>1 DEF DebtStep, Settle, Waive, NoPaymentMethod, WaiveDebt, LinkExpires, AskLink,
                    StoreLink, BlockDriver, UnblockDriver, paymentVars
<1>6. CASE ReversalStep
  BY <1>6, <1>1 DEF ReversalStep, AskReversal, ReversalRefused, RecordReversal, paymentVars,
                    RowsStay, RowsTypeOK
<1>7. CASE PaymentGatewayNext
  BY <1>7, <1>1 DEF PaymentGatewayNext, Take, Decide, PayLink, Reverses, ReversalThrows,
                    billingVars, paymentVars
<1> QED
  BY <1>3, <1>4, <1>5, <1>6, <1>7 DEF Next

CallsInv == CallsTypeOK /\ CallsLinked

(* A step of the service that leaves links, reversals and the provider     *)
(* alone.                                                                  *)
LEMMA SameCalls ==
  ASSUME CallsInv, RowsStay, UNCHANGED <<linkVars, reversalVars, pspVars>>,
         \/ UNCHANGED callPc
         \/ \E p \in Payment :
              pState'[p] # "ABSENT" /\ callPc' = [callPc EXCEPT ![p] = "sent"]
         \/ \E p \in Payment : callPc' = [callPc EXCEPT ![p] = "over"],
         \/ UNCHANGED polled
         \/ \E p \in Payment : polled' = [polled EXCEPT ![p] = "no"]
         \/ \E p \in Payment, to \in {"silent", "asked"} :
              pState[p] # "ABSENT" /\ polled' = [polled EXCEPT ![p] = to]
  PROVE  CallsInv'
BY DEF CallsInv, CallsTypeOK, CallsLinked, RowsStay, linkVars, reversalVars, pspVars

LEMMA CallsStep ==
  ASSUME IInv, Next PROVE CallsInv'
<1>1. CallsInv /\ RowsStay
  BY StepsStay DEF IInv, CallsInv, RowsInv
<1>2. CASE ChargeStep
  <2>1. ASSUME NEW p \in Payment, NEW s \in Session, Charge(s, p) PROVE CallsInv'
    <3>1. pState'[p] # "ABSENT" /\ callPc' = [callPc EXCEPT ![p] = "sent"]
      BY <2>1 DEF Charge, IInv, RowsInv, RowsTypeOK
    <3> QED
      BY <1>1, <2>1, <3>1, SameCalls DEF Charge
  <2>2. ASSUME NEW p \in Payment, CallEnds(p) PROVE CallsInv'
    BY <1>1, <2>2, SameCalls DEF CallEnds
  <2> QED
    BY <1>2, <2>1, <2>2 DEF ChargeStep, Answered, Refused, TechnicalError, Crash
<1>3. CASE EventStep
  <2>1. ASSUME NEW p \in Payment, NEW st \in FinalStatuses,
               \/ Webhook(p, st) \/ UnknownLink(p, st)
               \/ \E s \in Session : LinkWebhook(p, st, s)
        PROVE  CallsInv'
    BY <1>1, <2>1, SameCalls DEF Webhook, UnknownLink, LinkWebhook, callVars
  <2>2. ASSUME NEW p \in Payment, NEW st \in FinalStatuses,
               PollAnswered(p, st) \/ PollGivesUp(p) \/ PollFails(p)
        PROVE  CallsInv'
    BY <1>1, <2>2, SameCalls DEF PollAnswered, PollGivesUp, PollFails
  <2>3. ASSUME NEW p \in Payment, PollReads(p) PROVE CallsInv'
    <3>1. \E to \in {"silent", "asked"} :
            pState[p] # "ABSENT" /\ polled' = [polled EXCEPT ![p] = to]
      BY <2>3 DEF PollReads
    <3> QED
      BY <1>1, <2>3, <3>1, SameCalls DEF PollReads
  <2> QED
    BY <1>3, <2>1, <2>2, <2>3 DEF EventStep, FinalStatuses
<1>4. CASE DebtStep
  <2>1. ASSUME UNCHANGED <<callVars, linkVars, reversalVars, pspVars>> PROVE CallsInv'
    BY <1>1, <2>1, SameCalls DEF callVars
  <2>2. ASSUME NEW l \in Link, NEW s \in Session, AskLink(l, s) PROVE CallsInv'
    BY <1>1, <2>2 DEF AskLink, CallsInv, CallsTypeOK, CallsLinked, RowsStay, callVars,
                      reversalVars, pspVars
  <2>3. ASSUME NEW l \in Link, StoreLink(l) PROVE CallsInv'
    BY <1>1, <2>3 DEF StoreLink, CallsInv, CallsTypeOK, CallsLinked, RowsStay, callVars,
                      reversalVars, pspVars
  <2> QED
    BY <1>4, <2>1, <2>2, <2>3 DEF DebtStep, Settle, Waive, NoPaymentMethod, WaiveDebt,
                                  LinkExpires, BlockDriver, UnblockDriver
<1>5. CASE ReversalStep
  <2> USE DEF CallsInv, CallsTypeOK, CallsLinked, RowsStay, callVars, linkVars, pspVars
  <2>1. ASSUME NEW r \in Reversal, NEW p \in Payment, AskReversal(r, p) PROVE CallsInv'
    BY <1>1, <2>1 DEF AskReversal
  <2>2. ASSUME NEW r \in Reversal, RecordReversal(r) \/ ReversalRefused(r) PROVE CallsInv'
    BY <1>1, <2>2 DEF RecordReversal, ReversalRefused
  <2> QED
    BY <1>5, <2>1, <2>2 DEF ReversalStep
<1>6. CASE PaymentGatewayNext
  <2> USE DEF CallsInv, CallsTypeOK, CallsLinked, RowsStay, billingVars, callVars, linkVars,
              reversalVars, pspVars, PspStatuses, FinalStatuses
  <2>1. ASSUME NEW p \in Payment, Take(p) \/ Decide(p) PROVE CallsInv'
    BY <1>1, <2>1 DEF Take, Decide
  <2>2. ASSUME NEW p \in Payment, NEW l \in Link, PayLink(p, l) PROVE CallsInv'
    BY <1>1, <2>2 DEF PayLink
  <2>3. ASSUME NEW r \in Reversal, ReversalThrows(r) PROVE CallsInv'
    BY <1>1, <2>3 DEF ReversalThrows
  <2>4. ASSUME NEW r \in Reversal, NEW kind \in {"VOID", "REFUND"},
               NEW status \in {"SUCCEEDED", "PENDING", "FAILED"}, Reverses(r, kind, status)
        PROVE  CallsInv'
    <3>1. revFor[r] \in Payment
      BY <2>4 DEF Reverses, IInv, RowsInv, Linked
    <3> QED
      BY <1>1, <2>4, <3>1 DEF Reverses
  <2> QED
    BY <1>6, <2>1, <2>2, <2>3, <2>4 DEF PaymentGatewayNext
<1> QED
  BY <1>2, <1>3, <1>4, <1>5, <1>6 DEF Next

-----------------------------------------------------------------------------
(* The theorems                                                            *)

LEMMA IInvStep == IInv /\ [Next]_vars => IInv'
<1>1. ASSUME IInv, Next PROVE IInv'
  BY <1>1, CallsStep, ChargeStepRows, EventStepRows, DebtStepRows, ReversalStepRows,
     PaymentGatewayRows DEF Next, IInv, CallsInv
<1>2. ASSUME IInv, UNCHANGED vars PROVE IInv'
  <2>1. RowsInv'
    BY <1>2, SameRows DEF vars, IInv, RowsInv, RowsTypeOK, Linked, sessionVars, paymentVars,
                          debtVars, callVars, linkVars, reversalVars, pspVars
  <2>2. CallsInv'
    BY <1>2, SameCalls DEF vars, IInv, CallsInv, RowsStay, paymentVars, callVars
  <2> QED
    BY <2>1, <2>2 DEF IInv, CallsInv
<1> QED
  BY <1>1, <1>2

(* The rows of sessions, payments, debts and drivers agree, whatever is    *)
(* lost, late, repeated, or dies: the inductive invariant.                 *)
THEOREM BooksAlwaysAgree == Spec => []IInv
BY IInvInit, IInvStep, PTL DEF Spec

(* Every reachable state of Billing is well typed.                         *)
THEOREM BillingTypes == Spec => []TypeOK
<1>1. IInv => TypeOK
  BY DEF IInv, RowsInv, TypeOK
<1> QED
  BY <1>1, BooksAlwaysAgree, PTL

(* A session is PAID only if the provider approved a payment of it, or     *)
(* somebody waived it.                                                     *)
THEOREM PaidSessionsAreEarned == Spec => []PaidIsEarned
<1>1. IInv => PaidIsEarned
  BY DEF IInv, RowsInv
<1> QED
  BY <1>1, BooksAlwaysAgree, PTL

(* A payment that succeeded is of a PAID session, and a session paid by a  *)
(* capture has a payment that succeeded.                                   *)
THEOREM PaymentsMatchSessions == Spec => []BooksAgree
<1>1. IInv => BooksAgree
  BY DEF IInv, RowsInv
<1> QED
  BY <1>1, BooksAlwaysAgree, PTL

(* A session that waits for the provider has a payment the poll will ask   *)
(* about.                                                                  *)
THEOREM NobodyWaitsForNothing == Spec => []AuthorizedHasPending
<1>1. IInv => AuthorizedHasPending
  BY DEF IInv, RowsInv
<1> QED
  BY <1>1, BooksAlwaysAgree, PTL

(* A driver is blocked for debt exactly while he owes, forced unblocking   *)
(* aside.                                                                  *)
THEOREM BlocksFollowDebts == Spec => []BlockedWhileOwing
<1>1. IInv => BlockedWhileOwing
  BY DEF IInv, RowsInv
<1> QED
  BY <1>1, BooksAlwaysAgree, PTL

-----------------------------------------------------------------------------
(* PAID is final                                                           *)

Onward ==
  \A s \in Session :
    /\ sState[s] = "PAID" => sState'[s] = "PAID"
    /\ sState[s] = "ENDED" => sState'[s] # "PAID"

LEMMA OutcomeIsOnward ==
  ASSUME RowsTypeOK, NEW p \in Payment, NEW s, NEW st, NEW refs,
         \/ Approve(p, s) \/ Decline(p, s, st, refs) \/ VoidPayment(p, s)
         \/ ApplyOutcome(p, st)
  PROVE  Onward
BY DEF RowsTypeOK, Onward, Approve, Decline, RegisterDecline, VoidPayment, Hold, ApplyOutcome,
       sessionVars

LEMMA StepsAreOnward == ASSUME RowsTypeOK, [Next]_vars PROVE Onward
<1>1. ASSUME UNCHANGED sState PROVE Onward
  BY <1>1 DEF Onward
<1>2. CASE UNCHANGED vars
  BY <1>1, <1>2 DEF vars, sessionVars
<1>3. CASE ChargeStep
  <2>1. ASSUME NEW p \in Payment, NEW s \in Session,
               Charge(s, p) \/ TechnicalError(p) \/ Crash(p)
        PROVE  Onward
    BY <1>1, <2>1 DEF Charge, TechnicalError, Crash, sessionVars
  <2>2. ASSUME NEW p \in Payment, TechnicalError(p) \/ Crash(p) PROVE Onward
    BY <1>1, <2>2 DEF TechnicalError, Crash, sessionVars
  <2>3. ASSUME NEW p \in Payment, NEW st \in PspStatuses, Answered(p, st) \/ Refused(p)
        PROVE  Onward
    BY <2>3, OutcomeIsOnward DEF Answered, Refused
  <2>4. "PENDING" \in PspStatuses
    BY DEF PspStatuses
  <2> QED
    BY <1>3, <2>1, <2>2, <2>3, <2>4 DEF ChargeStep
<1>4. CASE EventStep
  <2>1. ASSUME NEW p \in Payment, PollGivesUp(p) \/ PollReads(p) \/ PollFails(p) PROVE Onward
    BY <1>1, <2>1 DEF PollGivesUp, PollReads, PollFails, sessionVars
  <2>2. ASSUME NEW p \in Payment, NEW st \in FinalStatuses,
               Webhook(p, st) \/ PollAnswered(p, st)
        PROVE  Onward
    BY <2>2, OutcomeIsOnward DEF Webhook, PollAnswered
  <2>3. ASSUME NEW p \in Payment, NEW st \in FinalStatuses, NEW s \in Session,
               LinkWebhook(p, st, s)
        PROVE  Onward
    BY <2>3, OutcomeIsOnward DEF LinkWebhook
  <2>4. ASSUME NEW p \in Payment, NEW st \in FinalStatuses, UnknownLink(p, st) PROVE Onward
    BY <1>1, <2>4 DEF UnknownLink, sessionVars
  <2> QED
    BY <1>4, <2>1, <2>2, <2>3, <2>4 DEF EventStep
<1>5. CASE DebtStep
  <2>1. ASSUME NEW s \in Session, Settle(s) \/ Waive(s) \/ WaiveDebt(s) PROVE Onward
    BY <2>1 DEF Settle, Waive, Chargeable, WaiveDebt, WaiveSession, Onward, RowsTypeOK,
                sessionVars
  <2> QED
    BY <1>5, <1>1, <2>1 DEF DebtStep, NoPaymentMethod, RegisterDecline, LinkExpires, AskLink,
                            StoreLink, BlockDriver, UnblockDriver, sessionVars
<1>6. CASE ReversalStep
  BY <1>6, <1>1 DEF ReversalStep, AskReversal, ReversalRefused, RecordReversal, sessionVars
<1>7. CASE PaymentGatewayNext
  BY <1>7, <1>1 DEF PaymentGatewayNext, Take, Decide, PayLink, Reverses, ReversalThrows,
                    billingVars, sessionVars
<1> QED
  BY <1>2, <1>3, <1>4, <1>5, <1>6, <1>7 DEF Next

(* No answer, decline or reversal, however late, takes PAID away, and no   *)
(* session is paid that was not settled.                                   *)
THEOREM PaidStaysPaid == Spec => PaidIsFinal
<1>1. IInv /\ [Next]_vars => [Onward]_vars
  BY StepsAreOnward DEF IInv, RowsInv
<1>2. Spec => [][Onward]_vars
  BY <1>1, BooksAlwaysAgree, PTL DEF Spec
<1> QED
  BY <1>2 DEF PaidIsFinal, Onward

-----------------------------------------------------------------------------
(* A verdict is final                                                      *)

(* A payment whose charge() is awaited is pending, or its verdict came by  *)
(* a webhook, and it is not polled.                                        *)
Awaited ==
  \A p \in Payment :
    /\ callPc[p] = "sent" =>
         pState[p] = "PENDING" \/ \E st \in FinalStatuses : <<p, st>> \in inbox
    /\ polled[p] # "no" => callPc[p] # "sent"

(* A payment that is being given back is known from its answer or from a   *)
(* webhook.                                                                *)
ReversedIsTold ==
  \A r \in Reversal :
    revPc[r] \in {"asked", "answered"} /\ callPc[revFor[r]] = "sent" =>
      \E st \in FinalStatuses : <<revFor[r], st>> \in inbox

Reopened ==
  \A p \in Payment :
    pState[p] \in {"SUCCEEDED", "FAILED", "CANCELLED"} /\ pState'[p] = "PENDING" =>
      pState[p] # "SUCCEEDED" /\ AnsweredLate(p)

(* What a step may do to one payment: leave its row and its calls, end a   *)
(* call or a poll, or bring a verdict.                                     *)
Keeps(p) ==
  /\ pState'[p] = pState[p]
  /\ callPc'[p] \in {callPc[p], "over"}
  /\ polled'[p] \in {polled[p], "no"}

LEMMA OthersKept ==
  ASSUME NEW p \in Payment, Awaited, inbox \subseteq inbox',
         \A q \in Payment \ {p} : Keeps(q),
         callPc'[p] = "sent" =>
           pState'[p] = "PENDING" \/ \E st \in FinalStatuses : <<p, st>> \in inbox',
         polled'[p] # "no" => callPc'[p] # "sent",
         pState[p] \in {"SUCCEEDED", "FAILED", "CANCELLED"} /\ pState'[p] = "PENDING" =>
           pState[p] # "SUCCEEDED" /\ AnsweredLate(p)
  PROVE  Awaited' /\ Reopened
<1>1. ASSUME NEW q \in Payment, q # p
      PROVE  /\ callPc'[q] = "sent" =>
                  pState'[q] = "PENDING" \/ \E st \in FinalStatuses : <<q, st>> \in inbox'
             /\ polled'[q] # "no" => callPc'[q] # "sent"
             /\ pState'[q] = pState[q]
  <2>1. Keeps(q)
    BY <1>1
  <2> QED
    BY <2>1 DEF Keeps, Awaited
<1>2. Awaited'
  BY <1>1 DEF Awaited
<1>3. Reopened
  BY <1>1 DEF Reopened
<1> QED
  BY <1>2, <1>3

LEMMA AllKept ==
  ASSUME Awaited, inbox \subseteq inbox', \A q \in Payment : Keeps(q)
  PROVE  Awaited' /\ Reopened
<1>1. Awaited'
  BY DEF Awaited, Keeps
<1>2. Reopened
  BY DEF Reopened, Keeps
<1> QED
  BY <1>1, <1>2

(* applyOutcome reopens a payment only for a PENDING, and not one that has *)
(* succeeded.                                                              *)
LEMMA OutcomeReopens ==
  ASSUME RowsTypeOK, NEW p \in Payment, NEW st \in PspStatuses, ApplyOutcome(p, st)
  PROVE  /\ pState'[p] = "PENDING" =>
              pState[p] = "PENDING" \/ (st = "PENDING" /\ pState[p] # "SUCCEEDED")
         /\ \A q \in Payment \ {p} : pState'[q] = pState[q]
BY DEF RowsTypeOK, ApplyOutcome, AlreadyApplied, Approve, Decline, VoidPayment, Hold

LEMMA ChargeReopens ==
  ASSUME IInv, Awaited, ChargeStep
  PROVE  Awaited' /\ Reopened
<1>1. RowsTypeOK /\ CallsTypeOK /\ CallsLinked
  BY DEF IInv, RowsInv
<1>2. ASSUME NEW s \in Session, NEW p \in Payment, Charge(s, p) PROVE Awaited' /\ Reopened
  <2>1. \A q \in Payment \ {p} : Keeps(q)
    BY <1>1, <1>2 DEF Charge, RowsTypeOK, CallsTypeOK, Keeps
  <2>2. /\ pState[p] = "ABSENT" /\ pState'[p] = "PENDING" /\ inbox' = inbox
        /\ polled[p] = "no" /\ polled' = polled
    BY <1>1, <1>2 DEF Charge, RowsTypeOK, CallsLinked
  <2> QED
    BY <2>1, <2>2, OthersKept
<1>3. ASSUME NEW p \in Payment, CallEnds(p), \A q \in Payment \ {p} : pState'[q] = pState[q],
             pState'[p] = "PENDING" => pState[p] # "SUCCEEDED"
      PROVE  Awaited' /\ Reopened
  <2>1. \A q \in Payment \ {p} : Keeps(q)
    BY <1>1, <1>3 DEF CallEnds, CallsTypeOK, Keeps
  <2>2. /\ callPc[p] = "sent" /\ callPc'[p] = "over" /\ inbox' = inbox
    BY <1>1, <1>3 DEF CallEnds, CallsTypeOK
  <2>3. pState[p] = "PENDING" \/ \E st \in FinalStatuses : <<p, st>> \in inbox
    BY <2>2 DEF Awaited
  <2>4. pState[p] \in {"SUCCEEDED", "FAILED", "CANCELLED"} /\ pState'[p] = "PENDING" =>
          pState[p] # "SUCCEEDED" /\ AnsweredLate(p)
    BY <1>3, <2>2, <2>3 DEF AnsweredLate
  <2> QED
    BY <2>1, <2>2, <2>4, OthersKept
<1>4. ASSUME NEW p \in Payment, NEW st \in PspStatuses, Answered(p, st)
      PROVE  Awaited' /\ Reopened
  BY <1>1, <1>3, <1>4, OutcomeReopens DEF Answered
<1>5. ASSUME NEW p \in Payment, Refused(p) PROVE Awaited' /\ Reopened
  BY <1>1, <1>3, <1>5 DEF Refused, Decline, RowsTypeOK
<1>6. ASSUME NEW p \in Payment, TechnicalError(p) PROVE Awaited' /\ Reopened
  BY <1>1, <1>3, <1>6 DEF TechnicalError, RowsTypeOK
<1>7. ASSUME NEW p \in Payment, Crash(p) PROVE Awaited' /\ Reopened
  <2>1. CallEnds(p) /\ pState' = pState
    BY <1>7 DEF Crash, paymentVars
  <2> QED
    BY <1>3, <2>1
<1> QED
  BY <1>2, <1>4, <1>5, <1>6, <1>7 DEF ChargeStep

LEMMA EventReopens ==
  ASSUME IInv, Awaited, EventStep
  PROVE  Awaited' /\ Reopened
<1>1. RowsTypeOK /\ CallsTypeOK /\ CallsLinked
  BY DEF IInv, RowsInv
<1>2. ASSUME NEW p \in Payment, NEW st \in FinalStatuses,
             Webhook(p, st) \/ \E s \in Session : LinkWebhook(p, st, s)
      PROVE  Awaited' /\ Reopened
  <2>1. inbox' = inbox \cup {<<p, st>>} /\ callPc' = callPc /\ polled' = polled
    BY <1>2 DEF Webhook, LinkWebhook, callVars
  <2>2. /\ pState'[p] = "PENDING" => pState[p] \in {"ABSENT", "PENDING"}
        /\ \A q \in Payment \ {p} : pState'[q] = pState[q]
    <3>1. CASE Webhook(p, st)
      BY <1>1, <3>1, OutcomeReopens DEF Webhook, PspStatuses, FinalStatuses
    <3>2. CASE \E s \in Session : LinkWebhook(p, st, s)
      BY <1>1, <3>2 DEF LinkWebhook, RowsTypeOK, Approve, Decline, VoidPayment
    <3> QED
      BY <1>2, <3>1, <3>2
  <2>3. \A q \in Payment \ {p} : Keeps(q)
    BY <2>1, <2>2 DEF Keeps
  <2>4. <<p, st>> \in inbox' /\ inbox \subseteq inbox'
    BY <2>1
  <2>5. polled'[p] # "no" => callPc'[p] # "sent"
    BY <2>1 DEF Awaited
  <2> QED
    BY <2>2, <2>3, <2>4, <2>5, OthersKept
<1>3. ASSUME NEW p \in Payment, polled[p] # "no",
             inbox' = inbox, callPc' = callPc, polled' = [polled EXCEPT ![p] = "no"],
             pState'[p] = "PENDING" => pState[p] = "PENDING",
             \A q \in Payment \ {p} : pState'[q] = pState[q]
      PROVE  Awaited' /\ Reopened
  <2>1. \A q \in Payment \ {p} : Keeps(q)
    BY <1>1, <1>3 DEF CallsTypeOK, Keeps
  <2>2. callPc'[p] # "sent"
    BY <1>3 DEF Awaited
  <2> QED
    BY <1>3, <2>1, <2>2, OthersKept
<1>4. ASSUME NEW p \in Payment, NEW st \in FinalStatuses, PollAnswered(p, st)
      PROVE  Awaited' /\ Reopened
  BY <1>1, <1>3, <1>4, OutcomeReopens DEF PollAnswered, PspStatuses, FinalStatuses
<1>5. ASSUME NEW p \in Payment, PollGivesUp(p) \/ PollFails(p) PROVE Awaited' /\ Reopened
  <2>1. /\ polled[p] # "no" /\ inbox' = inbox /\ callPc' = callPc
        /\ polled' = [polled EXCEPT ![p] = "no"]
    BY <1>5 DEF PollGivesUp, PollFails
  <2>2. /\ pState'[p] = "PENDING" => pState[p] = "PENDING"
        /\ \A q \in Payment \ {p} : pState'[q] = pState[q]
    BY <1>1, <1>5 DEF PollGivesUp, PollFails, RowsTypeOK, paymentVars
  <2> QED
    BY <1>3, <2>1, <2>2
<1>6. ASSUME NEW p \in Payment, PollReads(p) PROVE Awaited' /\ Reopened
  <2>1. /\ callPc[p] # "sent" /\ inbox' = inbox /\ callPc' = callPc /\ pState' = pState
        /\ \A q \in Payment \ {p} : polled'[q] = polled[q]
    BY <1>1, <1>6 DEF PollReads, CallsTypeOK, paymentVars
  <2> QED
    BY <2>1, OthersKept DEF Keeps
<1>7. ASSUME NEW p \in Payment, NEW st \in FinalStatuses, UnknownLink(p, st)
      PROVE  Awaited' /\ Reopened
  BY <1>7, AllKept DEF UnknownLink, Keeps, paymentVars, callVars
<1> QED
  BY <1>2, <1>4, <1>5, <1>6, <1>7 DEF EventStep

(* Debts, links and reversals do not touch a call, and a reversal only     *)
(* cancels.                                                                *)
LEMMA OtherStepsReopen ==
  ASSUME IInv, Awaited, ReversedIsTold, DebtStep \/ ReversalStep \/ PaymentGatewayNext
  PROVE  Awaited' /\ Reopened
<1>1. RowsTypeOK /\ CallsLinked /\ Linked
  BY DEF IInv, RowsInv
<1>2. ASSUME UNCHANGED <<paymentVars, inbox, callVars>> PROVE Awaited' /\ Reopened
  BY <1>2, AllKept DEF Keeps, paymentVars, callVars
<1>3. CASE DebtStep
  BY <1>2, <1>3 DEF DebtStep, Settle, Waive, NoPaymentMethod, WaiveDebt, LinkExpires, AskLink,
                    StoreLink, BlockDriver, UnblockDriver
<1>4. ASSUME NEW r \in Reversal, RecordReversal(r) PROVE Awaited' /\ Reopened
  <2>1. inbox' = inbox /\ callPc' = callPc /\ polled' = polled
    BY <1>4 DEF RecordReversal, callVars
  <2>2. PICK p \in Payment : p = revFor[r]
    BY <1>1, <1>4 DEF RecordReversal, Linked
  <2>3. /\ pState'[p] \in {pState[p], "CANCELLED"}
        /\ \A q \in Payment \ {p} : pState'[q] = pState[q]
    BY <1>1, <1>4, <2>2 DEF RecordReversal, RowsTypeOK
  <2>4. callPc[p] = "sent" => \E st \in FinalStatuses : <<p, st>> \in inbox
    BY <1>4, <2>2 DEF RecordReversal, ReversedIsTold
  <2>5. \A q \in Payment \ {p} : Keeps(q)
    BY <2>1, <2>3 DEF Keeps
  <2>6. polled'[p] # "no" => callPc'[p] # "sent"
    BY <2>1 DEF Awaited
  <2> QED
    BY <2>1, <2>3, <2>4, <2>5, <2>6, OthersKept
<1>5. CASE ReversalStep
  BY <1>2, <1>4, <1>5 DEF ReversalStep, AskReversal, ReversalRefused
<1>6. CASE PaymentGatewayNext
  BY <1>2, <1>6 DEF PaymentGatewayNext, Take, Decide, PayLink, Reverses, ReversalThrows,
                    billingVars
<1> QED
  BY <1>3, <1>5, <1>6

(* A charge is sent once, and what is in the inbox stays there.            *)
LEMMA SentOnce ==
  ASSUME CallsTypeOK, Next
  PROVE  /\ inbox \subseteq inbox'
         /\ \A p \in Payment : callPc'[p] = "sent" => callPc[p] = "sent" \/ pState[p] = "ABSENT"
<1>1. CASE ChargeStep
  BY <1>1 DEF ChargeStep, Charge, Answered, Refused, TechnicalError, Crash, CallEnds, CallsTypeOK
<1>2. CASE EventStep
  <2>1. ASSUME NEW p \in Payment, NEW st \in FinalStatuses,
               \/ Webhook(p, st) \/ UnknownLink(p, st) \/ PollAnswered(p, st)
               \/ \E s \in Session : LinkWebhook(p, st, s)
        PROVE  inbox \subseteq inbox' /\ callPc' = callPc
    BY <2>1 DEF Webhook, UnknownLink, PollAnswered, LinkWebhook, callVars
  <2>2. ASSUME NEW p \in Payment, PollReads(p) \/ PollGivesUp(p) \/ PollFails(p)
        PROVE  inbox' = inbox /\ callPc' = callPc
    BY <2>2 DEF PollReads, PollGivesUp, PollFails
  <2>3. inbox \subseteq inbox' /\ callPc' = callPc
    BY <1>2, <2>1, <2>2 DEF EventStep
  <2> QED
    BY <2>3
<1>3. CASE DebtStep
  BY <1>3 DEF DebtStep, Settle, Waive, NoPaymentMethod, WaiveDebt, LinkExpires, AskLink,
              StoreLink, BlockDriver, UnblockDriver, callVars
<1>4. CASE ReversalStep
  BY <1>4 DEF ReversalStep, AskReversal, RecordReversal, ReversalRefused, callVars
<1>5. CASE PaymentGatewayNext
  BY <1>5 DEF PaymentGatewayNext, Take, Decide, PayLink, Reverses, ReversalThrows, billingVars,
              callVars
<1> QED
  BY <1>1, <1>2, <1>3, <1>4, <1>5 DEF Next

LEMMA ReversedStaysTold ==
  ASSUME IInv, Awaited, ReversedIsTold, Next
  PROVE  ReversedIsTold'
<1>1. CallsTypeOK /\ Linked
  BY DEF IInv, RowsInv
<1>2. ASSUME NEW r \in Reversal, revPc[r] \in {"asked", "answered"}, revFor'[r] = revFor[r],
             callPc'[revFor'[r]] = "sent"
      PROVE  \E st \in FinalStatuses : <<revFor'[r], st>> \in inbox'
  <2>1. PICK p \in Payment : p = revFor[r]
    BY <1>1, <1>2 DEF Linked
  <2>2. callPc[p] = "sent"
    BY <1>1, <1>2, <2>1, SentOnce DEF Linked
  <2>3. \E st \in FinalStatuses : <<p, st>> \in inbox
    BY <1>2, <2>1, <2>2 DEF ReversedIsTold
  <2> QED
    BY <1>1, <1>2, <2>1, <2>3, SentOnce
<1>3. ASSUME \A r \in Reversal : revPc'[r] \in {"asked", "answered"} =>
               revPc[r] \in {"asked", "answered"} /\ revFor'[r] = revFor[r]
      PROVE  ReversedIsTold'
  BY <1>2, <1>3 DEF ReversedIsTold
<1>4. ASSUME NEW r \in Reversal, NEW p \in Payment, AskReversal(r, p) PROVE ReversedIsTold'
  <2>1. /\ revFor'[r] = p /\ callPc' = callPc /\ inbox' = inbox /\ pState[p] = "SUCCEEDED"
        /\ \A q \in Reversal \ {r} : revPc'[q] = revPc[q] /\ revFor'[q] = revFor[q]
    BY <1>1, <1>4 DEF AskReversal, CallsTypeOK, callVars
  <2>2. callPc[p] = "sent" => \E st \in FinalStatuses : <<p, st>> \in inbox
    BY <2>1 DEF Awaited
  <2> QED
    BY <2>1, <2>2 DEF ReversedIsTold
<1>5. CASE ChargeStep
  BY <1>3, <1>5 DEF ChargeStep, Charge, Answered, Refused, TechnicalError, Crash, CallEnds,
                    reversalVars
<1>6. CASE EventStep
  <2>1. ASSUME NEW p \in Payment, NEW st \in FinalStatuses,
               \/ Webhook(p, st) \/ UnknownLink(p, st) \/ PollAnswered(p, st)
               \/ \E s \in Session : LinkWebhook(p, st, s)
        PROVE  UNCHANGED reversalVars
    BY <2>1 DEF Webhook, UnknownLink, PollAnswered, LinkWebhook
  <2>2. ASSUME NEW p \in Payment, PollReads(p) \/ PollGivesUp(p) \/ PollFails(p)
        PROVE  UNCHANGED reversalVars
    BY <2>2 DEF PollReads, PollGivesUp, PollFails
  <2>3. UNCHANGED reversalVars
    BY <1>6, <2>1, <2>2 DEF EventStep
  <2> QED
    BY <1>3, <2>3 DEF reversalVars
<1>7. CASE DebtStep
  BY <1>3, <1>7 DEF DebtStep, Settle, Waive, NoPaymentMethod, WaiveDebt, LinkExpires, AskLink,
                    StoreLink, BlockDriver, UnblockDriver, reversalVars
<1>8. CASE ReversalStep
  <2>1. ASSUME NEW r \in Reversal, RecordReversal(r) \/ ReversalRefused(r)
        PROVE  ReversedIsTold'
    BY <1>1, <1>3, <2>1 DEF RecordReversal, ReversalRefused, CallsTypeOK
  <2> QED
    BY <1>4, <1>8, <2>1 DEF ReversalStep
<1>9. CASE PaymentGatewayNext
  <2>1. ASSUME NEW p \in Payment, Take(p) \/ Decide(p) \/ \E l \in Link : PayLink(p, l)
        PROVE  ReversedIsTold'
    BY <1>3, <2>1 DEF Take, Decide, PayLink, reversalVars
  <2>2. ASSUME NEW r \in Reversal, NEW kind, NEW status, Reverses(r, kind, status)
        PROVE  ReversedIsTold'
    BY <1>1, <1>3, <2>2 DEF Reverses, CallsTypeOK
  <2>3. ASSUME NEW r \in Reversal, ReversalThrows(r) PROVE ReversedIsTold'
    BY <1>1, <1>3, <2>3 DEF ReversalThrows, CallsTypeOK
  <2> QED
    BY <1>9, <2>1, <2>2, <2>3 DEF PaymentGatewayNext
<1> QED
  BY <1>5, <1>6, <1>7, <1>8, <1>9 DEF Next

VInv == Awaited /\ ReversedIsTold

LEMMA StepReopens == ASSUME IInv, VInv, [Next]_vars PROVE VInv' /\ [Reopened]_vars
<1> USE DEF VInv
<1>1. CASE Next
  <2>1. Awaited' /\ Reopened
    BY <1>1, ChargeReopens, EventReopens, OtherStepsReopen DEF Next
  <2> QED
    BY <1>1, <2>1, ReversedStaysTold
<1>2. CASE UNCHANGED vars
  BY <1>2 DEF vars, Awaited, ReversedIsTold, paymentVars, callVars, reversalVars
<1> QED
  BY <1>1, <1>2

(* Whatever fails, dies or overtakes: a payment that the provider has      *)
(* decided becomes pending again only by the answer to its own charge()    *)
(* that a webhook overtook, and never if it has succeeded.                 *)
THEOREM VerdictsStay == Spec => VerdictIsFinal
<1>1. Init => IInv /\ VInv
  BY IInvInit DEF Init, RowsInit, CallsInit, VInv, Awaited, ReversedIsTold
<1>2. IInv /\ VInv /\ [Next]_vars => (IInv /\ VInv)' /\ [Reopened]_vars
  BY IInvStep, StepReopens
<1>3. Spec => [][Reopened]_vars
  BY <1>1, <1>2, PTL DEF Spec
<1> QED
  BY <1>3 DEF VerdictIsFinal, Reopened

-----------------------------------------------------------------------------
(* What holds of Billing while calls do not fail, webhooks do not overtake *)
(* answers, no debt is waived under a charge and nobody pays at a link: a  *)
(* session takes money once.  Each of the four is needed: the README says  *)
(* what goes wrong without it.                                             *)

Quiet == ~MayFail /\ ~MayOvertake /\ ~WaiveDuringCharge /\ Link = {}

-----------------------------------------------------------------------------
(* The inductive invariant                                                 *)

(* A session waits for one payment, and one that waits has been asked of   *)
(* the provider, or is being.                                              *)
OnePending ==
  /\ \A p \in Payment : pState[p] = "PENDING" => sPay[pSession[p]] = "AUTHORIZED"
  /\ \A p, q \in Payment :
       pState[p] = "PENDING" /\ pState[q] = "PENDING" /\ pSession[p] = pSession[q] => p = q
  /\ \A p \in Payment : callPc[p] = "sent" => pState[p] = "PENDING"
  /\ \A p \in Payment : pState[p] = "PENDING" /\ callPc[p] # "sent" => p \in pRef
  /\ \A p \in Payment : polled[p] # "silent" /\ (polled[p] = "asked" => callPc[p] # "sent")

(* The row of a payment that is decided tells what the provider decided.   *)
Verdicts ==
  /\ \A p \in Payment : pState[p] = "ABSENT" => psp[p] = "none"
  /\ \A p \in Payment : pState[p] = "FAILED" =>
       psp[p] = "none" \/ (psp[p] \in {"DECLINED", "ERROR"} /\ pPsp[p] = psp[p])
  /\ \A p \in Payment : pState[p] = "CANCELLED" => psp[p] = "VOIDED"
  /\ \A r \in Reversal :
       revPc[r] = "answered" /\ revKind[r] = "VOID" /\ revStatus[r] = "SUCCEEDED" =>
         psp[revFor[r]] = "VOIDED"

(* One payment of a session has the provider's money.                      *)
OneSuccess ==
  \A p, q \in Payment :
    /\ pState[p] = "SUCCEEDED" /\ psp[p] = "APPROVED"
    /\ pState[q] = "SUCCEEDED" /\ psp[q] = "APPROVED"
    /\ pSession[p] = pSession[q]
    => p = q

(* Sessions too small to charge have no payments and no debts.             *)
MinorFree ==
  /\ \A p \in Payment : pState[p] # "ABSENT" => pSession[p] \notin Minor
  /\ \A s \in Minor : dState[s] = "ABSENT"

QInv == OnePending /\ Verdicts /\ OneSuccess /\ MinorFree /\ PaidSessionOwesNothing

LEMMA QInvInit == Init => QInv
BY DEF Init, RowsInit, CallsInit, QInv, OnePending, Verdicts, OneSuccess, MinorFree,
       PaidSessionOwesNothing

-----------------------------------------------------------------------------
(* Every step keeps it                                                     *)

(* A session that has a pending payment is not paid, and none of its       *)
(* payments has succeeded.                                                 *)
LEMMA PendingIsUnpaid ==
  ASSUME RowsInv, QInv, NEW p \in Payment, pState[p] = "PENDING"
  PROVE  /\ pSession[p] \in Session /\ sState[pSession[p]] = "SETTLED"
         /\ \A q \in Payment : pSession[q] = pSession[p] => pState[q] # "SUCCEEDED"
BY DEF RowsInv, QInv, OnePending, Linked, Settled, BooksAgree

(* The conditions under which the provider's answer, event or report st    *)
(* about p is applied.                                                     *)
Told(p, st) ==
  /\ pState[p] # "ABSENT"
  /\ \/ st \in Reports(p)
     \/ st = "PENDING" /\ pState[p] = "PENDING"
  /\ callPc'[p] # "sent" /\ (\A q \in Payment : q # p => callPc'[q] = callPc[q])
  /\ \A q \in Payment : polled'[q] \in {"no", polled[q]}
  /\ UNCHANGED <<pspVars, reversalVars>>

LEMMA QuietApprove ==
  ASSUME RowsInv, QInv, NEW p \in Payment, Told(p, "APPROVED"), pState[p] # "SUCCEEDED",
         Approve(p, pSession[p]), UNCHANGED pSession
  PROVE  QInv'
<1> USE DEF Told, Approve, pspVars, reversalVars
<1> DEFINE s == pSession[p]
<1>1. /\ RowsTypeOK /\ s \in Session
      /\ psp[p] \in {"APPROVED", "VOIDED"}
      /\ sState[s] \in {"SETTLED", "PAID"}
      /\ pState[p] \in {"PENDING", "CANCELLED"}
      /\ pState[p] = "CANCELLED" => psp[p] = "VOIDED" /\ sState[s] = "PAID"
  BY DEF RowsInv, RowsTypeOK, Linked, Settled, Approved, QInv, Verdicts, Reports, FinalStatuses
<1>2. ASSUME NEW q \in Payment, q # p, pSession[q] = s
      PROVE  /\ pState[q] # "PENDING"
             /\ pState[q] = "SUCCEEDED" => psp[p] = "VOIDED"
  BY <1>1, <1>2, PendingIsUnpaid DEF QInv, OnePending
<1>3. OnePending'
  BY <1>1, <1>2 DEF RowsTypeOK, QInv, OnePending
<1>4. Verdicts'
  BY <1>1 DEF RowsTypeOK, QInv, Verdicts
<1>5. OneSuccess'
  BY <1>1, <1>2 DEF RowsTypeOK, QInv, OneSuccess
<1>6. MinorFree' /\ PaidSessionOwesNothing'
  BY <1>1 DEF RowsTypeOK, QInv, MinorFree, PaidSessionOwesNothing
<1> QED
  BY <1>3, <1>4, <1>5, <1>6 DEF QInv

LEMMA QuietDecline ==
  ASSUME RowsInv, QInv, NEW p \in Payment, NEW st \in {"DECLINED", "ERROR"},
         NEW refs \in SUBSET Payment, pState[p] = "PENDING",
         psp[p] \in {"none", st},
         Told(p, st) \/ Told(p, "PENDING"),
         Decline(p, pSession[p], st, refs), UNCHANGED pSession
  PROVE  QInv'
<1> USE DEF Told, Decline, RegisterDecline, pspVars, reversalVars
<1> DEFINE s == pSession[p]
<1>1. RowsTypeOK /\ s \in Session /\ sState[s] = "SETTLED"
  BY PendingIsUnpaid DEF RowsInv
<1>2. \A q \in Payment : q # p /\ pSession[q] = s => pState[q] # "PENDING"
  BY DEF QInv, OnePending
<1>3. OnePending'
  BY <1>1, <1>2 DEF RowsTypeOK, QInv, OnePending
<1>4. Verdicts'
  BY <1>1 DEF RowsTypeOK, QInv, Verdicts
<1>5. OneSuccess'
  BY <1>1 DEF RowsTypeOK, QInv, OneSuccess
<1>6. MinorFree' /\ PaidSessionOwesNothing'
  BY <1>1 DEF RowsTypeOK, QInv, MinorFree, PaidSessionOwesNothing
<1> QED
  BY <1>3, <1>4, <1>5, <1>6 DEF QInv

LEMMA QuietVoid ==
  ASSUME RowsInv, QInv, NEW p \in Payment, Told(p, "VOIDED"),
         VoidPayment(p, pSession[p]), UNCHANGED pSession
  PROVE  QInv'
<1> USE DEF Told, VoidPayment, pspVars, reversalVars, debtVars
<1> DEFINE s == pSession[p]
<1>1. /\ RowsTypeOK /\ s \in Session
      /\ psp[p] = "VOIDED" /\ sState[s] = "PAID"
  BY DEF RowsInv, Linked, Approved, Reports, FinalStatuses
<1>2. \A q \in Payment : pSession[q] = s => pState[q] # "PENDING"
  BY <1>1, PendingIsUnpaid
<1>3. OnePending'
  BY <1>1, <1>2 DEF RowsTypeOK, QInv, OnePending
<1>4. Verdicts'
  BY <1>1 DEF RowsTypeOK, QInv, Verdicts
<1>5. OneSuccess'
  BY <1>1 DEF RowsTypeOK, QInv, OneSuccess
<1>6. MinorFree' /\ PaidSessionOwesNothing'
  BY <1>1 DEF RowsTypeOK, QInv, MinorFree, PaidSessionOwesNothing
<1> QED
  BY <1>3, <1>4, <1>5, <1>6 DEF QInv

LEMMA QuietHold ==
  ASSUME RowsInv, QInv, NEW p \in Payment, Told(p, "PENDING"), pState[p] = "PENDING",
         Hold(p), UNCHANGED pSession
  PROVE  QInv'
<1> USE DEF Told, Hold, pspVars, reversalVars, debtVars, sessionVars
<1>1. RowsTypeOK /\ pState' = pState
  BY DEF RowsInv, RowsTypeOK
<1>2. OnePending'
  BY <1>1 DEF QInv, OnePending
<1>3. Verdicts' /\ OneSuccess'
  BY <1>1 DEF RowsTypeOK, QInv, Verdicts, OneSuccess
<1>4. MinorFree' /\ PaidSessionOwesNothing'
  BY <1>1 DEF QInv, MinorFree, PaidSessionOwesNothing
<1> QED
  BY <1>2, <1>3, <1>4 DEF QInv

(* A verdict is applied to a payment that is pending, or is known already, *)
(* or is a void.                                                           *)
LEMMA QuietOutcome ==
  ASSUME RowsInv, QInv, NEW p \in Payment, NEW st \in PspStatuses,
         ApplyOutcome(p, st), Told(p, st)
  PROVE  QInv'
<1> USE DEF ApplyOutcome
<1>1. RowsTypeOK
  BY DEF RowsInv
<1>2. CASE AlreadyApplied(p, st) /\ UNCHANGED <<pState, pPsp, pRef, sessionVars, debtVars>>
  <2>1. pState[p] # "PENDING"
    BY <1>2 DEF AlreadyApplied
  <2> QED
    BY <1>2, <2>1 DEF Told, QInv, OnePending, Verdicts, OneSuccess, MinorFree,
       PaidSessionOwesNothing, pspVars, reversalVars, debtVars, sessionVars
<1>3. CASE ~AlreadyApplied(p, st) /\ st = "APPROVED" /\ Approve(p, pSession[p])
  BY <1>1, <1>3, QuietApprove DEF AlreadyApplied, Approve, RowsTypeOK
<1>4. CASE ~AlreadyApplied(p, st) /\ st \in {"DECLINED", "ERROR"}
           /\ Decline(p, pSession[p], st, {p})
  <2>1. psp[p] = st
    BY <1>4 DEF Told, Reports
  <2>2. pState[p] = "PENDING"
    BY <1>1, <1>4, <2>1 DEF AlreadyApplied, Told, RowsInv, RowsTypeOK, Approved, QInv, Verdicts
  <2> QED
    BY <1>1, <1>4, <2>1, <2>2, QuietDecline
<1>5. CASE ~AlreadyApplied(p, st) /\ st = "VOIDED" /\ VoidPayment(p, pSession[p])
  BY <1>1, <1>5, QuietVoid DEF VoidPayment, RowsTypeOK
<1>6. CASE ~AlreadyApplied(p, st) /\ st = "PENDING" /\ Hold(p)
  <2>1. pState[p] = "PENDING"
    BY <1>6 DEF Told, Reports, FinalStatuses
  <2> QED
    BY <1>6, <2>1, QuietHold
<1> QED
  BY <1>2, <1>3, <1>4, <1>5, <1>6

LEMMA QuietCharge ==
  ASSUME Quiet, IInv, QInv, ChargeStep
  PROVE  QInv'
<1>1. RowsInv /\ RowsTypeOK /\ CallsTypeOK
  BY DEF IInv, RowsInv
<1>2. ASSUME NEW s \in Session, NEW p \in Payment, Charge(s, p) PROVE QInv'
  <2> USE DEF Charge, Chargeable, debtVars, pspVars, reversalVars
  <2>1. \A q \in Payment : q # p => pState'[q] = pState[q] /\ pSession'[q] = pSession[q]
                                    /\ callPc'[q] = callPc[q]
    BY <1>1, <1>2 DEF RowsTypeOK, CallsTypeOK
  <2>2. /\ pState'[p] = "PENDING" /\ pSession'[p] = s /\ callPc'[p] = "sent"
        /\ sPay'[s] = "AUTHORIZED" /\ \A x \in Session : x # s => sPay'[x] = sPay[x]
        /\ pPsp' = [pPsp EXCEPT ![p] = "PENDING"]
        /\ psp[p] = "none" /\ polled[p] = "no"
        /\ \A q \in Payment : pState[q] = "PENDING" => pSession[q] \in Session /\ pSession[q] # s
    BY <1>1, <1>2 DEF RowsInv, RowsTypeOK, CallsTypeOK, QInv, OnePending, IInv, CallsLinked, Linked
  <2>3. OnePending'
    BY <1>2, <2>1, <2>2 DEF QInv, OnePending
  <2>4. Verdicts' /\ OneSuccess'
    BY <1>1, <1>2, <2>1, <2>2 DEF RowsTypeOK, QInv, Verdicts, OneSuccess
  <2>5. MinorFree' /\ PaidSessionOwesNothing'
    BY <1>2, <2>1, <2>2 DEF QInv, MinorFree, PaidSessionOwesNothing
  <2> QED
    BY <2>3, <2>4, <2>5 DEF QInv
<1>3. ASSUME NEW p \in Payment, CallEnds(p)
      PROVE  /\ pState[p] = "PENDING"
             /\ \A st : st = "PENDING" \/ st \in Reports(p) => Told(p, st)
  BY <1>1, <1>3 DEF CallEnds, Told, CallsTypeOK, QInv, OnePending
<1>4. ASSUME NEW p \in Payment, NEW st \in PspStatuses, Answered(p, st) PROVE QInv'
  <2>1. Told(p, st) /\ pState[p] = "PENDING"
    BY <1>3, <1>4 DEF Answered
  <2>2. QInv'
    BY <1>1, <1>4, <2>1, QuietOutcome DEF Answered
  <2> QED
    BY <2>2
<1>5. ASSUME NEW p \in Payment, Refused(p) PROVE QInv'
  <2>1. Told(p, "PENDING") /\ pState[p] = "PENDING"
    BY <1>3, <1>5 DEF Refused
  <2>2. QInv'
    BY <1>1, <1>5, <2>1, QuietDecline DEF Refused
  <2> QED
    BY <2>2
<1> QED
  BY <1>2, <1>4, <1>5 DEF ChargeStep, TechnicalError, Crash, Quiet

LEMMA QuietEvent ==
  ASSUME Quiet, IInv, QInv, EventStep
  PROVE  QInv'
<1>1. RowsInv /\ RowsTypeOK /\ CallsTypeOK /\ CallsLinked
  BY DEF IInv, RowsInv
<1>2. ASSUME NEW p \in Payment, NEW st \in FinalStatuses, Told(p, st), ApplyOutcome(p, st)
      PROVE  QInv'
  BY <1>1, <1>2, QuietOutcome DEF PspStatuses
<1>3. ASSUME NEW p \in Payment, NEW st \in FinalStatuses, Webhook(p, st) PROVE QInv'
  <2>1. Told(p, st)
    BY <1>3 DEF Webhook, Told, Quiet, callVars
  <2> QED
    BY <1>2, <1>3, <2>1 DEF Webhook
<1>4. ASSUME NEW p \in Payment, NEW st \in FinalStatuses, PollAnswered(p, st)
      PROVE  QInv'
  <2>1. Told(p, st)
    BY <1>1, <1>4 DEF PollAnswered, Told, CallsLinked, CallsTypeOK, QInv, OnePending
  <2> QED
    BY <1>2, <1>4, <2>1 DEF PollAnswered
<1>5. ASSUME NEW p \in Payment, PollReads(p) \/ PollFails(p) PROVE QInv'
  <2>1. /\ \A q \in Payment : polled'[q] = polled[q] \/ polled'[q] = "no"
                              \/ (polled'[q] = "asked" /\ callPc[q] # "sent")
        /\ UNCHANGED <<sessionVars, paymentVars, dState, callPc, reversalVars, pspVars>>
    BY <1>1, <1>5 DEF PollReads, PollFails, CallsTypeOK, QInv, OnePending, debtVars
  <2> QED
    BY <1>1, <2>1 DEF QInv, OnePending, Verdicts, OneSuccess, MinorFree, PaidSessionOwesNothing,
       sessionVars, paymentVars, reversalVars, pspVars
<1>6. ASSUME NEW p \in Payment, NEW st \in FinalStatuses, NEW s \in Session,
             UnknownLink(p, st) \/ LinkWebhook(p, st, s) \/ PollGivesUp(p)
      PROVE  FALSE
  BY <1>6 DEF UnknownLink, LinkWebhook, PollGivesUp, QInv, Verdicts, OnePending, Reports,
              FinalStatuses
<1>7. ASSUME NEW p \in Payment, NEW st \in FinalStatuses, UnknownLink(p, st) \/ PollGivesUp(p)
      PROVE  FALSE
  BY <1>7 DEF UnknownLink, PollGivesUp, QInv, Verdicts, OnePending, Reports, FinalStatuses
<1> QED
  BY <1>3, <1>4, <1>5, <1>6, <1>7 DEF EventStep, FinalStatuses

LEMMA QuietDebt ==
  ASSUME Quiet, IInv, QInv, DebtStep
  PROVE  QInv'
<1>1. RowsInv /\ RowsTypeOK /\ Linked /\ Settled
  BY DEF IInv, RowsInv
<1>2. ASSUME UNCHANGED <<sessionVars, paymentVars, dState, callVars, reversalVars, pspVars>>
      PROVE  QInv'
  BY <1>2 DEF QInv, OnePending, Verdicts, OneSuccess, MinorFree, PaidSessionOwesNothing,
              sessionVars, paymentVars, callVars, reversalVars, pspVars
<1>3. ASSUME NEW s \in Session, UNCHANGED <<paymentVars, callVars, reversalVars, pspVars>>,
             \A x \in Session \ {s} :
               sState'[x] = sState[x] /\ sPay'[x] = sPay[x] /\ dState'[x] = dState[x],
             sPay[s] # "AUTHORIZED",
             sState'[s] = "PAID" => dState'[s] # "OPEN",
             s \in Minor => dState'[s] = "ABSENT"
      PROVE  QInv'
  <2>1. OnePending'
    BY <1>1, <1>3 DEF QInv, OnePending, Linked, paymentVars, callVars
  <2>2. Verdicts' /\ OneSuccess'
    BY <1>3 DEF QInv, Verdicts, OneSuccess, paymentVars, reversalVars, pspVars
  <2>3. MinorFree' /\ PaidSessionOwesNothing'
    BY <1>3 DEF QInv, MinorFree, PaidSessionOwesNothing, paymentVars
  <2> QED
    BY <2>1, <2>2, <2>3 DEF QInv
<1>4. ASSUME NEW s \in Session, Settle(s) \/ Waive(s) PROVE QInv'
  <2>1. sPay[s] # "AUTHORIZED" /\ (sState'[s] = "PAID" => dState[s] # "OPEN")
    BY <1>1, <1>4 DEF Settle, Waive, Chargeable, WaiveSession, RowsTypeOK, Settled, QInv, MinorFree
  <2> QED
    BY <1>1, <1>3, <1>4, <2>1 DEF Settle, Waive, WaiveSession, RowsTypeOK, debtVars, QInv,
                                  MinorFree
<1>5. ASSUME NEW s \in Session, NoPaymentMethod(s) PROVE QInv'
  BY <1>1, <1>3, <1>5 DEF NoPaymentMethod, Chargeable, RegisterDecline, RowsTypeOK
<1>6. ASSUME NEW s \in Session, WaiveDebt(s) PROVE QInv'
  <2>1. /\ sPay[s] # "AUTHORIZED" /\ dState[s] = "OPEN"
        /\ dState' = [dState EXCEPT ![s] = "WAIVED"]
        /\ s \notin Minor
    BY <1>6 DEF WaiveDebt, Quiet, QInv, MinorFree
  <2>2. \A x \in Session \ {s} : sState'[x] = sState[x] /\ sPay'[x] = sPay[x]
    BY <1>1, <1>6 DEF WaiveDebt, WaiveSession, RowsTypeOK, sessionVars
  <2> QED
    BY <1>1, <1>3, <1>6, <2>1, <2>2 DEF WaiveDebt, RowsTypeOK
<1> QED
  BY <1>2, <1>4, <1>5, <1>6 DEF DebtStep, LinkExpires, AskLink, StoreLink, BlockDriver,
                                UnblockDriver, debtVars, Quiet

LEMMA QuietReversal ==
  ASSUME Quiet, IInv, QInv, ReversalStep
  PROVE  QInv'
<1>1. RowsInv /\ RowsTypeOK /\ Linked /\ Settled /\ CallsTypeOK
  BY DEF IInv, RowsInv
<1>2. ASSUME UNCHANGED <<sessionVars, paymentVars, debtVars, callVars, pspVars>>, Verdicts'
      PROVE  QInv'
  BY <1>2 DEF QInv, OnePending, OneSuccess, MinorFree, PaidSessionOwesNothing,
              sessionVars, paymentVars, debtVars, callVars, pspVars
<1>3. ASSUME NEW r \in Reversal, NEW p \in Payment, AskReversal(r, p) PROVE QInv'
  <2>1. Verdicts'
    BY <1>1, <1>3 DEF AskReversal, QInv, Verdicts, CallsTypeOK, paymentVars, pspVars
  <2> QED
    BY <1>2, <1>3, <2>1 DEF AskReversal
<1>4. ASSUME NEW r \in Reversal, ReversalRefused(r) PROVE QInv'
  <2>1. Verdicts'
    BY <1>1, <1>4 DEF ReversalRefused, QInv, Verdicts, CallsTypeOK, paymentVars, pspVars
  <2> QED
    BY <1>2, <1>4, <2>1 DEF ReversalRefused
<1>5. ASSUME NEW r \in Reversal, RecordReversal(r) PROVE QInv'
  <2> DEFINE p == revFor[r]
  <2> USE DEF RecordReversal, debtVars, callVars, pspVars
  <2>1. /\ p \in Payment /\ pSession[p] \in Session /\ sState[pSession[p]] = "PAID"
        /\ pState[p] # "ABSENT"
    BY <1>1, <1>5 DEF Linked
  <2>2. \A q \in Payment : pSession[q] = pSession[p] => pState[q] # "PENDING"
    BY <1>1, <2>1, PendingIsUnpaid
  <2>3. \/ UNCHANGED <<pState, pPsp>>
        \/ /\ psp[p] = "VOIDED"
           /\ pState' = [pState EXCEPT ![p] = "CANCELLED"]
           /\ pPsp' = [pPsp EXCEPT ![p] = "VOIDED"]
    BY <1>5 DEF QInv, Verdicts
  <2>4. /\ UNCHANGED <<sState, pSession, pRef, dState, callPc, polled, psp>>
        /\ \A x \in Session : x # pSession[p] => sPay'[x] = sPay[x]
    BY <1>1, <1>5 DEF RowsTypeOK
  <2>5. OnePending'
    BY <1>1, <2>1, <2>2, <2>3, <2>4 DEF RowsTypeOK, QInv, OnePending, Linked
  <2>6. Verdicts'
    <3>1. \A x \in Reversal : revPc'[x] = "answered" => revPc[x] = "answered"
      BY <1>1, <1>5 DEF CallsTypeOK
    <3> QED
      BY <1>1, <1>5, <2>1, <2>3, <2>4, <3>1 DEF RowsTypeOK, QInv, Verdicts
  <2>7. OneSuccess' /\ MinorFree' /\ PaidSessionOwesNothing'
    BY <1>1, <2>1, <2>3, <2>4 DEF RowsTypeOK, QInv, OneSuccess, MinorFree, PaidSessionOwesNothing
  <2> QED
    BY <2>5, <2>6, <2>7 DEF QInv
<1> QED
  BY <1>3, <1>4, <1>5 DEF ReversalStep

LEMMA QuietGateway ==
  ASSUME Quiet, IInv, QInv, PaymentGatewayNext
  PROVE  QInv'
<1>1. RowsInv /\ Approved /\ CallsTypeOK /\ Linked
  BY DEF IInv, RowsInv
<1>2. ASSUME UNCHANGED billingVars, Verdicts',
             \A p \in Payment : psp'[p] = "APPROVED" /\ psp[p] # "APPROVED" => psp[p] = "PENDING"
      PROVE  QInv'
  <2> USE DEF billingVars, sessionVars, paymentVars, debtVars, callVars
  <2>1. OneSuccess'
    BY <1>1, <1>2 DEF QInv, OneSuccess, Approved
  <2> QED
    BY <1>2, <2>1 DEF QInv, OnePending, MinorFree, PaidSessionOwesNothing
<1>3. ASSUME NEW p \in Payment, Take(p) \/ Decide(p) PROVE QInv'
  <2> USE DEF Take, Decide, reversalVars
  <2>1. pState[p] \notin {"ABSENT", "FAILED", "CANCELLED"}
    BY <1>3 DEF QInv, OnePending, Verdicts
  <2>2. UNCHANGED <<pState, pPsp, revPc, revKind, revStatus, revFor>>
    BY <1>3 DEF billingVars, paymentVars
  <2>3. /\ \A q \in Payment : q # p => psp'[q] = psp[q]
        /\ psp[p] # "VOIDED"
    BY <1>1, <1>3 DEF CallsTypeOK
  <2>4. Verdicts'
    BY <1>1, <2>1, <2>2, <2>3 DEF QInv, Verdicts, Linked
  <2>5. \A q \in Payment : psp'[q] = "APPROVED" /\ psp[q] # "APPROVED" => psp[q] = "PENDING"
    BY <1>1, <1>3 DEF CallsTypeOK
  <2> QED
    BY <1>2, <1>3, <2>4, <2>5
<1>4. ASSUME NEW r \in Reversal, ReversalThrows(r) PROVE QInv'
  <2>1. Verdicts'
    BY <1>1, <1>4 DEF ReversalThrows, CallsTypeOK, QInv, Verdicts, billingVars, paymentVars, pspVars
  <2> QED
    BY <1>2, <1>4, <2>1 DEF ReversalThrows, pspVars
<1>5. ASSUME NEW r \in Reversal, NEW kind, NEW status, Reverses(r, kind, status)
      PROVE  QInv'
  <2>1. revFor[r] \in Payment /\ UNCHANGED billingVars
    BY <1>1, <1>5 DEF Reverses, Linked
  <2>2. Verdicts'
    BY <1>1, <1>5, <2>1 DEF Reverses, CallsTypeOK, QInv, Verdicts, Linked, billingVars, paymentVars
  <2>3. \A q \in Payment : psp'[q] = "APPROVED" /\ psp[q] # "APPROVED" => psp[q] = "PENDING"
    BY <1>1, <1>5, <2>1 DEF Reverses, CallsTypeOK
  <2> QED
    BY <1>2, <2>1, <2>2, <2>3
<1> QED
  BY <1>3, <1>4, <1>5 DEF PaymentGatewayNext, Quiet

-----------------------------------------------------------------------------
(* The theorems                                                            *)

LEMMA QuietStep == ASSUME Quiet, IInv, QInv, [Next]_vars PROVE QInv'
<1>1. CASE Next
  BY <1>1, QuietCharge, QuietEvent, QuietDebt, QuietReversal, QuietGateway DEF Next
<1>2. CASE UNCHANGED vars
  BY <1>2 DEF QInv, OnePending, Verdicts, OneSuccess, MinorFree, PaidSessionOwesNothing, vars,
     sessionVars, paymentVars, debtVars, callVars, reversalVars, pspVars
<1> QED
  BY <1>1, <1>2

LEMMA QuietInvariant == ASSUME Quiet PROVE Spec => [](IInv /\ QInv)
<1>1. Init => IInv /\ QInv
  BY IInvInit, QInvInit
<1>2. IInv /\ QInv /\ [Next]_vars => (IInv /\ QInv)'
  BY IInvStep, QuietStep
<1> QED
  BY <1>1, <1>2, PTL DEF Spec

(* Two payments of one session never both take money.                      *)
THEOREM MoneyIsTakenOnce == ASSUME Quiet PROVE Spec => []CapturedOnce
<1>1. IInv /\ QInv => CapturedOnce
  <2> SUFFICES ASSUME IInv, QInv, NEW s \in Session,
                      NEW p \in PaymentsOf(s), NEW q \in PaymentsOf(s),
                      psp[p] = "APPROVED", psp[q] = "APPROVED"
               PROVE  p = q
    BY DEF CapturedOnce
  <2>1. /\ p \in Payment /\ q \in Payment /\ pSession[p] = s /\ pSession[q] = s
        /\ pState[p] \in {"PENDING", "SUCCEEDED"} /\ pState[q] \in {"PENDING", "SUCCEEDED"}
    BY DEF PaymentsOf, IInv, RowsInv, RowsTypeOK, QInv, Verdicts
  <2>2. pState[p] = pState[q]
    BY <2>1, PendingIsUnpaid DEF IInv
  <2> QED
    BY <2>1, <2>2 DEF QInv, OnePending, OneSuccess
<1> QED
  BY <1>1, QuietInvariant, PTL

(* A session that has been paid or waived leaves no debt behind.           *)
THEOREM PaidLeavesNoDebt == ASSUME Quiet PROVE Spec => []PaidSessionOwesNothing
<1>1. QInv => PaidSessionOwesNothing
  BY DEF QInv
<1> QED
  BY <1>1, QuietInvariant, PTL

-----------------------------------------------------------------------------
(* The ledger                                                              *)

(* Nothing is charged or owed for a courtesy session, and a reversal has   *)
(* no outcome before the provider answered it.                             *)
CourtesyFree ==
  \A s \in Courtesy :
    /\ sState[s] \in {"ENDED", "SETTLED"}
    /\ sState[s] = "SETTLED" => sPay[s] = "WAIVED"
    /\ dState[s] = "ABSENT"
    /\ \A p \in Payment : pState[p] # "ABSENT" => pSession[p] # s

Unanswered == \A r \in Reversal : revPc[r] \in {"idle", "asked"} => revKind[r] = None

LInv == CourtesyFree /\ Unanswered

LEMMA LInvInit == Init => LInv
BY DEF Init, RowsInit, CallsInit, LInv, CourtesyFree, Unanswered

(* News of a payment is of its session, which is nobody's courtesy.        *)
LEMMA CourtesyOutcome ==
  ASSUME RowsInv, CourtesyFree, NEW p \in Payment, pState[p] # "ABSENT", UNCHANGED pSession,
         NEW st, \/ ApplyOutcome(p, st)
                 \/ Decline(p, pSession[p], st, {})
  PROVE  CourtesyFree'
<1>1. RowsTypeOK /\ pSession[p] \in Session /\ pSession[p] \notin Courtesy
  BY DEF RowsInv, Linked, CourtesyFree
<1>2. \A q \in Payment : pState'[q] # "ABSENT" => pState[q] # "ABSENT"
  BY <1>1 DEF RowsTypeOK, ApplyOutcome, Approve, Decline, VoidPayment, Hold
<1>3. \A x \in Session : x # pSession[p] =>
        sState'[x] = sState[x] /\ sPay'[x] = sPay[x] /\ dState'[x] = dState[x]
  BY <1>1 DEF RowsTypeOK, ApplyOutcome, Approve, Decline, RegisterDecline, VoidPayment, Hold,
              sessionVars, debtVars
<1> QED
  BY <1>1, <1>2, <1>3 DEF CourtesyFree

LEMMA CourtesySame ==
  ASSUME CourtesyFree, UNCHANGED <<sState, dState, pSession>>,
         \A p \in Payment : pState[p] = "ABSENT" => pState'[p] = "ABSENT",
         \A s \in Courtesy : sPay'[s] = sPay[s]
  PROVE  CourtesyFree'
BY DEF CourtesyFree

LEMMA CourtesyCharge ==
  ASSUME IInv, CourtesyFree, ChargeStep
  PROVE  CourtesyFree'
<1>1. RowsInv /\ RowsTypeOK /\ CallsLinked /\ Linked
  BY DEF IInv, RowsInv
<1>2. ASSUME NEW s \in Session, NEW p \in Payment, Charge(s, p) PROVE CourtesyFree'
  <2>1. s \notin Courtesy
    BY <1>2 DEF Charge, Chargeable, CourtesyFree
  <2> QED
    BY <1>1, <1>2, <2>1 DEF Charge, debtVars, CourtesyFree, RowsTypeOK
<1>3. ASSUME NEW p \in Payment, CallEnds(p)
      PROVE  pState[p] # "ABSENT" /\ pSession[p] \in Session /\ pSession[p] \notin Courtesy
  BY <1>1, <1>3 DEF CallEnds, CallsLinked, Linked, CourtesyFree
<1>4. ASSUME NEW p \in Payment, NEW st \in PspStatuses, Answered(p, st) PROVE CourtesyFree'
  <2>1. UNCHANGED pSession /\ ApplyOutcome(p, st) /\ CallEnds(p)
    BY <1>4 DEF Answered, ApplyOutcome
  <2> QED
    BY <1>1, <1>3, <2>1, CourtesyOutcome
<1>5. ASSUME NEW p \in Payment, Refused(p) PROVE CourtesyFree'
  <2>1. UNCHANGED pSession /\ Decline(p, pSession[p], "DECLINED", {}) /\ CallEnds(p)
    BY <1>5 DEF Refused
  <2> QED
    BY <1>1, <1>3, <2>1, CourtesyOutcome
<1>6. ASSUME NEW p \in Payment, TechnicalError(p) PROVE CourtesyFree'
  <2>1. pState[p] # "ABSENT" /\ pSession[p] \in Session /\ pSession[p] \notin Courtesy
    BY <1>3, <1>6 DEF TechnicalError
  <2> QED
    BY <1>1, <1>6, <2>1, CourtesySame DEF TechnicalError, RowsTypeOK, debtVars
<1>7. ASSUME NEW p \in Payment, Crash(p) PROVE CourtesyFree'
  BY <1>7, CourtesySame DEF Crash, sessionVars, paymentVars, debtVars
<1> QED
  BY <1>2, <1>4, <1>5, <1>6, <1>7 DEF ChargeStep

LEMMA CourtesyEvent ==
  ASSUME IInv, CourtesyFree, EventStep
  PROVE  CourtesyFree'
<1>1. RowsInv /\ RowsTypeOK /\ CallsLinked /\ Linked
  BY DEF IInv, RowsInv
<1>2. ASSUME NEW p \in Payment, NEW st \in FinalStatuses, Webhook(p, st) PROVE CourtesyFree'
  <2>1. pState[p] # "ABSENT" /\ UNCHANGED pSession /\ ApplyOutcome(p, st)
    BY <1>2 DEF Webhook, ApplyOutcome
  <2> QED
    BY <1>1, <2>1, CourtesyOutcome
<1>3. ASSUME NEW p \in Payment, NEW st \in FinalStatuses, PollAnswered(p, st) PROVE CourtesyFree'
  <2>1. pState[p] # "ABSENT" /\ UNCHANGED pSession /\ ApplyOutcome(p, st)
    BY <1>1, <1>3 DEF PollAnswered, ApplyOutcome, CallsLinked
  <2> QED
    BY <1>1, <2>1, CourtesyOutcome
<1>4. ASSUME NEW p \in Payment, NEW st \in FinalStatuses, NEW s \in Session, LinkWebhook(p, st, s)
      PROVE  CourtesyFree'
  <2>1. s \notin Courtesy
    BY <1>4 DEF LinkWebhook, CourtesyFree
  <2>2. /\ \A q \in Payment : q # p => pState'[q] = pState[q] /\ pSession'[q] = pSession[q]
        /\ pSession'[p] = s
    BY <1>1, <1>4 DEF LinkWebhook, RowsTypeOK, Approve, Decline, VoidPayment
  <2>3. \A x \in Session : x # s =>
          sState'[x] = sState[x] /\ sPay'[x] = sPay[x] /\ dState'[x] = dState[x]
    BY <1>1, <1>4 DEF LinkWebhook, RowsTypeOK, Approve, Decline, RegisterDecline, VoidPayment, debtVars
  <2> QED
    BY <2>1, <2>2, <2>3 DEF CourtesyFree
<1>5. ASSUME NEW p \in Payment, PollGivesUp(p) PROVE CourtesyFree'
  <2>1. pState[p] # "ABSENT" /\ pSession[p] \in Session /\ pSession[p] \notin Courtesy
    BY <1>1, <1>5 DEF PollGivesUp, CallsLinked, Linked, CourtesyFree
  <2> QED
    BY <1>1, <1>5, <2>1, CourtesySame DEF PollGivesUp, RowsTypeOK, debtVars
<1>6. ASSUME NEW p \in Payment, PollReads(p) \/ PollFails(p) PROVE CourtesyFree'
  BY <1>6, CourtesySame DEF PollReads, PollFails, sessionVars, paymentVars, debtVars
<1>7. ASSUME NEW p \in Payment, NEW st \in FinalStatuses, UnknownLink(p, st) PROVE CourtesyFree'
  BY <1>7, CourtesySame DEF UnknownLink, sessionVars, paymentVars, debtVars
<1> QED
  BY <1>2, <1>3, <1>4, <1>5, <1>6, <1>7 DEF EventStep

LEMMA CourtesyDebt ==
  ASSUME IInv, CourtesyFree, DebtStep
  PROVE  CourtesyFree'
<1>1. RowsTypeOK
  BY DEF IInv, RowsInv
<1>2. ASSUME NEW s \in Session, Settle(s) PROVE CourtesyFree'
  BY <1>1, <1>2 DEF Settle, RowsTypeOK, CourtesyFree, debtVars, paymentVars
<1>3. ASSUME NEW s \in Session, Waive(s) \/ NoPaymentMethod(s) \/ WaiveDebt(s) PROVE CourtesyFree'
  <2>1. s \notin Courtesy
    BY <1>3 DEF Waive, NoPaymentMethod, WaiveDebt, Chargeable, CourtesyFree
  <2>2. UNCHANGED <<pState, pSession>>
    BY <1>3 DEF Waive, NoPaymentMethod, WaiveDebt, paymentVars
  <2>3. \A x \in Session : x # s =>
          sState'[x] = sState[x] /\ sPay'[x] = sPay[x] /\ dState'[x] = dState[x]
    BY <1>1, <1>3 DEF Waive, NoPaymentMethod, WaiveDebt, WaiveSession, RegisterDecline, RowsTypeOK,
                      debtVars, sessionVars
  <2> QED
    BY <2>1, <2>2, <2>3 DEF CourtesyFree
<1>4. ASSUME UNCHANGED <<sessionVars, paymentVars, dState>> PROVE CourtesyFree'
  BY <1>4, CourtesySame DEF sessionVars, paymentVars
<1> QED
  BY <1>2, <1>3, <1>4 DEF DebtStep, LinkExpires, AskLink, StoreLink, BlockDriver, UnblockDriver,
                          debtVars

LEMMA LInvStep == ASSUME IInv, LInv, [Next]_vars PROVE LInv'
<1>1. RowsInv /\ RowsTypeOK /\ Linked /\ CallsTypeOK
  BY DEF IInv, RowsInv
<1>2. CourtesyFree'
  <2>1. CASE ReversalStep
    <3>1. ASSUME NEW r \in Reversal, RecordReversal(r) PROVE CourtesyFree'
      <4>1. /\ revFor[r] \in Payment /\ pState[revFor[r]] # "ABSENT"
            /\ pSession[revFor[r]] \in Session /\ pSession[revFor[r]] \notin Courtesy
        BY <1>1, <3>1 DEF RecordReversal, Linked, LInv, CourtesyFree
      <4> QED
        BY <1>1, <3>1, <4>1, CourtesySame DEF RecordReversal, RowsTypeOK, LInv, debtVars
    <3> QED
      BY <2>1, <3>1, CourtesySame DEF ReversalStep, AskReversal, ReversalRefused, LInv, sessionVars,
                                      paymentVars, debtVars
  <2>2. CASE PaymentGatewayNext
    BY <2>2, CourtesySame DEF PaymentGatewayNext, Take, Decide, PayLink, Reverses, ReversalThrows,
                              LInv, billingVars, sessionVars, paymentVars, debtVars
  <2>3. CASE UNCHANGED vars
    BY <2>3, CourtesySame DEF LInv, vars, sessionVars, paymentVars, debtVars
  <2> QED
    BY <2>1, <2>2, <2>3, CourtesyCharge, CourtesyEvent, CourtesyDebt DEF LInv, Next
<1>3. Unanswered'
  <2>1. ASSUME UNCHANGED reversalVars PROVE Unanswered'
    BY <2>1 DEF LInv, Unanswered, reversalVars
  <2>2. ASSUME NEW r \in Reversal,
               \/ \E p \in Payment : AskReversal(r, p)
               \/ RecordReversal(r) \/ ReversalRefused(r) \/ ReversalThrows(r)
               \/ \E kind, status : Reverses(r, kind, status)
        PROVE  Unanswered'
    BY <1>1, <2>2 DEF LInv, Unanswered, CallsTypeOK, AskReversal, RecordReversal, ReversalRefused,
                      ReversalThrows, Reverses
  <2>3. ChargeStep => UNCHANGED reversalVars
    BY DEF ChargeStep, Charge, Answered, Refused, TechnicalError, Crash, CallEnds
  <2>4. EventStep => UNCHANGED reversalVars
    <3>1. ASSUME NEW p \in Payment, PollReads(p) \/ PollGivesUp(p) \/ PollFails(p)
          PROVE  UNCHANGED reversalVars
      BY <3>1 DEF PollReads, PollGivesUp, PollFails
    <3>2. ASSUME NEW p \in Payment, NEW st \in FinalStatuses,
                 \/ Webhook(p, st) \/ UnknownLink(p, st) \/ PollAnswered(p, st)
                 \/ \E s \in Session : LinkWebhook(p, st, s)
          PROVE  UNCHANGED reversalVars
      BY <3>2 DEF Webhook, UnknownLink, PollAnswered, LinkWebhook
    <3> QED
      BY <3>1, <3>2 DEF EventStep
  <2>5. DebtStep => UNCHANGED reversalVars
    BY DEF DebtStep, Settle, Waive, NoPaymentMethod, WaiveDebt, LinkExpires, AskLink, StoreLink,
           BlockDriver, UnblockDriver
  <2>6. (\E p \in Payment : Take(p) \/ Decide(p) \/ \E l \in Link : PayLink(p, l))
          => UNCHANGED reversalVars
    BY DEF Take, Decide, PayLink
  <2>7. UNCHANGED vars => UNCHANGED reversalVars
    BY DEF vars
  <2> QED
    BY <2>1, <2>2, <2>3, <2>4, <2>5, <2>6, <2>7 DEF Next, ReversalStep, PaymentGatewayNext
<1> QED
  BY <1>2, <1>3 DEF LInv

-----------------------------------------------------------------------------
(* What the mapping sees of a step                                         *)

HasMoney(p) == pState[p] # "ABSENT" /\ psp[p] \in {"APPROVED", "VOIDED"}

BillOf == [s \in Session |-> Bill(s)]
TakenOf == [s \in Session |-> Taken(s)]
OwedOf == {s \in Session : dState[s] = "OPEN"}

(* The money a step moves is none.                                         *)
SameMoney ==
  \A p \in Payment :
    /\ HasMoney(p)' = HasMoney(p)
    /\ HasMoney(p) => pSession'[p] = pSession[p]

LEMMA SameTaken == ASSUME SameMoney PROVE \A s \in Session : Taken(s)' = Taken(s)
<1>1. \A s \in Session : Taken(s) = {p \in Payment : HasMoney(p) /\ pSession[p] = s}
  BY DEF Taken, PaymentsOf, HasMoney
<1>2. \A s \in Session : Taken(s)' = {p \in Payment : HasMoney(p)' /\ pSession'[p] = s}
  BY DEF Taken, PaymentsOf, HasMoney
<1>3. \A s \in Session :
        {p \in Payment : HasMoney(p)' /\ pSession'[p] = s}
          = {p \in Payment : HasMoney(p) /\ pSession[p] = s}
  BY DEF SameMoney
<1> QED
  BY <1>1, <1>2, <1>3

LEMMA SameBill ==
  ASSUME NEW s \in Session, sState'[s] = sState[s], Taken(s)' = Taken(s)
  PROVE  Bill(s)' = Bill(s)
<1>1. Bill(s)' = CASE sState'[s] = "ENDED" -> "OPEN"
                   [] sState'[s] = "SETTLED" -> IF s \in Courtesy THEN "FORGIVEN" ELSE "DUE"
                   [] sState'[s] = "PAID" -> IF Taken(s)' = {} THEN "FORGIVEN" ELSE "PAID"
  BY Zenon DEF Bill
<1> QED
  BY <1>1 DEF Bill

(* A step that changes none of this does nothing to the ledger.            *)
LEMMA SameBooks ==
  ASSUME \A s \in Session : sState'[s] = sState[s] /\ (dState'[s] = "OPEN" <=> dState[s] = "OPEN"),
         SameMoney, Returned' = Returned
  PROVE  UNCHANGED Books!vars
<1>1. TakenOf' = TakenOf
  BY SameTaken DEF TakenOf
<1>2. BillOf' = BillOf
  BY SameTaken, SameBill DEF BillOf
<1>3. OwedOf' = OwedOf
  BY DEF OwedOf
<1> QED
  BY <1>1, <1>2, <1>3 DEF Books!vars, BillOf, TakenOf, OwedOf

(* A step may move the bill of one session only.                           *)
LEMMA OneBill ==
  ASSUME NEW s \in Session, \A x \in Session \ {s} : sState'[x] = sState[x], SameMoney
  PROVE  /\ BillOf' = [BillOf EXCEPT ![s] = Bill(s)']
         /\ TakenOf' = TakenOf
<1>1. TakenOf' = TakenOf
  BY SameTaken DEF TakenOf
<1>2. \A x \in Session \ {s} : Bill(x)' = Bill(x)
  BY SameTaken, SameBill
<1> QED
  BY <1>1, <1>2 DEF BillOf

(* Nothing has been taken for a session that waits for no payment.         *)
LEMMA UnpaidMoney ==
  ASSUME IInv, QInv, NEW p \in Payment, HasMoney(p), sState[pSession[p]] = "SETTLED"
  PROVE  pState[p] = "PENDING" /\ psp[p] = "APPROVED" /\ sPay[pSession[p]] = "AUTHORIZED"
BY DEF HasMoney, IInv, RowsInv, RowsTypeOK, Linked, Approved, BooksAgree, QInv, OnePending, Verdicts

LEMMA NothingTaken ==
  ASSUME IInv, QInv, NEW s \in Session, sState[s] = "SETTLED", sPay[s] # "AUTHORIZED"
  PROVE  Taken(s) = {}
BY UnpaidMoney DEF Taken, PaymentsOf, HasMoney

-----------------------------------------------------------------------------
(* What happens to one session is a step of the ledger                     *)

LEMMA OweBooks ==
  ASSUME NEW s \in Session, sState[s] = "SETTLED", s \notin Courtesy, Taken(s) = {},
         UNCHANGED sState, SameMoney, Returned' = Returned,
         dState' = [dState EXCEPT ![s] = "OPEN"], DOMAIN dState = Session
  PROVE  Books!Owe(s)
<1>1. BillOf' = BillOf /\ TakenOf' = TakenOf
  BY SameTaken, SameBill DEF BillOf, TakenOf
<1>2. OwedOf' = OwedOf \cup {s}
  BY DEF OwedOf
<1>3. Bill(s) = "DUE"
  BY DEF Bill
<1> QED
  BY <1>1, <1>2, <1>3 DEF Books!Owe, Books!Uncollected, BillOf, TakenOf, OwedOf

(* The session becomes PAID: with money, or without.                       *)
LEMMA PaidBooks ==
  ASSUME NEW s \in Session, sState[s] = "SETTLED", s \notin Courtesy,
         DOMAIN sState = Session, sState' = [sState EXCEPT ![s] = "PAID"],
         SameMoney, Returned' = Returned,
         dState'[s] # "OPEN", \A x \in Session \ {s} : dState'[x] = dState[x]
  PROVE  Books!Close(s) \/ Books!Forgive(s)
<1>1. /\ BillOf' = [BillOf EXCEPT ![s] = Bill(s)'] /\ TakenOf' = TakenOf
      /\ Taken(s)' = Taken(s)
  BY OneBill, SameTaken
<1>2. OwedOf' = OwedOf \ {s}
  BY DEF OwedOf
<1>3. Bill(s) = "DUE"
  BY DEF Bill
<1>4. Bill(s)' = IF Taken(s)' = {} THEN "FORGIVEN" ELSE "PAID"
  <2>1. sState'[s] = "PAID"
    OBVIOUS
  <2> QED
    BY <2>1 DEF Bill
<1>5. CASE Taken(s) = {}
  BY <1>1, <1>2, <1>3, <1>4, <1>5 DEF Books!Forgive, Books!Uncollected, BillOf, TakenOf, OwedOf
<1>6. CASE Taken(s) # {}
  BY <1>1, <1>2, <1>3, <1>4, <1>6 DEF Books!Close, BillOf, TakenOf, OwedOf
<1> QED
  BY <1>5, <1>6

LEMMA PriceBooks ==
  ASSUME RowsTypeOK, NEW s \in Session, Settle(s)
  PROVE  Books!Price(s)
<1>1. /\ sState[s] = "ENDED" /\ sState' = [sState EXCEPT ![s] = "SETTLED"]
      /\ DOMAIN sState = Session
      /\ UNCHANGED <<paymentVars, dState, reversalVars, pspVars>>
  BY DEF Settle, RowsTypeOK, debtVars
<1>2. SameMoney /\ Returned' = Returned /\ OwedOf' = OwedOf
  BY <1>1 DEF SameMoney, HasMoney, Returned, OwedOf, paymentVars, pspVars, reversalVars
<1>3. BillOf' = [BillOf EXCEPT ![s] = Bill(s)'] /\ TakenOf' = TakenOf
  BY <1>1, <1>2, OneBill
<1>4. Bill(s) = "OPEN"
  BY <1>1 DEF Bill
<1>5. Bill(s)' = IF s \in Courtesy THEN "FORGIVEN" ELSE "DUE"
  <2>1. sState'[s] = "SETTLED"
    BY <1>1
  <2> QED
    BY <2>1 DEF Bill
<1> QED
  BY <1>2, <1>3, <1>4, <1>5 DEF Books!Price, BillOf, TakenOf, OwedOf

-----------------------------------------------------------------------------
(* Every step of Billing                                                   *)

(* News of a payment closes its session, makes a debt of it or is nothing  *)
(* new.                                                                    *)
LEMMA DeclineBooks ==
  ASSUME IInv, QInv, LInv, NEW p \in Payment, pState[p] = "PENDING",
         psp[p] \notin {"APPROVED", "VOIDED"}, NEW st, NEW refs,
         Decline(p, pSession[p], st, refs), UNCHANGED <<pSession, pspVars, reversalVars>>
  PROVE  [Books!Next]_(Books!vars)
<1> PICK s \in Session : s = pSession[p]
  BY DEF IInv, RowsInv, Linked
<1>1. RowsTypeOK /\ sState[s] = "SETTLED" /\ s \notin Courtesy
  BY PendingIsUnpaid DEF IInv, RowsInv, LInv, CourtesyFree
<1>2. SameMoney /\ Returned' = Returned /\ UNCHANGED sState
  BY <1>1 DEF SameMoney, HasMoney, Returned, Decline, RegisterDecline, RowsTypeOK, pspVars,
              reversalVars
<1>3. dState' = [dState EXCEPT ![s] = "OPEN"] /\ DOMAIN dState = Session
  BY <1>1 DEF Decline, RegisterDecline, RowsTypeOK
<1>4. Taken(s) = {}
  <2>1. \A q \in Payment : HasMoney(q) /\ pSession[q] = s => q = p
    BY <1>1, UnpaidMoney DEF QInv, OnePending
  <2> QED
    BY <2>1 DEF Taken, PaymentsOf, HasMoney
<1>5. Books!Owe(s)
  BY <1>1, <1>2, <1>3, <1>4, OweBooks
<1> QED
  BY <1>5 DEF Books!Next

LEMMA ApproveBooks ==
  ASSUME IInv, QInv, LInv, NEW p \in Payment, pState[p] # "ABSENT", HasMoney(p),
         Approve(p, pSession[p]), UNCHANGED <<pSession, pspVars, reversalVars>>
  PROVE  [Books!Next]_(Books!vars)
<1> PICK s \in Session : s = pSession[p]
  BY DEF IInv, RowsInv, Linked
<1>1. /\ RowsTypeOK /\ sState[s] \in {"SETTLED", "PAID"} /\ s \notin Courtesy
      /\ sState[s] = "PAID" => dState[s] # "OPEN"
  BY DEF IInv, RowsInv, Linked, Settled, LInv, CourtesyFree, QInv, PaidSessionOwesNothing
<1>2. SameMoney /\ Returned' = Returned
  BY <1>1 DEF SameMoney, HasMoney, Returned, Approve, RowsTypeOK, pspVars, reversalVars
<1>3. /\ dState'[s] # "OPEN"
      /\ \A x \in Session \ {s} : dState'[x] = dState[x]
  BY <1>1 DEF Approve, RowsTypeOK
<1>4. CASE sState[s] = "SETTLED"
  <2>1. sState' = [sState EXCEPT ![s] = "PAID"] /\ DOMAIN sState = Session
    BY <1>1, <1>4 DEF Approve, RowsTypeOK
  <2>2. Books!Close(s) \/ Books!Forgive(s)
    BY <1>1, <1>2, <1>3, <1>4, <2>1, PaidBooks
  <2> QED
    BY <2>2 DEF Books!Next
<1>5. CASE sState[s] = "PAID"
  <2>1. \A x \in Session : sState'[x] = sState[x] /\ (dState'[x] = "OPEN" <=> dState[x] = "OPEN")
    BY <1>1, <1>3, <1>5 DEF Approve, RowsTypeOK
  <2> QED
    BY <1>2, <2>1, SameBooks
<1> QED
  BY <1>1, <1>4, <1>5

LEMMA OutcomeBooks ==
  ASSUME IInv, QInv, LInv, NEW p \in Payment, NEW st \in PspStatuses,
         ApplyOutcome(p, st), Told(p, st)
  PROVE  [Books!Next]_(Books!vars)
<1>1. /\ RowsTypeOK /\ pSession[p] \in Session /\ pState[p] # "ABSENT"
      /\ UNCHANGED <<pSession, pspVars, reversalVars>>
  BY DEF Told, IInv, RowsInv, Linked, ApplyOutcome, pspVars, reversalVars
<1>2. ASSUME UNCHANGED <<sState, debtVars>>,
             \A q \in Payment : pState'[q] = "ABSENT" <=> pState[q] = "ABSENT"
      PROVE  UNCHANGED Books!vars
  <2>1. SameMoney /\ Returned' = Returned
    BY <1>1, <1>2 DEF SameMoney, HasMoney, Returned, pspVars, reversalVars
  <2> QED
    BY <1>2, <2>1, SameBooks DEF debtVars
<1>3. CASE AlreadyApplied(p, st) /\ UNCHANGED <<pState, pPsp, pRef, sessionVars, debtVars>>
  BY <1>2, <1>3 DEF sessionVars
<1>4. CASE ~AlreadyApplied(p, st) /\ st = "APPROVED" /\ Approve(p, pSession[p])
  <2>1. HasMoney(p)
    BY <1>1, <1>4 DEF HasMoney, Told, Reports, FinalStatuses
  <2> QED
    BY <1>1, <1>4, <2>1, ApproveBooks
<1>5. CASE ~AlreadyApplied(p, st) /\ st \in {"DECLINED", "ERROR"}
           /\ Decline(p, pSession[p], st, {p})
  <2>1. psp[p] = st
    BY <1>5 DEF Told, Reports
  <2>2. pState[p] = "PENDING"
    BY <1>1, <1>5, <2>1 DEF AlreadyApplied, IInv, RowsInv, RowsTypeOK, Approved, QInv, Verdicts
  <2> QED
    BY <1>1, <1>5, <2>1, <2>2, DeclineBooks
<1>6. CASE ~AlreadyApplied(p, st) /\ st = "VOIDED" /\ VoidPayment(p, pSession[p])
  BY <1>1, <1>2, <1>6 DEF VoidPayment, RowsTypeOK
<1>7. CASE ~AlreadyApplied(p, st) /\ st = "PENDING" /\ Hold(p)
  BY <1>1, <1>2, <1>7 DEF Hold, RowsTypeOK, sessionVars
<1> QED
  BY <1>3, <1>4, <1>5, <1>6, <1>7 DEF ApplyOutcome

LEMMA ChargeBooks ==
  ASSUME Quiet, IInv, QInv, LInv, ChargeStep
  PROVE  [Books!Next]_(Books!vars)
<1>1. RowsInv /\ RowsTypeOK /\ CallsTypeOK /\ Linked
  BY DEF IInv, RowsInv
<1>2. ASSUME NEW s \in Session, NEW p \in Payment, Charge(s, p) PROVE UNCHANGED Books!vars
  <2>1. SameMoney /\ Returned' = Returned
    BY <1>1, <1>2 DEF Charge, SameMoney, HasMoney, Returned, RowsTypeOK, pspVars, reversalVars
  <2> QED
    BY <1>2, <2>1, SameBooks DEF Charge, debtVars
<1>3. ASSUME NEW p \in Payment, CallEnds(p)
      PROVE  /\ pState[p] = "PENDING" /\ UNCHANGED <<pspVars, reversalVars>>
             /\ \A st : st = "PENDING" \/ st \in Reports(p) => Told(p, st)
  BY <1>1, <1>3 DEF CallEnds, Told, CallsTypeOK, QInv, OnePending
<1>4. ASSUME NEW p \in Payment, NEW st \in PspStatuses, Answered(p, st)
      PROVE  [Books!Next]_(Books!vars)
  <2>1. Told(p, st) /\ ApplyOutcome(p, st)
    BY <1>3, <1>4 DEF Answered
  <2> QED
    BY <2>1, OutcomeBooks
<1>5. ASSUME NEW p \in Payment, Refused(p) PROVE [Books!Next]_(Books!vars)
  <2>1. /\ CallEnds(p) /\ psp[p] = "none" /\ UNCHANGED pSession
        /\ Decline(p, pSession[p], "DECLINED", {})
    BY <1>5 DEF Refused
  <2>2. pState[p] = "PENDING" /\ UNCHANGED <<pspVars, reversalVars>>
    BY <1>3, <2>1
  <2> QED
    BY <2>1, <2>2, DeclineBooks
<1> QED
  BY <1>2, <1>4, <1>5 DEF ChargeStep, TechnicalError, Crash, Quiet

LEMMA EventBooks ==
  ASSUME Quiet, IInv, QInv, LInv, EventStep
  PROVE  [Books!Next]_(Books!vars)
<1>1. RowsInv /\ RowsTypeOK /\ CallsTypeOK /\ CallsLinked
  BY DEF IInv, RowsInv
<1>2. ASSUME NEW p \in Payment, NEW st \in FinalStatuses, Webhook(p, st) \/ PollAnswered(p, st)
      PROVE  [Books!Next]_(Books!vars)
  <2>1. Told(p, st) /\ ApplyOutcome(p, st)
    BY <1>1, <1>2 DEF Webhook, PollAnswered, Told, Quiet, callVars, CallsLinked, CallsTypeOK, QInv,
                      OnePending
  <2> QED
    BY <2>1, OutcomeBooks DEF PspStatuses
<1>3. ASSUME NEW p \in Payment, PollReads(p) \/ PollFails(p) PROVE UNCHANGED Books!vars
  <2>1. UNCHANGED <<sessionVars, paymentVars, debtVars, pspVars, reversalVars>>
    BY <1>3 DEF PollReads, PollFails
  <2>2. SameMoney /\ Returned' = Returned
    BY <2>1 DEF SameMoney, HasMoney, Returned, paymentVars, pspVars, reversalVars
  <2> QED
    BY <2>1, <2>2, SameBooks DEF sessionVars, debtVars
<1>4. ASSUME NEW p \in Payment, NEW st \in FinalStatuses,
             \/ UnknownLink(p, st) \/ PollGivesUp(p)
             \/ \E s \in Session : LinkWebhook(p, st, s)
      PROVE  FALSE
  BY <1>4 DEF UnknownLink, LinkWebhook, PollGivesUp, QInv, Verdicts, OnePending, Reports,
              FinalStatuses
<1> QED
  BY <1>2, <1>3, <1>4 DEF EventStep, FinalStatuses

LEMMA DebtBooks ==
  ASSUME Quiet, IInv, QInv, LInv, DebtStep
  PROVE  [Books!Next]_(Books!vars)
<1>1. RowsTypeOK /\ Linked /\ Settled
  BY DEF IInv, RowsInv
<1>2. ASSUME UNCHANGED <<paymentVars, reversalVars, pspVars>>
      PROVE  SameMoney /\ Returned' = Returned
  BY <1>2 DEF SameMoney, HasMoney, Returned, paymentVars, pspVars, reversalVars
<1>3. ASSUME NEW s \in Session, Settle(s) PROVE Books!Next
  BY <1>1, <1>3, PriceBooks DEF Books!Next
<1>4. ASSUME NEW s \in Session, Chargeable(s)
      PROVE  sState[s] = "SETTLED" /\ s \notin Courtesy /\ Taken(s) = {}
  BY <1>4, NothingTaken DEF Chargeable, LInv, CourtesyFree
<1>5. ASSUME NEW s \in Session, NoPaymentMethod(s) PROVE Books!Next
  <2>1. Books!Owe(s)
    BY <1>1, <1>2, <1>4, <1>5, OweBooks DEF NoPaymentMethod, RegisterDecline, RowsTypeOK
  <2> QED
    BY <2>1 DEF Books!Next
<1>6. ASSUME NEW s \in Session, Waive(s) PROVE Books!Next
  <2>1. /\ sState' = [sState EXCEPT ![s] = "PAID"] /\ DOMAIN sState = Session
        /\ dState' = dState /\ dState[s] # "OPEN"
        /\ SameMoney /\ Returned' = Returned
    BY <1>1, <1>2, <1>6 DEF Waive, WaiveSession, RowsTypeOK, QInv, MinorFree, debtVars
  <2>2. Books!Close(s) \/ Books!Forgive(s)
    BY <1>4, <1>6, <2>1, PaidBooks DEF Waive
  <2> QED
    BY <2>2 DEF Books!Next
<1>7. ASSUME NEW s \in Session, WaiveDebt(s) PROVE Books!Next
  <2>1. sState[s] = "SETTLED" /\ s \notin Courtesy
    BY <1>1, <1>7 DEF WaiveDebt, Settled, QInv, PaidSessionOwesNothing, LInv, CourtesyFree
  <2>2. /\ sState' = [sState EXCEPT ![s] = "PAID"] /\ DOMAIN sState = Session
        /\ dState' = [dState EXCEPT ![s] = "WAIVED"]
        /\ SameMoney /\ Returned' = Returned
    BY <1>1, <1>2, <1>7, <2>1 DEF WaiveDebt, WaiveSession, RowsTypeOK
  <2>3. Books!Close(s) \/ Books!Forgive(s)
    BY <1>1, <2>1, <2>2, PaidBooks DEF RowsTypeOK
  <2> QED
    BY <2>3 DEF Books!Next
<1>8. ASSUME UNCHANGED <<sessionVars, paymentVars, dState, reversalVars, pspVars>>
      PROVE  UNCHANGED Books!vars
  BY <1>2, <1>8, SameBooks DEF sessionVars
<1> QED
  BY <1>3, <1>5, <1>6, <1>7, <1>8 DEF DebtStep, LinkExpires, AskLink, StoreLink, BlockDriver,
                                      UnblockDriver, debtVars

LEMMA ReversalBooks ==
  ASSUME Quiet, IInv, QInv, LInv, ReversalStep
  PROVE  UNCHANGED Books!vars
<1>1. RowsTypeOK /\ Linked /\ CallsTypeOK
  BY DEF IInv, RowsInv
<1>2. ASSUME UNCHANGED <<sState, pSession, dState, psp>>, Returned' = Returned,
             \A p \in Payment : pState'[p] = "ABSENT" <=> pState[p] = "ABSENT"
      PROVE  UNCHANGED Books!vars
  BY <1>2, SameBooks DEF SameMoney, HasMoney
<1>3. ASSUME NEW r \in Reversal, NEW p \in Payment, AskReversal(r, p) PROVE UNCHANGED Books!vars
  <2>1. \A q \in Payment :
          (\E x \in Reversal : revFor'[x] = q /\ revKind[x] = "REFUND" /\ revStatus[x] = "SUCCEEDED")
          <=> (\E x \in Reversal : revFor[x] = q /\ revKind[x] = "REFUND" /\ revStatus[x] = "SUCCEEDED")
    BY <1>1, <1>3 DEF AskReversal, LInv, Unanswered, CallsTypeOK
  <2>2. Returned' = Returned
    BY <1>3, <2>1 DEF AskReversal, Returned, pspVars
  <2> QED
    BY <1>2, <1>3, <2>2 DEF AskReversal, sessionVars, paymentVars, debtVars, pspVars
<1>4. ASSUME NEW r \in Reversal, RecordReversal(r) PROVE UNCHANGED Books!vars
  <2>1. Returned' = Returned
    BY <1>4 DEF RecordReversal, Returned, pspVars
  <2>2. \A p \in Payment : pState'[p] = "ABSENT" <=> pState[p] = "ABSENT"
    BY <1>1, <1>4 DEF RecordReversal, Linked, RowsTypeOK
  <2> QED
    BY <1>2, <1>4, <2>1, <2>2 DEF RecordReversal, debtVars, pspVars
<1>5. ASSUME NEW r \in Reversal, ReversalRefused(r) PROVE UNCHANGED Books!vars
  BY <1>2, <1>5 DEF ReversalRefused, Returned, sessionVars, paymentVars, debtVars, pspVars
<1> QED
  BY <1>3, <1>4, <1>5 DEF ReversalStep

(* The provider takes the money of a payment that is pending: of a session *)
(* that has not paid.                                                      *)
LEMMA DecideBooks ==
  ASSUME IInv, QInv, LInv, NEW p \in Payment, Decide(p)
  PROVE  [Books!Next]_(Books!vars)
<1>1. /\ RowsTypeOK /\ CallsTypeOK
      /\ UNCHANGED <<sState, pState, pSession, dState, revFor, revKind, revStatus>>
  BY DEF IInv, RowsInv, Decide, billingVars, sessionVars, paymentVars, debtVars, reversalVars
<1>2. pState[p] = "PENDING" /\ psp[p] = "PENDING"
  BY <1>1 DEF Decide, IInv, RowsInv, RowsTypeOK, Approved, QInv, Verdicts
<1>3. /\ \A q \in Payment \ {p} : psp'[q] = psp[q]
      /\ psp'[p] \in {"APPROVED", "DECLINED", "ERROR"}
  BY <1>1 DEF Decide, CallsTypeOK
<1>4. Returned' = Returned
  BY <1>1, <1>2, <1>3 DEF Returned
<1>5. CASE psp'[p] # "APPROVED"
  <2>1. SameMoney
    BY <1>1, <1>2, <1>3, <1>5 DEF SameMoney, HasMoney
  <2> QED
    BY <1>1, <1>4, <2>1, SameBooks
<1>6. CASE psp'[p] = "APPROVED"
  <2> PICK s \in Session : s = pSession[p]
    BY <1>2 DEF IInv, RowsInv, Linked
  <2>1. sState[s] = "SETTLED" /\ s \notin Courtesy
    BY <1>2, PendingIsUnpaid DEF IInv, LInv, CourtesyFree
  <2>2. \A q \in Payment : HasMoney(q) /\ pSession[q] = s => q = p
    BY <1>2, <2>1, UnpaidMoney DEF QInv, OnePending
  <2>3. Taken(s) = {}
    BY <1>2, <2>2 DEF Taken, PaymentsOf, HasMoney
  <2>4. Taken(s)' = {p}
    <3>1. \A q \in Payment : HasMoney(q)' /\ pSession'[q] = s <=> q = p
      BY <1>1, <1>2, <1>3, <1>6, <2>2 DEF HasMoney
    <3>2. Taken(s)' = {q \in Payment : HasMoney(q)' /\ pSession'[q] = s}
      BY DEF Taken, PaymentsOf, HasMoney
    <3> QED
      BY <3>1, <3>2
  <2>5. \A x \in Session \ {s} : Taken(x)' = Taken(x)
    BY <1>1, <1>3 DEF Taken, PaymentsOf
  <2>6. TakenOf' = [TakenOf EXCEPT ![s] = {p}]
    BY <2>1, <2>4, <2>5 DEF TakenOf
  <2>7. BillOf' = BillOf
    <3>1. \A x \in Session : Bill(x)' = Bill(x)
      <4>1. Bill(s)' = Bill(s)
        BY <1>1, <2>1 DEF Bill
      <4> QED
        BY <1>1, <2>5, <4>1, SameBill
    <3> QED
      BY <3>1 DEF BillOf
  <2>8. OwedOf' = OwedOf
    BY <1>1 DEF OwedOf
  <2>9. Bill(s) = "DUE"
    BY <2>1 DEF Bill
  <2>10. Books!Collect(s, p)
    BY <1>4, <2>1, <2>3, <2>6, <2>7, <2>8, <2>9
       DEF Books!Collect, Books!Uncollected, BillOf, TakenOf, OwedOf
  <2> QED
    BY <2>10 DEF Books!Next
<1> QED
  BY <1>5, <1>6

(* It gives money back only of a payment whose session is PAID.            *)
LEMMA ReversesBooks ==
  ASSUME IInv, QInv, LInv, NEW r \in Reversal, NEW kind, NEW status, Reverses(r, kind, status)
  PROVE  [Books!Next]_(Books!vars)
<1> PICK p \in Payment, s \in Session : p = revFor[r] /\ s = pSession[p]
  BY DEF Reverses, IInv, RowsInv, Linked
<1>1. /\ RowsTypeOK /\ CallsTypeOK
      /\ UNCHANGED <<sState, pState, pSession, dState, revFor>>
      /\ psp[p] = "APPROVED"
  BY DEF IInv, RowsInv, Reverses, billingVars, sessionVars, paymentVars, debtVars
<1>2. pState[p] # "ABSENT" /\ sState[s] = "PAID" /\ revKind[r] = None
  BY DEF Reverses, IInv, RowsInv, Linked, LInv, Unanswered
<1>3. \/ psp' = psp
      \/ kind = "VOID" /\ status = "SUCCEEDED" /\ psp' = [psp EXCEPT ![p] = "VOIDED"]
  BY DEF Reverses
<1>4. SameMoney
  BY <1>1, <1>2, <1>3 DEF SameMoney, HasMoney, CallsTypeOK
<1>5. /\ TakenOf' = TakenOf /\ BillOf' = BillOf /\ OwedOf' = OwedOf
  BY <1>1, <1>4, SameTaken, SameBill DEF TakenOf, BillOf, OwedOf
<1>6. Returned' = Returned \/ Returned' = Returned \cup {p}
  <2>1. \A q \in Payment \ {p} :
          (\E x \in Reversal : revFor'[x] = q /\ revKind'[x] = "REFUND" /\ revStatus'[x] = "SUCCEEDED")
          <=> (\E x \in Reversal : revFor[x] = q /\ revKind[x] = "REFUND" /\ revStatus[x] = "SUCCEEDED")
    BY <1>1 DEF Reverses, CallsTypeOK
  <2>2. \A q \in Payment \ {p} : psp'[q] = psp[q]
    BY <1>1, <1>3 DEF CallsTypeOK
  <2>3. \A q \in Payment \ {p} : q \in Returned' <=> q \in Returned
    BY <2>1, <2>2 DEF Returned
  <2>4. p \in Returned => p \in Returned'
    BY <1>1, <1>2 DEF Returned, Reverses, CallsTypeOK
  <2>5. Returned \subseteq Payment /\ Returned' \subseteq Payment
    BY DEF Returned
  <2> QED
    BY <1>2, <2>3, <2>4, <2>5
<1>7. CASE Returned' = Returned
  BY <1>5, <1>7 DEF Books!vars, BillOf, TakenOf, OwedOf
<1>8. CASE Returned' # Returned
  <2>1. p \in Taken(s)
    BY <1>1, <1>2 DEF Taken, PaymentsOf
  <2>2. Bill(s) = "PAID"
    BY <1>2, <2>1 DEF Bill
  <2>3. p \notin Returned /\ Returned' = Returned \cup {p}
    BY <1>6, <1>8
  <2>4. Books!Return(s, p)
    BY <1>2, <1>5, <2>1, <2>2, <2>3 DEF Books!Return, BillOf, TakenOf, OwedOf
  <2> QED
    BY <1>2, <2>4 DEF Books!Next
<1> QED
  BY <1>7, <1>8

LEMMA GatewayBooks ==
  ASSUME Quiet, IInv, QInv, LInv, PaymentGatewayNext
  PROVE  [Books!Next]_(Books!vars)
<1>1. CallsTypeOK
  BY DEF IInv
<1>2. ASSUME NEW p \in Payment, Take(p) PROVE UNCHANGED Books!vars
  <2>1. SameMoney /\ Returned' = Returned
    BY <1>1, <1>2 DEF Take, SameMoney, HasMoney, Returned, CallsTypeOK, billingVars, paymentVars,
                      reversalVars
  <2> QED
    BY <1>2, <2>1, SameBooks DEF Take, billingVars, sessionVars, debtVars
<1>3. ASSUME NEW r \in Reversal, ReversalThrows(r) PROVE UNCHANGED Books!vars
  <2>1. SameMoney /\ Returned' = Returned
    BY <1>3 DEF ReversalThrows, SameMoney, HasMoney, Returned, billingVars, paymentVars, pspVars
  <2> QED
    BY <1>3, <2>1, SameBooks DEF ReversalThrows, billingVars, sessionVars, debtVars
<1> QED
  BY <1>2, <1>3, DecideBooks, ReversesBooks DEF PaymentGatewayNext, Quiet

LEMMA LedgerInit == Init => Books!Init
<1> SUFFICES ASSUME Init PROVE Books!Init
  OBVIOUS
<1>1. /\ \A s \in Session : sState[s] = "ENDED" /\ dState[s] = "ABSENT"
      /\ \A p \in Payment : pState[p] = "ABSENT" /\ psp[p] = "none"
      /\ \A r \in Reversal : revKind[r] = None
  BY DEF Init, RowsInit, CallsInit
<1>2. \A s \in Session : Bill(s) = "OPEN" /\ Taken(s) = {}
  BY <1>1 DEF Bill, Taken, PaymentsOf
<1>3. Returned = {}
  BY <1>1 DEF Returned
<1> QED
  BY <1>1, <1>2, <1>3 DEF Books!Init

(* While nothing of the four kinds happens, what becomes of a session's    *)
(* money is what Ledger says: it is taken once, of a session that has its  *)
(* price, has not been forgiven and is nobody's courtesy; the debt is      *)
(* closed when the session is; only a paid session's money goes back.      *)
THEOREM ImplementsLedger == ASSUME Quiet PROVE Spec => LedgerSpec
<1>1. IInv /\ QInv /\ LInv /\ [Next]_vars => [Books!Next]_(Books!vars)
  <2> SUFFICES ASSUME IInv, QInv, LInv, [Next]_vars PROVE [Books!Next]_(Books!vars)
    OBVIOUS
  <2>1. CASE UNCHANGED vars
    <3>1. SameMoney /\ Returned' = Returned
      BY <2>1 DEF SameMoney, HasMoney, Returned, vars, paymentVars, pspVars, reversalVars
    <3> QED
      BY <2>1, <3>1, SameBooks DEF vars, sessionVars, debtVars
  <2> QED
    BY <2>1, ChargeBooks, EventBooks, DebtBooks, ReversalBooks, GatewayBooks DEF Next
<1>2. IInv /\ LInv /\ [Next]_vars => LInv'
  BY LInvStep
<1> QED
  BY <1>1, <1>2, LInvInit, LedgerInit, QuietInvariant, PTL DEF Spec, LedgerSpec, Books!Spec
==============================================================================
