---------------------------- MODULE SessionService ----------------------------
(***************************************************************************)
(* SessionService (packages/csms/src/sessions/session-service.ts): what    *)
(* the api and the worker do to a session, requestStart, requestStop and   *)
(* cancel.  A call is split where the code awaits something other than its *)
(* own database transaction, so that everything else may happen there:     *)
(* requestStart at the payment port and at RemoteStartTransaction,         *)
(* requestStop between reading the session, claiming the attribution and   *)
(* the answer to RemoteStopTransaction.                                    *)
(***************************************************************************)
EXTENDS SessionStore

CONSTANTS
  StopCall,     \* calls of requestStop (each is made at most once)
  SweepCall,    \* those the limits sweep of the worker makes
  RequesterOf,  \* RequesterOf[k]: the requestedBy of call k
  CancelDuringStart, \* may a session be cancelled before requestStart returns?
  ApiMayCrash   \* may the process that runs a requestStop die?

ASSUME ServiceAssumption ==
  /\ SweepCall \subseteq StopCall
  /\ RequesterOf \in [StopCall -> Requester]
  /\ CancelDuringStart \in BOOLEAN
  /\ ApiMayCrash \in BOOLEAN

VARIABLES
  startPc,     \* where the requestStart of session s is
  stopPc,      \* where the requestStop call k is
  stopTarget,  \* the session call k read
  claimed      \* calls whose UPDATE ... stop_requested_by IS NULL took the row

callVars == <<startPc, stopPc, stopTarget, claimed>>

(* "none": not requested (unsolicited or absent); "authorizing": awaits    *)
(* the payment port; "noTariff": committed AUTHORIZED without a tariff,    *)
(* about to fail; "sending": awaits RemoteStartTransaction; "refused" and  *)
(* "answered": over, before or after the command went out; "aborted" and   *)
(* "thrown": broken off, before or after.                                  *)
StartPcs == {"none", "authorizing", "noTariff", "sending", "refused", "answered", "aborted", "thrown"}
StopPcs == {"idle", "read", "sent", "over"}

ServiceTypeOK ==
  /\ startPc \in [Session -> StartPcs]
  /\ stopPc \in [StopCall -> StopPcs]
  /\ stopTarget \in [StopCall -> Session \cup {None}]
  /\ claimed \subseteq StopCall

ServiceInit ==
  /\ startPc = [s \in Session |-> "none"]
  /\ stopPc = [k \in StopCall |-> "idle"]
  /\ stopTarget = [k \in StopCall |-> None]
  /\ claimed = {}

StartInFlight(s) == startPc[s] \in {"authorizing", "noTariff", "sending"}

(* The charger has been sent the virtual idTag of s.                       *)
Issued(s) == startPc[s] \in {"sending", "answered", "thrown"}

stopCallVars == <<stopPc, stopTarget, claimed>>

-----------------------------------------------------------------------------
(* requestStart                                                            *)

(* The charge point is connected and the EVSE has no live session: a       *)
(* REQUESTED row and its idTag are inserted.  REQUESTED is not live, so    *)
(* two requests may both pass here.                                        *)
RequestStart(s, c) ==
  /\ sState[s] = "ABSENT"
  /\ link = "up"
  /\ FreeFor(s, EvseOf[c], sState)
  /\ sState' = [sState EXCEPT ![s] = "REQUESTED"]
  /\ sConn' = [sConn EXCEPT ![s] = c]
  /\ sTag' = [sTag EXCEPT ![s] = s]
  /\ startPc' = [startPc EXCEPT ![s] = "authorizing"]
  /\ UNCHANGED <<sTx, stopBy, interrupted, spent, stopCallVars, transactionRow, link>>

(* fail: FAILED whatever the row says by now, and the idTag INVALID.       *)
Fail(s, pc) ==
  /\ sState' = [sState EXCEPT ![s] = "FAILED"]
  /\ spent' = spent \cup {s}
  /\ startPc' = [startPc EXCEPT ![s] = pc]
  /\ UNCHANGED <<sConn, sTag, sTx, stopBy, interrupted, stopCallVars, transactionRow, link>>

PaymentDenied(s) == startPc[s] = "authorizing" /\ Fail(s, "refused")

(* The payment port says yes: AUTHORIZED, whatever the row says by now,    *)
(* provided the index takes it; the tariff is frozen in the same database  *)
(* transaction, or found missing.                                          *)
PaymentAuthorized(s) ==
  /\ startPc[s] = "authorizing"
  /\ FreeFor(s, EvseOfSession(s), sState)
  /\ sState' = [sState EXCEPT ![s] = "AUTHORIZED"]
  /\ \E next \in {"sending", "noTariff"} : startPc' = [startPc EXCEPT ![s] = next]
  /\ UNCHANGED <<sConn, sTag, sTx, stopBy, interrupted, spent, stopCallVars, transactionRow, link>>

(* Another session became live on the EVSE meanwhile: the index throws and *)
(* nobody writes the row again.                                            *)
PaymentAuthorizedTooLate(s) ==
  /\ startPc[s] = "authorizing"
  /\ ~FreeFor(s, EvseOfSession(s), sState)
  /\ startPc' = [startPc EXCEPT ![s] = "refused"]
  /\ UNCHANGED <<storeVars, stopCallVars>>

NoTariff(s) == startPc[s] = "noTariff" /\ Fail(s, "refused")

(* RemoteStartTransaction Accepted: STARTING, whatever the row says by now.*)
RemoteStartAccepted(s) ==
  /\ startPc[s] = "sending"
  /\ FreeFor(s, EvseOfSession(s), sState)
  /\ sState' = [sState EXCEPT ![s] = "STARTING"]
  /\ startPc' = [startPc EXCEPT ![s] = "answered"]
  /\ UNCHANGED <<sConn, sTag, sTx, stopBy, interrupted, spent, stopCallVars, transactionRow, link>>

RemoteStartAcceptedTooLate(s) ==
  /\ startPc[s] = "sending"
  /\ ~FreeFor(s, EvseOfSession(s), sState)
  /\ startPc' = [startPc EXCEPT ![s] = "answered"]
  /\ UNCHANGED <<storeVars, stopCallVars>>

(* Rejected, a CALLERROR, no connection, or no answer in time (the charger *)
(* may have accepted all the same).                                        *)
RemoteStartFailed(s) == startPc[s] = "sending" /\ Fail(s, "answered")

(* requestStart catches nothing but NoTariffError: the payment port, the   *)
(* directory, Redis or the database throws at whatever it awaits (the read *)
(* of the timeout after an acceptance included), or its process dies, and  *)
(* nothing more is written: the row stays as its last transaction left it. *)
StartThrows(s) ==
  /\ StartInFlight(s)
  /\ startPc' = [startPc EXCEPT ![s] = IF startPc[s] = "sending" THEN "thrown" ELSE "aborted"]
  /\ UNCHANGED <<storeVars, stopCallVars>>

-----------------------------------------------------------------------------
(* cancel                                                                  *)

Cancel(s, r) ==
  /\ sState[s] \in CancellableStates
  /\ StartInFlight(s) => CancelDuringStart
  /\ sState' = [sState EXCEPT ![s] = "CANCELLED"]
  /\ stopBy' = [stopBy EXCEPT ![s] = r]
  /\ spent' = spent \cup {s}
  /\ UNCHANGED <<sConn, sTag, sTx, interrupted, callVars, transactionRow, link>>

-----------------------------------------------------------------------------
(* requestStop                                                             *)

(* The session is read, found active and with a transaction.  The sweep    *)
(* reads only sessions nobody has claimed, and to which no                 *)
(* RemoteStopTransaction went out in the last STOP_RETRY_MINUTES.          *)
RequestStop(k, s) ==
  /\ stopPc[k] = "idle"
  /\ IsActive(s)
  /\ sTx[s] # None
  /\ k \in SweepCall =>
       /\ stopBy[s] = None
       /\ \A j \in StopCall : ~(stopPc[j] = "sent" /\ stopTarget[j] = s)
  /\ stopPc' = [stopPc EXCEPT ![k] = "read"]
  /\ stopTarget' = [stopTarget EXCEPT ![k] = s]
  /\ UNCHANGED <<startPc, claimed, storeVars>>

(* The attribution is reserved if it is free and the session still active; *)
(* the command goes out either way.                                        *)
ClaimStop(k) ==
  LET s == stopTarget[k]
      free == stopBy[s] = None /\ IsActive(s)
  IN /\ stopPc[k] = "read"
     /\ stopPc' = [stopPc EXCEPT ![k] = "sent"]
     /\ IF free
        THEN /\ stopBy' = [stopBy EXCEPT ![s] = RequesterOf[k]]
             /\ claimed' = claimed \cup {k}
        ELSE UNCHANGED <<stopBy, claimed>>
     /\ UNCHANGED <<startPc, stopTarget, sState, sConn, sTag, sTx, interrupted,
                    spent, transactionRow, link>>

(* RemoteStopTransaction Accepted: an active session is STOPPING, in the   *)
(* name of whoever reserved it; one the charger stopped first keeps its    *)
(* state.                                                                  *)
RemoteStopAccepted(k) ==
  LET s == stopTarget[k]
  IN /\ stopPc[k] = "sent"
     /\ stopPc' = [stopPc EXCEPT ![k] = "over"]
     /\ IF IsActive(s)
        THEN /\ sState' = [sState EXCEPT ![s] = "STOPPING"]
             /\ stopBy' = [stopBy EXCEPT ![s] =
                             IF @ = None THEN RequesterOf[k] ELSE @]
        ELSE UNCHANGED <<sState, stopBy>>
     /\ UNCHANGED <<startPc, stopTarget, claimed, sConn, sTag, sTx, interrupted,
                    spent, transactionRow, link>>

(* Mutant: nothing is ever released.                                       *)
ReleasableNever(k) == FALSE

(* Rejected, or no result: the caller that reserved the attribution        *)
(* releases it, while the session is active and still in its name.         *)
Releasable(k) ==
  /\ k \in claimed
  /\ stopBy[stopTarget[k]] = RequesterOf[k]
  /\ IsActive(stopTarget[k])

RemoteStopFailed(k) ==
  /\ stopPc[k] = "sent"
  /\ stopPc' = [stopPc EXCEPT ![k] = "over"]
  /\ stopBy' = IF Releasable(k)
               THEN [stopBy EXCEPT ![stopTarget[k]] = None]
               ELSE stopBy
  /\ UNCHANGED <<startPc, stopTarget, claimed, sState, sConn, sTag, sTx, interrupted,
                 spent, transactionRow, link>>

StopCrash(k) ==
  /\ ApiMayCrash
  /\ stopPc[k] \in {"read", "sent"}
  /\ stopPc' = [stopPc EXCEPT ![k] = "over"]
  /\ UNCHANGED <<startPc, stopTarget, claimed, storeVars>>

-----------------------------------------------------------------------------
StartStep(s) ==
  \/ PaymentDenied(s) \/ PaymentAuthorized(s) \/ PaymentAuthorizedTooLate(s)
  \/ NoTariff(s)
  \/ RemoteStartAccepted(s) \/ RemoteStartAcceptedTooLate(s)
  \/ RemoteStartFailed(s)

StopStep(k) == ClaimStop(k) \/ RemoteStopAccepted(k) \/ RemoteStopFailed(k)

ServiceNext ==
  \/ \E s \in Session, c \in Connector : RequestStart(s, c)
  \/ \E s \in Session : StartStep(s) \/ StartThrows(s)
  \/ \E s \in Session, r \in Requester : Cancel(s, r)
  \/ \E k \in StopCall, s \in Session : RequestStop(k, s)
  \/ \E k \in StopCall : StopStep(k) \/ StopCrash(k)
==============================================================================
