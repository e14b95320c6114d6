----------------------- MODULE ChargingSessions_proofs -----------------------
(***************************************************************************)
(* Proofs about ChargingSessions, for any number of sessions,              *)
(* transactions, connectors and callers.                                   *)
(***************************************************************************)
EXTENDS ChargingSessions, TLAPS

USE StoreAssumption, ServiceAssumption, TransactionAssumption

-----------------------------------------------------------------------------
(* Types                                                                   *)

(* endSession keeps the types of what it writes.                           *)
LEMMA EndTypes ==
  ASSUME StoreTypeOK, NEW S
  PROVE  /\ StateAfterEnd(S) \in [Session -> SessionStates \cup {"ABSENT"}]
         /\ SpentAfterEnd(S) \subseteq Session
BY DEF StoreTypeOK, StateAfterEnd, SpentAfterEnd, SessionStates

(* The types survive every step of a requestStart.                         *)
LEMMA StartTypes ==
  ASSUME TypeOK,
         \/ \E s \in Session, c \in Connector : RequestStart(s, c)
         \/ \E s \in Session : StartStep(s) \/ StartThrows(s)
         \/ \E s \in Session, r \in Requester : Cancel(s, r)
  PROVE  TypeOK'
<1> USE DEF TypeOK, StoreTypeOK, ServiceTypeOK, SessionStates, StartPcs, Tag,
            transactionRow, stopCallVars
<1>1. ASSUME NEW s \in Session, NEW c \in Connector, RequestStart(s, c)
      PROVE  TypeOK'
  BY <1>1 DEF RequestStart
<1>2. ASSUME NEW s \in Session, NEW pc \in StartPcs, Fail(s, pc)
      PROVE  TypeOK'
  BY <1>2 DEF Fail
<1>3. ASSUME NEW s \in Session, StartStep(s) PROVE TypeOK'
  <2>1. CASE PaymentDenied(s)
    BY <2>1, <1>2 DEF PaymentDenied
  <2>2. CASE PaymentAuthorized(s)
    BY <2>2 DEF PaymentAuthorized
  <2>3. CASE PaymentAuthorizedTooLate(s)
    BY <2>3 DEF PaymentAuthorizedTooLate, storeVars
  <2>4. CASE NoTariff(s)
    BY <2>4, <1>2 DEF NoTariff
  <2>5. CASE RemoteStartAccepted(s)
    BY <2>5 DEF RemoteStartAccepted
  <2>6. CASE RemoteStartAcceptedTooLate(s)
    BY <2>6 DEF RemoteStartAcceptedTooLate, storeVars
  <2>7. CASE RemoteStartFailed(s)
    BY <2>7, <1>2 DEF RemoteStartFailed
  <2> QED
    BY <1>3, <2>1, <2>2, <2>3, <2>4, <2>5, <2>6, <2>7 DEF StartStep
<1>4. ASSUME NEW s \in Session, StartThrows(s) PROVE TypeOK'
  BY <1>4 DEF StartThrows, storeVars
<1>5. ASSUME NEW s \in Session, NEW r \in Requester, Cancel(s, r) PROVE TypeOK'
  BY <1>5 DEF Cancel, callVars
<1> QED
  BY <1>1, <1>3, <1>4, <1>5

(* The types survive every step of a requestStop.                          *)
LEMMA StopTypes ==
  ASSUME TypeOK,
         \/ \E k \in StopCall, s \in Session : RequestStop(k, s)
         \/ \E k \in StopCall : StopStep(k) \/ StopCrash(k)
  PROVE  TypeOK'
<1> USE DEF TypeOK, StoreTypeOK, ServiceTypeOK, SessionStates, StopPcs,
            transactionRow, storeVars
<1>1. ASSUME NEW k \in StopCall, NEW s \in Session, RequestStop(k, s)
      PROVE  TypeOK'
  BY <1>1 DEF RequestStop
<1>2. ASSUME NEW k \in StopCall, ClaimStop(k) PROVE TypeOK'
  BY <1>2 DEF ClaimStop
<1>3. ASSUME NEW k \in StopCall, RemoteStopAccepted(k) PROVE TypeOK'
  BY <1>3 DEF RemoteStopAccepted
<1>4. ASSUME NEW k \in StopCall, RemoteStopFailed(k) PROVE TypeOK'
  BY <1>4 DEF RemoteStopFailed
<1>5. ASSUME NEW k \in StopCall, StopCrash(k) PROVE TypeOK'
  BY <1>5 DEF StopCrash
<1> QED
  BY <1>1, <1>2, <1>3, <1>4, <1>5 DEF StopStep

(* The types survive every message of the charge point, every job of the   *)
(* worker and every change of the connection.                              *)
LEMMA TransactionTypes ==
  ASSUME TypeOK, ChargerMessage \/ LinkStep \/ WorkerStep
  PROVE  TypeOK'
<1> USE DEF TypeOK, StoreTypeOK, ServiceTypeOK, callVars
<1> USE DEF LinkStates, TransactionStates, SessionStates, ActiveStates
<1>1. ASSUME NEW t \in Transaction, NEW c \in Connector, NEW tag \in Tag,
             NEW s \in Session, UNCHANGED callVars,
             StartMatched(t, c, tag, s) \/ StartUnsolicited(t, c, tag, s)
      PROVE  TypeOK'
  <2>1. /\ AfterDisplaced(c) \in [Session -> SessionStates \cup {"ABSENT"}]
        /\ SpentAfterEnd(Displaced(c)) \subseteq Session
    BY EndTypes DEF AfterDisplaced
  <2>2. StartingOn(c, AfterDisplaced(c)) \subseteq Session
    BY DEF StartingOn
  <2>3. /\ tState' \in [Transaction -> TransactionStates \cup {"ABSENT"}]
        /\ tConn' \in [Transaction -> Connector \cup {None}]
        /\ tSession' \in [Transaction -> Session \cup {None}]
        /\ currentTx' \in [Connector -> Transaction \cup {None}]
    BY <1>1 DEF StartMatched, StartUnsolicited, Insert
  <2>4. /\ sState' \in [Session -> SessionStates \cup {"ABSENT"}]
        /\ sTx' \in [Session -> Transaction \cup {None}]
        /\ sConn' \in [Session -> Connector \cup {None}]
        /\ sTag' \in [Session -> Tag \cup {None}]
        /\ spent' \subseteq Session
        /\ UNCHANGED <<stopBy, interrupted, link>>
    BY <1>1, <2>1, <2>2 DEF StartMatched, StartUnsolicited
  <2> QED
    BY <1>1, <2>3, <2>4
<1>2. ASSUME NEW t \in Transaction, NEW to \in TransactionStates,
             UNCHANGED callVars, CloseTransaction(t, to)
      PROVE  TypeOK'
  BY <1>2, EndTypes DEF CloseTransaction
<1>3. ASSUME NEW t \in Transaction, UNCHANGED callVars, OrphanStop(t)
      PROVE  TypeOK'
  BY <1>3 DEF OrphanStop, sessionRow
<1>4. ASSUME NEW c \in Connector, NEW s \in Session,
             NEW to \in ActiveStates \cup {"STOPPING"}, UNCHANGED callVars,
             StatusMoved(c, s, to)
      PROVE  TypeOK'
  BY <1>4 DEF StatusMoved, transactionRow
<1>5. ASSUME NEW c \in Connector, NEW s \in Session, UNCHANGED callVars,
             StatusUnplugged(c, s) \/ ExpireStart(s)
      PROVE  TypeOK'
  BY <1>5 DEF StatusUnplugged, ExpireStart, transactionRow
<1>6. ASSUME Boot, UNCHANGED callVars PROVE TypeOK'
  BY <1>6 DEF Boot, transactionRow
<1>7. ASSUME UNCHANGED <<storeVars, callVars>> PROVE TypeOK'
  BY <1>7 DEF storeVars
<1>8. CASE ChargerMessage
  <2>1. \A c \in Connector : Presentable(c) \subseteq Tag
    BY DEF Presentable, Tag
  <2>2. ASSUME NEW t \in Transaction, NEW c \in Connector,
               ChargerStart(t, c), UNCHANGED callVars
        PROVE  TypeOK'
    BY <2>1, <2>2, <1>1, <1>7 DEF ChargerStart, StartRepeated
  <2>3. ASSUME NEW t \in Transaction, ChargerStop(t), UNCHANGED callVars
        PROVE  TypeOK'
    BY <2>3, <1>2, <1>3, <1>7 DEF ChargerStop, StopTransaction, StopRepeated
  <2>4. ASSUME NEW c \in Connector, ChargerStatus(c), UNCHANGED callVars
        PROVE  TypeOK'
    BY <2>4, <1>2, <1>4, <1>5 DEF ChargerStatus, StatusLost
  <2> QED
    BY <1>8, <2>2, <2>3, <2>4, <1>6 DEF ChargerMessage
<1>9. CASE LinkStep
  BY <1>9 DEF LinkStep, Disconnect, StayAway, Reconnect, sessionRow, transactionRow
<1>10. CASE WorkerStep
  BY <1>10, <1>2, <1>5 DEF WorkerStep, CloseOrphan
<1> QED
  BY <1>8, <1>9, <1>10

(***************************************************************************)
(* Every row of every table has its type in every reachable state.         *)
(***************************************************************************)
THEOREM TypeCorrect == Spec => []TypeOK
<1>1. Init => TypeOK
  BY DEF Init, StoreInit, ServiceInit, TypeOK, StoreTypeOK, ServiceTypeOK,
         LinkStates, StartPcs, StopPcs
<1>2. TypeOK /\ [Next]_vars => TypeOK'
  <2> SUFFICES ASSUME TypeOK, [Next]_vars PROVE TypeOK'
    OBVIOUS
  <2>1. CASE ServiceNext
    BY <2>1, StartTypes, StopTypes DEF ServiceNext
  <2>2. CASE ChargerMessage \/ LinkStep \/ WorkerStep
    BY <2>2, TransactionTypes
  <2>3. CASE UNCHANGED vars
    BY <2>3 DEF vars, storeVars, callVars, TypeOK, StoreTypeOK, ServiceTypeOK
  <2> QED
    BY <2>1, <2>2, <2>3 DEF Next
<1> QED
  BY <1>1, <1>2, PTL DEF Spec

-----------------------------------------------------------------------------
(* The inductive invariant                                                 *)

(* Every session that exists has a connector.                              *)
Placed == \A s \in Session : sState[s] # "ABSENT" => sConn[s] \in Connector

(* A transaction belongs to no session before it is inserted, and never    *)
(* does when it was inserted by its stop.                                  *)
Unlinked ==
  \A t \in Transaction : tState[t] \in {"ABSENT", "ORPHAN"} => tSession[t] = None

(* What the row of a session can say while its requestStart is waiting:    *)
(* only cancel writes it then.                                             *)
StartPhase ==
  \A s \in Session :
    /\ sState[s] = "ABSENT" => startPc[s] = "none"
    /\ startPc[s] # "none" => sTag[s] = s
    /\ startPc[s] = "authorizing" => sState[s] \in {"REQUESTED", "CANCELLED"}
    /\ startPc[s] \in {"noTariff", "sending"} => sState[s] \in {"AUTHORIZED", "CANCELLED"}

(* A requestStop has read a session before it does anything else.          *)
StopPhase == \A k \in StopCall : stopPc[k] # "idle" => stopTarget[k] \in Session

(* The rows of sessions, transactions and connectors agree.                *)
RowsAgree ==
  /\ Placed
  /\ Unlinked
  /\ RunningTransactionHasSession
  /\ ChargingSessionHasTransaction
  /\ ConnectorNamesItsTransaction
  /\ OneLiveSessionPerEvse

IInv == TypeOK /\ StartPhase /\ StopPhase /\ RowsAgree

(* A step that moves one session, without starting or ending its charge,   *)
(* and makes it live only on a free EVSE, leaves the rows in agreement.    *)
LEMMA MovedRows ==
  ASSUME TypeOK, RowsAgree,
         NEW s \in Session, NEW to \in SessionStates,
         sState[s] # "ABSENT",
         sState[s] \in ChargingStates <=> to \in ChargingStates,
         to \in LIVE_SESSION_STATES =>
            \/ sState[s] \in LIVE_SESSION_STATES
            \/ FreeFor(s, EvseOfSession(s), sState),
         sState' = [sState EXCEPT ![s] = to],
         UNCHANGED <<sConn, sTx, tState, tConn, tSession, currentTx>>
  PROVE  RowsAgree'
<1> USE DEF TypeOK, StoreTypeOK, RowsAgree
<1>1. Placed' /\ Unlinked'
  BY DEF Placed, Unlinked, SessionStates
<1>2. RunningTransactionHasSession'
  BY DEF RunningTransactionHasSession
<1>3. ChargingSessionHasTransaction'
  BY DEF ChargingSessionHasTransaction
<1>4. ConnectorNamesItsTransaction'
  BY DEF ConnectorNamesItsTransaction
<1>5. OneLiveSessionPerEvse'
  BY DEF OneLiveSessionPerEvse, FreeFor, EvseOfSession
<1> QED
  BY <1>1, <1>2, <1>3, <1>4, <1>5

(* So does a step that leaves those columns alone.                         *)
LEMMA SameRows ==
  ASSUME RowsAgree,
         UNCHANGED <<sState, sConn, sTx, tState, tConn, tSession, currentTx>>
  PROVE  RowsAgree'
BY DEF RowsAgree, Placed, Unlinked, RunningTransactionHasSession,
       ChargingSessionHasTransaction, ConnectorNamesItsTransaction,
       OneLiveSessionPerEvse, EvseOfSession

(* The rows agree after a step of a requestStart or a cancellation.        *)
LEMMA StartRows ==
  ASSUME IInv,
         \/ \E s \in Session, c \in Connector : RequestStart(s, c)
         \/ \E s \in Session : StartStep(s) \/ StartThrows(s)
         \/ \E s \in Session, r \in Requester : Cancel(s, r)
  PROVE  RowsAgree'
<1> USE DEF IInv, transactionRow
<1> USE DEF SessionStates, LIVE_SESSION_STATES, ChargingStates, ActiveStates
<1>1. ASSUME NEW s \in Session, NEW c \in Connector, RequestStart(s, c)
      PROVE  RowsAgree'
  <2> USE <1>1 DEF RequestStart, TypeOK, StoreTypeOK, RowsAgree
  <2>1. Placed' /\ Unlinked'
    BY DEF Placed, Unlinked
  <2>2. RunningTransactionHasSession'
    BY DEF RunningTransactionHasSession
  <2>3. ChargingSessionHasTransaction'
    BY DEF ChargingSessionHasTransaction
  <2>4. ConnectorNamesItsTransaction'
    BY DEF ConnectorNamesItsTransaction
  <2>5. OneLiveSessionPerEvse'
    BY DEF OneLiveSessionPerEvse, EvseOfSession
  <2> QED
    BY <2>1, <2>2, <2>3, <2>4, <2>5
<1>2. ASSUME NEW s \in Session, NEW pc \in StartPcs, Fail(s, pc), StartInFlight(s)
      PROVE  RowsAgree'
  <2>1. sState[s] \in {"REQUESTED", "AUTHORIZED", "CANCELLED"}
    BY <1>2 DEF StartInFlight, StartPhase
  <2> QED
    BY <1>2, <2>1, MovedRows DEF Fail
<1>3. ASSUME NEW s \in Session, StartStep(s) PROVE RowsAgree'
  <2>1. sState[s] \in {"REQUESTED", "AUTHORIZED", "CANCELLED"}
    BY <1>3 DEF StartStep, PaymentDenied, PaymentAuthorized, PaymentAuthorizedTooLate,
                NoTariff, RemoteStartAccepted, RemoteStartAcceptedTooLate,
                RemoteStartFailed, StartPhase
  <2>2. CASE PaymentDenied(s) \/ NoTariff(s) \/ RemoteStartFailed(s)
    BY <2>2, <1>2 DEF PaymentDenied, NoTariff, RemoteStartFailed, StartInFlight, StartPcs
  <2>3. CASE PaymentAuthorized(s)
    BY <2>1, <2>3, MovedRows DEF PaymentAuthorized
  <2>4. CASE RemoteStartAccepted(s)
    BY <2>1, <2>4, MovedRows DEF RemoteStartAccepted
  <2>5. CASE PaymentAuthorizedTooLate(s) \/ RemoteStartAcceptedTooLate(s)
    BY <2>5, SameRows DEF PaymentAuthorizedTooLate, RemoteStartAcceptedTooLate, storeVars
  <2> QED
    BY <1>3, <2>2, <2>3, <2>4, <2>5 DEF StartStep
<1>4. ASSUME NEW s \in Session, StartThrows(s) PROVE RowsAgree'
  BY <1>4, SameRows DEF StartThrows, storeVars
<1>5. ASSUME NEW s \in Session, NEW r \in Requester, Cancel(s, r) PROVE RowsAgree'
  BY <1>5, MovedRows DEF Cancel, CancellableStates
<1> QED
  BY <1>1, <1>3, <1>4, <1>5

(* The rows agree after a step of a requestStop.                           *)
LEMMA StopRows ==
  ASSUME IInv,
         \/ \E k \in StopCall, s \in Session : RequestStop(k, s)
         \/ \E k \in StopCall : StopStep(k) \/ StopCrash(k)
  PROVE  RowsAgree'
<1> USE DEF IInv, transactionRow, storeVars
<1>1. ASSUME NEW k \in StopCall, NEW s \in Session, RequestStop(k, s)
      PROVE  RowsAgree'
  BY <1>1, SameRows DEF RequestStop
<1>2. ASSUME NEW k \in StopCall, ClaimStop(k) \/ RemoteStopFailed(k) \/ StopCrash(k)
      PROVE  RowsAgree'
  BY <1>2, SameRows DEF ClaimStop, RemoteStopFailed, StopCrash
<1>3. ASSUME NEW k \in StopCall, RemoteStopAccepted(k) PROVE RowsAgree'
  <2>1. CASE IsActive(stopTarget[k])
    <3>1. stopTarget[k] \in Session
      BY <1>3 DEF RemoteStopAccepted, StopPhase
    <3> QED
      BY <1>3, <2>1, <3>1, MovedRows
         DEF RemoteStopAccepted, IsActive, ActiveStates, ChargingStates,
             LIVE_SESSION_STATES, SessionStates
  <2>2. CASE ~IsActive(stopTarget[k])
    BY <1>3, <2>2, SameRows DEF RemoteStopAccepted
  <2> QED
    BY <2>1, <2>2
<1> QED
  BY <1>1, <1>2, <1>3 DEF StopStep

(* What closing the transaction that runs on c does to the sessions: those *)
(* that were charging with it end, and no other session changes.           *)
LEMMA DisplacedSessions ==
  ASSUME TypeOK, RowsAgree, NEW c \in Connector
  PROVE  /\ AfterDisplaced(c) \in [Session -> SessionStates \cup {"ABSENT"}]
         /\ \A s \in Displaced(c) :
              /\ sState[s] \in ChargingStates
              /\ sConn[s] = c
              /\ sTx[s] \in ActiveOn(c)
         /\ \A s \in Session :
              AfterDisplaced(c)[s] = IF s \in Displaced(c) THEN "ENDED" ELSE sState[s]
         /\ \A s \in Session :
              sState[s] \in ChargingStates /\ sTx[s] \in ActiveOn(c) => s \in Displaced(c)
<1> USE DEF TypeOK, RowsAgree
<1>1. AfterDisplaced(c) \in [Session -> SessionStates \cup {"ABSENT"}]
  BY EndTypes DEF AfterDisplaced
<1>2. ASSUME NEW s \in Displaced(c)
      PROVE  /\ sState[s] \in ChargingStates
             /\ sConn[s] = c
             /\ sTx[s] \in ActiveOn(c)
  BY DEF Displaced, SessionsOf, ActiveOn, RunningTransactionHasSession
<1>3. ASSUME NEW s \in Session
      PROVE  AfterDisplaced(c)[s] = IF s \in Displaced(c) THEN "ENDED" ELSE sState[s]
  BY <1>2 DEF AfterDisplaced, StateAfterEnd, AlreadyEnded, ChargingStates, ActiveStates
<1>4. ASSUME NEW s \in Session, sState[s] \in ChargingStates, sTx[s] \in ActiveOn(c)
      PROVE  s \in Displaced(c)
  BY <1>4 DEF Displaced, SessionsOf, ActiveOn, ChargingSessionHasTransaction
<1> QED
  BY <1>1, <1>2, <1>3, <1>4

(* The rows agree once t has been inserted on c for session s, which was   *)
(* not charging and finds the EVSE free in the states st: those after the  *)
(* displaced transaction, less the sessions that expire.                   *)
LEMMA StartedRows ==
  ASSUME TypeOK, RowsAgree, NEW t \in Transaction, NEW c \in Connector,
         NEW s \in Session, NEW st \in [Session -> SessionStates \cup {"ABSENT"}],
         tState[t] = "ABSENT",
         sState[s] \notin ChargingStates,
         \A x \in Session \ {s} :
            \/ st[x] = AfterDisplaced(c)[x]
            \/ AfterDisplaced(c)[x] = "STARTING" /\ st[x] = "EXPIRED",
         FreeFor(s, EvseOf[c], st),
         Insert(t, c, s),
         sState' = [st EXCEPT ![s] = "CHARGING"],
         sTx' = [sTx EXCEPT ![s] = t],
         sConn' = [sConn EXCEPT ![s] = c]
  PROVE  RowsAgree'
<1> USE DEF TypeOK, StoreTypeOK, RowsAgree, Insert
<1> USE DEF ChargingStates, ActiveStates
<1>1. \A x \in Session \ {s} :
        sState'[x] \in ChargingStates =>
          /\ sState[x] \in ChargingStates
          /\ sState'[x] = sState[x]
          /\ x \notin Displaced(c)
  BY DisplacedSessions
<1>2. \A x \in Session \ {s} :
        x \notin Displaced(c) /\ sState[x] \in ChargingStates => sState'[x] = sState[x]
  BY DisplacedSessions
<1>3. Placed'
  BY DisplacedSessions DEF Placed
<1>4. Unlinked'
  BY DEF Unlinked
<1>5. RunningTransactionHasSession'
  <2> SUFFICES ASSUME NEW x \in Transaction, tState'[x] = "ACTIVE", x # t
               PROVE  /\ tSession'[x] \in Session
                      /\ sState'[tSession'[x]] \in ChargingStates
                      /\ sTx'[tSession'[x]] = x
                      /\ sConn'[tSession'[x]] = tConn'[x]
    BY DEF RunningTransactionHasSession
  <2>1. tState[x] = "ACTIVE" /\ x \notin ActiveOn(c)
    OBVIOUS
  <2>2. /\ tSession[x] \in Session
        /\ sState[tSession[x]] \in ChargingStates
        /\ sTx[tSession[x]] = x
        /\ sConn[tSession[x]] = tConn[x]
    BY <2>1 DEF RunningTransactionHasSession
  <2>3. tSession[x] \notin Displaced(c)
    BY <2>1, <2>2, DisplacedSessions
  <2> QED
    BY <1>2, <2>2, <2>3
<1>6. ChargingSessionHasTransaction'
  <2> SUFFICES ASSUME NEW x \in Session, sState'[x] \in ChargingStates
               PROVE  /\ sTx'[x] \in Transaction
                      /\ tState'[sTx'[x]] = "ACTIVE"
                      /\ tSession'[sTx'[x]] = x
    BY DEF ChargingSessionHasTransaction
  <2>1. CASE x = s
    BY <2>1
  <2>2. CASE x # s
    <3>1. /\ sTx[x] \in Transaction
          /\ tState[sTx[x]] = "ACTIVE"
          /\ tSession[sTx[x]] = x
          /\ sTx[x] \notin ActiveOn(c)
      BY <1>1, <2>2, DisplacedSessions DEF ChargingSessionHasTransaction
    <3> QED
      BY <2>2, <3>1
  <2> QED
    BY <2>1, <2>2
<1>7. ConnectorNamesItsTransaction'
  BY DEF ConnectorNamesItsTransaction, ActiveOn
<1>8. OneLiveSessionPerEvse'
  <2>1. \A x \in Session \ {s} : sState'[x] \in LIVE_SESSION_STATES =>
          sState[x] \in LIVE_SESSION_STATES /\ sState'[x] = st[x]
    BY DisplacedSessions DEF LIVE_SESSION_STATES
  <2>2. \A x \in Session \ {s} : EvseOfSession(x)' = EvseOfSession(x)
    BY DEF EvseOfSession
  <2>3. EvseOfSession(s)' = EvseOf[c]
    BY DEF EvseOfSession
  <2> QED
    BY <2>1, <2>2, <2>3 DEF OneLiveSessionPerEvse, FreeFor
<1> QED
  BY <1>3, <1>4, <1>5, <1>6, <1>7, <1>8

(* The rows agree once t is closed and its session has ended.              *)
LEMMA ClosedRows ==
  ASSUME TypeOK, RowsAgree, NEW t \in Transaction,
         NEW to \in {"STOPPED", "CLOSED_ESTIMATED"}, CloseTransaction(t, to)
  PROVE  RowsAgree'
<1> USE DEF TypeOK, StoreTypeOK, RowsAgree, CloseTransaction
<1>1. \A s \in SessionsOf({t}) : sState[s] \in ChargingStates /\ sTx[s] = t
  BY DEF SessionsOf, RunningTransactionHasSession
<1>2. \A s \in Session :
        sState'[s] = IF s \in SessionsOf({t}) THEN "ENDED" ELSE sState[s]
  BY <1>1 DEF StateAfterEnd, AlreadyEnded, ChargingStates, ActiveStates
<1>3. \A s \in Session : s \in SessionsOf({t}) <=> tSession[t] = s
  BY DEF SessionsOf
<1>4. Placed' /\ Unlinked'
  <2>1. Placed'
    BY <1>1, <1>2 DEF Placed, ChargingStates, ActiveStates
  <2> QED
    BY <2>1 DEF Unlinked
<1>5. RunningTransactionHasSession'
  <2> SUFFICES ASSUME NEW x \in Transaction, tState'[x] = "ACTIVE"
               PROVE  /\ tSession[x] \in Session
                      /\ sState'[tSession[x]] \in ChargingStates
                      /\ sTx[tSession[x]] = x
                      /\ sConn[tSession[x]] = tConn[x]
    BY DEF RunningTransactionHasSession
  <2>1. x # t /\ tState[x] = "ACTIVE"
    OBVIOUS
  <2>2. /\ tSession[x] \in Session
        /\ sState[tSession[x]] \in ChargingStates
        /\ sTx[tSession[x]] = x
        /\ sConn[tSession[x]] = tConn[x]
    BY <2>1 DEF RunningTransactionHasSession
  <2> QED
    BY <1>1, <1>2, <2>1, <2>2
<1>6. ChargingSessionHasTransaction'
  <2> SUFFICES ASSUME NEW x \in Session, sState'[x] \in ChargingStates
               PROVE  /\ sTx[x] \in Transaction
                      /\ tState'[sTx[x]] = "ACTIVE"
                      /\ tSession[sTx[x]] = x
    BY DEF ChargingSessionHasTransaction
  <2>1. x \notin SessionsOf({t}) /\ sState[x] \in ChargingStates
    BY <1>2 DEF ChargingStates, ActiveStates
  <2>2. /\ sTx[x] \in Transaction
        /\ tState[sTx[x]] = "ACTIVE"
        /\ tSession[sTx[x]] = x
    BY <2>1 DEF ChargingSessionHasTransaction
  <2> QED
    BY <1>3, <2>1, <2>2
<1>7. ConnectorNamesItsTransaction'
  BY DEF ConnectorNamesItsTransaction
<1>8. OneLiveSessionPerEvse'
  BY <1>2 DEF OneLiveSessionPerEvse, EvseOfSession, LIVE_SESSION_STATES, ActiveStates
<1> QED
  BY <1>4, <1>5, <1>6, <1>7, <1>8

(* What a StartTransaction does: the instance of StartedRows for each of   *)
(* its two cases.                                                          *)
LEMMA StartTransactionRows ==
  ASSUME TypeOK, RowsAgree, NEW t \in Transaction, NEW c \in Connector,
         NEW tag \in Tag, NEW s \in Session,
         StartMatched(t, c, tag, s) \/ StartUnsolicited(t, c, tag, s)
  PROVE  RowsAgree'
<1> DEFINE waiting == StartingOn(c, AfterDisplaced(c))
           expired == [x \in Session |->
                         IF x \in waiting THEN "EXPIRED" ELSE AfterDisplaced(c)[x]]
<1>1. CASE StartMatched(t, c, tag, s)
  <2>1. AfterDisplaced(c)[s] \in {"STARTING", "EXPIRED"}
    BY <1>1 DEF StartMatched, SessionsForStart, StartingOn, ExpiredWaitingFor
  <2>2. sState[s] \notin ChargingStates
    BY <2>1, DisplacedSessions DEF ChargingStates, ActiveStates
  <2> QED
    BY <1>1, <2>2, DisplacedSessions, StartedRows DEF StartMatched
<1>2. CASE StartUnsolicited(t, c, tag, s)
  <2>1. expired \in [Session -> SessionStates \cup {"ABSENT"}]
    BY DisplacedSessions DEF SessionStates
  <2>2. \A x \in Session \ {s} :
          \/ expired[x] = AfterDisplaced(c)[x]
          \/ AfterDisplaced(c)[x] = "STARTING" /\ expired[x] = "EXPIRED"
    BY DEF StartingOn
  <2>3. sState[s] \notin ChargingStates
    BY <1>2 DEF StartUnsolicited, ChargingStates, ActiveStates
  <2>4. /\ tState[t] = "ABSENT"
        /\ FreeFor(s, EvseOf[c], expired)
        /\ Insert(t, c, s)
        /\ sState' = [expired EXCEPT ![s] = "CHARGING"]
        /\ sTx' = [sTx EXCEPT ![s] = t]
        /\ sConn' = [sConn EXCEPT ![s] = c]
    BY <1>2 DEF StartUnsolicited
  <2> HIDE DEF expired
  <2> QED
    BY <2>1, <2>2, <2>3, <2>4, StartedRows
<1> QED
  BY <1>1, <1>2

(* The rows agree after a message of the charge point, a job of the worker *)
(* or a change of the connection.                                          *)
LEMMA TransactionRows ==
  ASSUME IInv, ChargerMessage \/ LinkStep \/ WorkerStep
  PROVE  RowsAgree'
<1> USE DEF IInv
<1>1. ASSUME NEW c \in Connector, NEW s \in Session,
             NEW to \in ActiveStates \cup {"STOPPING"}, StatusMoved(c, s, to)
      PROVE  RowsAgree'
  <2>1. sState[s] \in ActiveStates
    BY <1>1 DEF StatusMoved, StatusMoves, ActiveStates
  <2> QED
    BY <1>1, <2>1, MovedRows
       DEF StatusMoved, ActiveStates, ChargingStates, LIVE_SESSION_STATES,
           SessionStates, transactionRow
<1>2. ASSUME NEW c \in Connector, NEW s \in Session,
             StatusUnplugged(c, s) \/ ExpireStart(s)
      PROVE  RowsAgree'
  BY <1>2, MovedRows
     DEF StatusUnplugged, ExpireStart, ActiveStates, ChargingStates,
         LIVE_SESSION_STATES, SessionStates, transactionRow
<1>3. ASSUME NEW t \in Transaction, OrphanStop(t) PROVE RowsAgree'
  <2> USE <1>3 DEF OrphanStop, sessionRow, RowsAgree, TypeOK, StoreTypeOK
  <2>1. Placed' /\ OneLiveSessionPerEvse'
    BY DEF Placed, OneLiveSessionPerEvse, EvseOfSession
  <2>2. Unlinked'
    BY DEF Unlinked
  <2>3. RunningTransactionHasSession'
    BY DEF RunningTransactionHasSession
  <2>4. ChargingSessionHasTransaction'
    BY DEF ChargingSessionHasTransaction
  <2>5. ConnectorNamesItsTransaction'
    BY DEF ConnectorNamesItsTransaction
  <2> QED
    BY <2>1, <2>2, <2>3, <2>4, <2>5
<1>4. CASE ChargerMessage
  <2>1. \A c \in Connector : Presentable(c) \subseteq Tag
    BY DEF Presentable, Tag
  <2>2. ASSUME NEW t \in Transaction, NEW c \in Connector, ChargerStart(t, c)
        PROVE  RowsAgree'
    BY <2>1, <2>2, StartTransactionRows, SameRows
       DEF ChargerStart, StartRepeated, storeVars
  <2>3. ASSUME NEW t \in Transaction, ChargerStop(t) PROVE RowsAgree'
    BY <2>3, <1>3, ClosedRows, SameRows
       DEF ChargerStop, StopTransaction, StopRepeated, storeVars
  <2>4. ASSUME NEW c \in Connector, ChargerStatus(c) PROVE RowsAgree'
    BY <2>4, <1>1, <1>2, ClosedRows DEF ChargerStatus, StatusLost
  <2>5. CASE Boot
    BY <2>5, SameRows DEF Boot, transactionRow
  <2> QED
    BY <1>4, <2>2, <2>3, <2>4, <2>5 DEF ChargerMessage
<1>5. CASE LinkStep
  BY <1>5, SameRows DEF LinkStep, sessionRow, transactionRow
<1>6. CASE WorkerStep
  BY <1>6, <1>2, ClosedRows DEF WorkerStep, CloseOrphan
<1> QED
  BY <1>4, <1>5, <1>6

(* Nothing but cancel touches a session whose requestStart is waiting, and *)
(* only a new session gets an idTag.                                       *)
LEMMA TransactionsLeaveWaiting ==
  ASSUME IInv, ChargerMessage \/ LinkStep \/ WorkerStep, NEW s \in Session
  PROVE  /\ sState'[s] = "ABSENT" => sState[s] = "ABSENT"
         /\ sState[s] \in {"REQUESTED", "AUTHORIZED", "CANCELLED"} => sState'[s] = sState[s]
         /\ sState[s] # "ABSENT" => sTag'[s] = sTag[s]
<1> DEFINE Kept == /\ sState'[s] = "ABSENT" => sState[s] = "ABSENT"
                   /\ sState[s] \in {"REQUESTED", "AUTHORIZED", "CANCELLED"}
                        => sState'[s] = sState[s]
                   /\ sState[s] # "ABSENT" => sTag'[s] = sTag[s]
<1> USE DEF IInv, ActiveStates, ChargingStates
<1>1. ASSUME NEW t \in Transaction, NEW c \in Connector, NEW tag, NEW n \in Session,
             StartMatched(t, c, tag, n) \/ StartUnsolicited(t, c, tag, n)
      PROVE  Kept
  <2>1. CASE StartMatched(t, c, tag, n)
    BY <2>1, DisplacedSessions DEF StartMatched, SessionsForStart, StartingOn, ExpiredWaitingFor
  <2>2. CASE StartUnsolicited(t, c, tag, n)
    <3>1. /\ \/ AfterDisplaced(c)[s] = sState[s]
             \/ /\ sState[s] \in ChargingStates
                /\ AfterDisplaced(c)[s] = "ENDED"
          /\ sTag \in [Session -> Tag \cup {None}]
      BY DisplacedSessions DEF TypeOK, StoreTypeOK
    <3> DEFINE waiting == StartingOn(c, AfterDisplaced(c))
               st == [x \in Session |->
                        IF x \in waiting THEN "EXPIRED" ELSE AfterDisplaced(c)[x]]
    <3>2. /\ sState[n] = "ABSENT"
          /\ sState' = [st EXCEPT ![n] = "CHARGING"]
          /\ sTag' = [sTag EXCEPT ![n] = tag]
      BY <2>2, Zenon DEF StartUnsolicited
    <3>3. sState'[s] = IF s = n THEN "CHARGING"
                       ELSE IF s \in waiting THEN "EXPIRED" ELSE AfterDisplaced(c)[s]
      BY <3>2
    <3> QED
      BY <3>1, <3>2, <3>3 DEF StartingOn
  <2> QED
    BY <1>1, <2>1, <2>2
<1>2. ASSUME NEW t \in Transaction, NEW to \in {"STOPPED", "CLOSED_ESTIMATED"},
             CloseTransaction(t, to)
      PROVE  Kept
  BY <1>2 DEF CloseTransaction, StateAfterEnd, SessionsOf, RowsAgree,
              RunningTransactionHasSession
<1>3. ASSUME NEW c \in Connector, NEW x \in Session, NEW to \in ActiveStates \cup {"STOPPING"},
             StatusMoved(c, x, to) \/ StatusUnplugged(c, x) \/ ExpireStart(x)
      PROVE  Kept
  BY <1>3 DEF StatusMoved, StatusMoves, StatusUnplugged, ExpireStart, TypeOK, StoreTypeOK
<1>4. ASSUME UNCHANGED <<sState, sTag>> PROVE Kept
  BY <1>4
<1>5. CASE ChargerMessage
  <2>1. ASSUME NEW t \in Transaction, NEW c \in Connector, ChargerStart(t, c) PROVE Kept
    BY <2>1, <1>1, <1>4 DEF ChargerStart, StartRepeated, storeVars
  <2>2. ASSUME NEW t \in Transaction, ChargerStop(t) PROVE Kept
    BY <2>2, <1>2, <1>4 DEF ChargerStop, StopTransaction, StopRepeated, OrphanStop,
                            storeVars, sessionRow
  <2>3. ASSUME NEW c \in Connector, ChargerStatus(c) PROVE Kept
    BY <2>3, <1>2, <1>3 DEF ChargerStatus, StatusLost
  <2> QED
    BY <1>5, <2>1, <2>2, <2>3, <1>4 DEF ChargerMessage, Boot
<1>6. CASE LinkStep
  BY <1>6, <1>4 DEF LinkStep, sessionRow
<1>7. CASE WorkerStep
  BY <1>7, <1>2, <1>3 DEF WorkerStep, CloseOrphan
<1> QED
  BY <1>5, <1>6, <1>7

(* The calls stay where their sessions allow.                              *)
LEMMA Phases ==
  ASSUME IInv, Next, TypeOK'
  PROVE  StartPhase' /\ StopPhase'
<1> USE DEF IInv, TypeOK, StoreTypeOK, ServiceTypeOK, StartPcs, transactionRow, stopCallVars
<1>1. ASSUME NEW s \in Session, NEW c \in Connector, RequestStart(s, c)
      PROVE  StartPhase' /\ StopPhase'
  BY <1>1 DEF RequestStart, StartPhase, StopPhase
<1>2. ASSUME NEW s \in Session, StartStep(s) PROVE StartPhase' /\ StopPhase'
  <2>1. CASE PaymentDenied(s) \/ NoTariff(s) \/ RemoteStartFailed(s)
    BY <2>1 DEF PaymentDenied, NoTariff, RemoteStartFailed, Fail, StartPhase, StopPhase
  <2>2. CASE PaymentAuthorized(s) \/ RemoteStartAccepted(s)
    BY <2>2 DEF PaymentAuthorized, RemoteStartAccepted, StartPhase, StopPhase
  <2>3. CASE PaymentAuthorizedTooLate(s) \/ RemoteStartAcceptedTooLate(s)
    BY <2>3 DEF PaymentAuthorizedTooLate, RemoteStartAcceptedTooLate, storeVars,
                StartPhase, StopPhase
  <2> QED
    BY <1>2, <2>1, <2>2, <2>3 DEF StartStep
<1>3. ASSUME NEW s \in Session, StartThrows(s) PROVE StartPhase' /\ StopPhase'
  BY <1>3 DEF StartThrows, StartInFlight, storeVars, StartPhase, StopPhase
<1>4. ASSUME NEW s \in Session, NEW r \in Requester, Cancel(s, r)
      PROVE  StartPhase' /\ StopPhase'
  BY <1>4 DEF Cancel, CancellableStates, callVars, StartPhase, StopPhase
<1>5. ASSUME NEW k \in StopCall, NEW s \in Session, RequestStop(k, s)
      PROVE  StartPhase' /\ StopPhase'
  BY <1>5 DEF RequestStop, storeVars, StartPhase, StopPhase
<1>6. ASSUME NEW k \in StopCall, StopStep(k) \/ StopCrash(k)
      PROVE  StartPhase' /\ StopPhase'
  <2>1. UNCHANGED <<startPc, sTag, stopTarget>>
    BY <1>6 DEF StopStep, StopCrash, ClaimStop, RemoteStopAccepted, RemoteStopFailed, storeVars
  <2>2. \A j \in StopCall : stopPc'[j] # "idle" => stopPc[j] # "idle"
    BY <1>6 DEF StopStep, StopCrash, ClaimStop, RemoteStopAccepted, RemoteStopFailed
  <2>3. \A s \in Session :
          \/ sState'[s] = sState[s]
          \/ sState[s] \in ActiveStates /\ sState'[s] = "STOPPING"
    BY <1>6 DEF StopStep, StopCrash, ClaimStop, RemoteStopAccepted, RemoteStopFailed,
                storeVars, IsActive
  <2>4. StartPhase'
    BY <2>1, <2>3 DEF StartPhase, ActiveStates
  <2>5. StopPhase'
    BY <2>1, <2>2 DEF StopPhase
  <2> QED
    BY <2>4, <2>5
<1>7. CASE ChargerMessage \/ LinkStep \/ WorkerStep
  <2>1. UNCHANGED callVars
    BY <1>7 DEF ChargerMessage, LinkStep, WorkerStep
  <2> QED
    BY <1>7, <2>1, TransactionsLeaveWaiting DEF callVars, StartPhase, StopPhase
<1> QED
  BY <1>1, <1>2, <1>3, <1>4, <1>5, <1>6, <1>7 DEF Next, ServiceNext

-----------------------------------------------------------------------------
(* The theorems about the rows                                             *)

(* A step of ServiceNext is one of a requestStart (or a cancellation), or  *)
(* one of a requestStop.                                                   *)
LEMMA IInvStep ==
  ASSUME IInv, [Next]_vars
  PROVE  IInv'
<1>1. CASE Next
  <2>1. TypeOK'
    BY <1>1, StartTypes, StopTypes, TransactionTypes DEF Next, ServiceNext, IInv
  <2>2. RowsAgree'
    BY <1>1, StartRows, StopRows, TransactionRows DEF Next, ServiceNext
  <2> QED
    BY <1>1, <2>1, <2>2, Phases DEF IInv
<1>2. CASE UNCHANGED vars
  BY <1>2, SameRows DEF vars, storeVars, callVars, IInv, TypeOK, StoreTypeOK,
                        ServiceTypeOK, StartPhase, StopPhase
<1> QED
  BY <1>1, <1>2

LEMMA IInvInit == Init => IInv
BY DEF Init, StoreInit, ServiceInit, IInv, TypeOK, StoreTypeOK, ServiceTypeOK,
       LinkStates, StartPcs, StopPcs, StartPhase, StopPhase, RowsAgree, Placed,
       Unlinked, RunningTransactionHasSession, ChargingSessionHasTransaction,
       ConnectorNamesItsTransaction, OneLiveSessionPerEvse, ChargingStates,
       ActiveStates, LIVE_SESSION_STATES

(***************************************************************************)
(* The rows of sessions, transactions and connectors agree in every        *)
(* reachable state: the inductive invariant of the rest.                   *)
(***************************************************************************)
THEOREM RowsAlwaysAgree == Spec => []IInv
BY IInvInit, IInvStep, PTL DEF Spec

(***************************************************************************)
(* No two live sessions on one EVSE, whatever the number of sessions,      *)
(* requests, cancellations, crashes and messages of the charge point.      *)
(***************************************************************************)
THEOREM LiveSessionsAreAlone == Spec => []OneLiveSessionPerEvse
<1>1. IInv => OneLiveSessionPerEvse
  BY DEF IInv, RowsAgree
<1> QED
  BY <1>1, RowsAlwaysAgree, PTL

(***************************************************************************)
(* Transactions, sessions and connectors always name each other: a running *)
(* transaction has its charging session, a charging session its running    *)
(* transaction, and a connector its own.                                   *)
(***************************************************************************)
THEOREM ChargesAreMatched == Spec => []RowsMatch
<1>1. IInv => RowsMatch
  BY DEF IInv, RowsAgree, RowsMatch
<1> QED
  BY <1>1, RowsAlwaysAgree, PTL

-----------------------------------------------------------------------------
(* Attribution and idTags                                                  *)

(* Messages, jobs and the connection: where a session comes to be          *)
(* STOPPING, and what becomes of stop_requested_by.                        *)
LEMMA TransactionsAttribute ==
  ASSUME IInv, StoppingIsAttributed, ChargerMessage \/ LinkStep \/ WorkerStep
  PROVE  StoppingIsAttributed'
<1> USE DEF IInv, TypeOK, StoreTypeOK, StoppingIsAttributed
<1>1. ASSUME NEW t \in Transaction, NEW c \in Connector, NEW tag, NEW n \in Session,
             StartMatched(t, c, tag, n) \/ StartUnsolicited(t, c, tag, n)
      PROVE  StoppingIsAttributed'
  <2>1. UNCHANGED stopBy
    BY <1>1 DEF StartMatched, StartUnsolicited
  <2>2. \A s \in Session : sState'[s] = "STOPPING" => sState[s] = "STOPPING"
    <3>1. CASE StartMatched(t, c, tag, n)
      BY <3>1, DisplacedSessions DEF StartMatched
    <3>2. CASE StartUnsolicited(t, c, tag, n)
      BY <3>2, DisplacedSessions DEF StartUnsolicited
    <3> QED
      BY <1>1, <3>1, <3>2
  <2> QED
    BY <2>1, <2>2
<1>2. ASSUME NEW t \in Transaction, NEW to, CloseTransaction(t, to)
      PROVE  StoppingIsAttributed'
  BY <1>2 DEF CloseTransaction, StateAfterEnd
<1>3. ASSUME NEW c \in Connector, NEW s \in Session,
             NEW to \in ActiveStates \cup {"STOPPING"}, StatusMoved(c, s, to)
      PROVE  StoppingIsAttributed'
  BY <1>3 DEF StatusMoved
<1>4. ASSUME NEW c \in Connector, NEW s \in Session,
             StatusUnplugged(c, s) \/ ExpireStart(s)
      PROVE  StoppingIsAttributed'
  BY <1>4 DEF StatusUnplugged, ExpireStart
<1>5. ASSUME UNCHANGED <<sState, stopBy>> PROVE StoppingIsAttributed'
  BY <1>5
<1>6. CASE ChargerMessage
  <2>1. ASSUME NEW t \in Transaction, NEW c \in Connector, ChargerStart(t, c)
        PROVE  StoppingIsAttributed'
    BY <2>1, <1>1, <1>5 DEF ChargerStart, StartRepeated, storeVars
  <2>2. ASSUME NEW t \in Transaction, ChargerStop(t) PROVE StoppingIsAttributed'
    BY <2>2, <1>2, <1>5 DEF ChargerStop, StopTransaction, StopRepeated, OrphanStop,
                            storeVars, sessionRow
  <2>3. ASSUME NEW c \in Connector, ChargerStatus(c) PROVE StoppingIsAttributed'
    BY <2>3, <1>2, <1>3, <1>4 DEF ChargerStatus, StatusLost
  <2> QED
    BY <1>6, <2>1, <2>2, <2>3, <1>5 DEF ChargerMessage, Boot
<1>7. CASE LinkStep
  BY <1>7, <1>5 DEF LinkStep, sessionRow
<1>8. CASE WorkerStep
  BY <1>8, <1>2, <1>4 DEF WorkerStep, CloseOrphan
<1> QED
  BY <1>6, <1>7, <1>8

(***************************************************************************)
(* The stop of a session is always attributed to somebody.                 *)
(***************************************************************************)
THEOREM StopsAreAttributed == Spec => []StoppingIsAttributed
<1>1. Init => StoppingIsAttributed
  BY DEF Init, StoreInit, StoppingIsAttributed
<1>2. IInv /\ StoppingIsAttributed /\ [Next]_vars => StoppingIsAttributed'
  <2> SUFFICES ASSUME IInv, StoppingIsAttributed, [Next]_vars
               PROVE  StoppingIsAttributed'
    OBVIOUS
  <2> USE DEF IInv, TypeOK, StoreTypeOK, ServiceTypeOK, StoppingIsAttributed
  <2>1. ASSUME NEW s \in Session, NEW c \in Connector, RequestStart(s, c)
        PROVE  StoppingIsAttributed'
    BY <2>1 DEF RequestStart
  <2>2. ASSUME NEW s \in Session, StartStep(s) \/ StartThrows(s)
        PROVE  StoppingIsAttributed'
    BY <2>2 DEF StartStep, PaymentDenied, PaymentAuthorized, PaymentAuthorizedTooLate,
                NoTariff, RemoteStartAccepted, RemoteStartAcceptedTooLate,
                RemoteStartFailed, Fail, StartThrows, storeVars
  <2>3. ASSUME NEW s \in Session, NEW r \in Requester, Cancel(s, r)
        PROVE  StoppingIsAttributed'
    BY <2>3 DEF Cancel
  <2>4. ASSUME NEW k \in StopCall, NEW s \in Session, RequestStop(k, s)
        PROVE  StoppingIsAttributed'
    BY <2>4 DEF RequestStop, storeVars
  <2>5. ASSUME NEW k \in StopCall, ClaimStop(k) \/ RemoteStopAccepted(k)
        PROVE  StoppingIsAttributed'
    BY <2>5 DEF ClaimStop, RemoteStopAccepted
  <2>6. ASSUME NEW k \in StopCall, RemoteStopFailed(k) \/ StopCrash(k)
        PROVE  StoppingIsAttributed'
    BY <2>6 DEF RemoteStopFailed, Releasable, IsActive, ActiveStates, StopCrash, storeVars
  <2>7. CASE UNCHANGED vars
    BY <2>7 DEF vars, storeVars
  <2> QED
    BY <2>1, <2>2, <2>3, <2>4, <2>5, <2>6, <2>7, TransactionsAttribute
       DEF Next, ServiceNext, StopStep
<1> QED
  BY <1>1, <1>2, RowsAlwaysAgree, PTL DEF Spec

(* The sessions whose charge is closed by a step, or that wait for another *)
(* tag, lose their idTag in that step.                                     *)
LEMMA EndedTags ==
  ASSUME IInv, NEW S, NEW s \in S \cap Session, startPc[s] # "none",
         StateAfterEnd(S)[s] = "ENDED", sState[s] # "ENDED"
  PROVE  s \in SpentAfterEnd(S)
BY DEF IInv, StartPhase, StateAfterEnd, SpentAfterEnd, AlreadyEnded

(* Messages, jobs and the connection: a session that closes has its idTag  *)
(* spent by the same step.                                                 *)
LEMMA TransactionsSpend ==
  ASSUME IInv, ClosedSessionHasSpentTag, ChargerMessage \/ LinkStep \/ WorkerStep
  PROVE  ClosedSessionHasSpentTag'
<1> USE DEF IInv, TypeOK, StoreTypeOK, ClosedSessionHasSpentTag
<1>0. UNCHANGED startPc
  BY DEF ChargerMessage, LinkStep, WorkerStep, callVars
<1>1. ASSUME NEW t \in Transaction, NEW c \in Connector, NEW tag, NEW n \in Session,
             StartMatched(t, c, tag, n) \/ StartUnsolicited(t, c, tag, n)
      PROVE  ClosedSessionHasSpentTag'
  <2> SUFFICES ASSUME NEW s \in Session, startPc[s] # "none",
                      sState'[s] \in {"ENDED", "FAILED", "CANCELLED", "EXPIRED"}
               PROVE  s \in spent'
    BY <1>0
  <2>1. AfterDisplaced(c)[s] = "ENDED" /\ sState[s] # "ENDED"
          => s \in SpentAfterEnd(Displaced(c))
    BY EndedTags, DisplacedSessions DEF AfterDisplaced
  <2>2. spent \subseteq SpentAfterEnd(Displaced(c))
    BY DEF SpentAfterEnd
  <2>3. CASE StartMatched(t, c, tag, n)
    BY <2>1, <2>2, <2>3, DisplacedSessions DEF StartMatched
  <2>4. CASE StartUnsolicited(t, c, tag, n)
    <3>1. sState'[s] = IF s = n THEN "CHARGING"
                       ELSE IF s \in StartingOn(c, AfterDisplaced(c)) THEN "EXPIRED"
                       ELSE AfterDisplaced(c)[s]
      BY <2>4 DEF StartUnsolicited
    <3>2. spent' = SpentAfterEnd(Displaced(c)) \cup StartingOn(c, AfterDisplaced(c))
      BY <2>4 DEF StartUnsolicited
    <3> QED
      BY <2>1, <2>2, <3>1, <3>2, DisplacedSessions
  <2> QED
    BY <1>1, <2>3, <2>4
<1>2. ASSUME NEW t \in Transaction, NEW to, CloseTransaction(t, to)
      PROVE  ClosedSessionHasSpentTag'
  <2> SUFFICES ASSUME NEW s \in Session, startPc[s] # "none",
                      sState'[s] \in {"ENDED", "FAILED", "CANCELLED", "EXPIRED"}
               PROVE  s \in spent'
    BY <1>0
  <2>1. CASE sState'[s] = sState[s]
    BY <1>2, <2>1 DEF CloseTransaction, SpentAfterEnd
  <2>2. CASE sState'[s] # sState[s]
    BY <1>2, <2>2, EndedTags DEF CloseTransaction, StateAfterEnd
  <2> QED
    BY <2>1, <2>2
<1>3. ASSUME NEW c \in Connector, NEW s \in Session,
             NEW to \in ActiveStates \cup {"STOPPING"},
             StatusMoved(c, s, to) \/ StatusUnplugged(c, s) \/ ExpireStart(s)
      PROVE  ClosedSessionHasSpentTag'
  BY <1>0, <1>3 DEF StatusMoved, StatusUnplugged, ExpireStart, ActiveStates
<1>4. ASSUME UNCHANGED <<sState, spent>> PROVE ClosedSessionHasSpentTag'
  BY <1>0, <1>4
<1>5. CASE ChargerMessage
  <2>1. ASSUME NEW t \in Transaction, NEW c \in Connector, ChargerStart(t, c)
        PROVE  ClosedSessionHasSpentTag'
    BY <2>1, <1>1, <1>4 DEF ChargerStart, StartRepeated, storeVars
  <2>2. ASSUME NEW t \in Transaction, ChargerStop(t) PROVE ClosedSessionHasSpentTag'
    BY <2>2, <1>2, <1>4 DEF ChargerStop, StopTransaction, StopRepeated, OrphanStop,
                            storeVars, sessionRow
  <2>3. ASSUME NEW c \in Connector, ChargerStatus(c) PROVE ClosedSessionHasSpentTag'
    BY <2>3, <1>2, <1>3 DEF ChargerStatus, StatusLost
  <2> QED
    BY <1>5, <2>1, <2>2, <2>3, <1>4 DEF ChargerMessage, Boot
<1>6. CASE LinkStep
  BY <1>6, <1>4 DEF LinkStep, sessionRow
<1>7. CASE WorkerStep
  BY <1>7, <1>2, <1>3 DEF WorkerStep, CloseOrphan
<1> QED
  BY <1>5, <1>6, <1>7

(***************************************************************************)
(* The idTag of a requested session that is over is spent.                 *)
(***************************************************************************)
THEOREM ClosedTagsAreSpent == Spec => []ClosedSessionHasSpentTag
<1>1. Init => ClosedSessionHasSpentTag
  BY DEF Init, StoreInit, ServiceInit, ClosedSessionHasSpentTag
<1>2. IInv /\ ClosedSessionHasSpentTag /\ [Next]_vars => ClosedSessionHasSpentTag'
  <2> SUFFICES ASSUME IInv, ClosedSessionHasSpentTag, [Next]_vars
               PROVE  ClosedSessionHasSpentTag'
    OBVIOUS
  <2> USE DEF IInv, TypeOK, StoreTypeOK, ServiceTypeOK, ClosedSessionHasSpentTag
  <2>1. ASSUME NEW s \in Session, NEW c \in Connector, RequestStart(s, c)
        PROVE  ClosedSessionHasSpentTag'
    BY <2>1 DEF RequestStart
  <2>2. ASSUME NEW s \in Session, StartStep(s)
        PROVE  ClosedSessionHasSpentTag'
    BY <2>2 DEF StartStep, PaymentDenied, PaymentAuthorized, PaymentAuthorizedTooLate,
                NoTariff, RemoteStartAccepted, RemoteStartAcceptedTooLate,
                RemoteStartFailed, Fail, storeVars
  <2>3. ASSUME NEW s \in Session, StartThrows(s)
        PROVE  ClosedSessionHasSpentTag'
    BY <2>3 DEF StartThrows, StartInFlight, storeVars
  <2>4. ASSUME NEW s \in Session, NEW r \in Requester, Cancel(s, r)
        PROVE  ClosedSessionHasSpentTag'
    BY <2>4 DEF Cancel, callVars
  <2>5. ASSUME NEW k \in StopCall, NEW s \in Session, RequestStop(k, s)
        PROVE  ClosedSessionHasSpentTag'
    BY <2>5 DEF RequestStop, storeVars
  <2>6. ASSUME NEW k \in StopCall, StopStep(k) \/ StopCrash(k)
        PROVE  ClosedSessionHasSpentTag'
    BY <2>6 DEF StopStep, ClaimStop, RemoteStopAccepted, RemoteStopFailed, StopCrash, storeVars
  <2>7. CASE UNCHANGED vars
    BY <2>7 DEF vars, storeVars, callVars
  <2> QED
    BY <2>1, <2>2, <2>3, <2>4, <2>5, <2>6, <2>7, TransactionsSpend DEF Next, ServiceNext
<1> QED
  BY <1>1, <1>2, RowsAlwaysAgree, PTL DEF Spec

-----------------------------------------------------------------------------
(* What a step may never do                                                *)

(***************************************************************************)
(* A closed transaction stays closed, with its session.                    *)
(***************************************************************************)
THEOREM ClosedTransactionsAreFinal == Spec => ClosedTransactionIsFinal
<1>1. ASSUME IInv, [Next]_vars, NEW x \in Transaction PROVE StaysClosed(x)
  <2> USE <1>1 DEF IInv, TransactionStates
  <2>1. ASSUME UNCHANGED <<tState, tSession>> PROVE StaysClosed(x)
    BY <2>1 DEF StaysClosed
  <2>2. CASE ServiceNext
    <3>1. UNCHANGED <<tState, tSession>>
      BY <2>2 DEF ServiceNext, RequestStart, StartStep, PaymentDenied,
                  PaymentAuthorized, PaymentAuthorizedTooLate, NoTariff,
                  RemoteStartAccepted, RemoteStartAcceptedTooLate, RemoteStartFailed,
                  Fail, StartThrows, Cancel, RequestStop, StopStep, ClaimStop,
                  RemoteStopAccepted, RemoteStopFailed, StopCrash, storeVars,
                  transactionRow
    <3> QED
      BY <2>1, <3>1
  <2>3. ASSUME NEW t \in Transaction, NEW c \in Connector, NEW tag, NEW n \in Session,
               StartMatched(t, c, tag, n) \/ StartUnsolicited(t, c, tag, n)
        PROVE  StaysClosed(x)
    <3>1. Insert(t, c, n) /\ tState[t] = "ABSENT"
      BY <2>3 DEF StartMatched, StartUnsolicited
    <3>2. CASE x = t
      BY <3>1, <3>2 DEF StaysClosed, RowsAgree, Unlinked
    <3>3. CASE x # t
      <4>1. tSession'[x] = tSession[x]
        BY <3>1, <3>3 DEF Insert
      <4>2. tState[x] # "ACTIVE" => tState'[x] = tState[x]
        BY <3>1, <3>3 DEF Insert, ActiveOn
      <4> QED
        BY <4>1, <4>2 DEF StaysClosed
    <3> QED
      BY <3>2, <3>3
  <2>4. ASSUME NEW t \in Transaction, NEW to, CloseTransaction(t, to)
        PROVE  StaysClosed(x)
    BY <2>4 DEF CloseTransaction, StaysClosed
  <2>5. ASSUME NEW t \in Transaction, OrphanStop(t) PROVE StaysClosed(x)
    BY <2>5 DEF OrphanStop, StaysClosed
  <2>6. CASE ChargerMessage
    <3>1. ASSUME NEW t \in Transaction, NEW c \in Connector, ChargerStart(t, c)
          PROVE  StaysClosed(x)
      BY <3>1, <2>1, <2>3 DEF ChargerStart, StartRepeated, storeVars
    <3>2. ASSUME NEW t \in Transaction, ChargerStop(t) PROVE StaysClosed(x)
      BY <3>2, <2>1, <2>4, <2>5 DEF ChargerStop, StopTransaction, StopRepeated, storeVars
    <3>3. ASSUME NEW c \in Connector, ChargerStatus(c) PROVE StaysClosed(x)
      BY <3>3, <2>1, <2>4 DEF ChargerStatus, StatusMoved, StatusUnplugged, StatusLost,
                              transactionRow
    <3> QED
      BY <2>6, <3>1, <3>2, <3>3, <2>1 DEF ChargerMessage, Boot, transactionRow
  <2>7. CASE LinkStep
    BY <2>7, <2>1 DEF LinkStep, transactionRow
  <2>8. CASE WorkerStep
    <3>1. ASSUME NEW s \in Session, ExpireStart(s) PROVE StaysClosed(x)
      BY <3>1, <2>1 DEF ExpireStart, transactionRow
    <3>2. ASSUME NEW t \in Transaction, CloseOrphan(t) PROVE StaysClosed(x)
      BY <3>2, <2>4 DEF CloseOrphan
    <3> QED
      BY <2>8, <3>1, <3>2 DEF WorkerStep
  <2>9. CASE UNCHANGED vars
    BY <2>9, <2>1 DEF vars, storeVars
  <2> QED
    BY <2>2, <2>6, <2>7, <2>8, <2>9 DEF Next
<1>2. IInv /\ [Next]_vars => [\A t \in Transaction : StaysClosed(t)]_vars
  BY <1>1
<1> QED
  BY <1>2, RowsAlwaysAgree, PTL DEF Spec, ClosedTransactionIsFinal

(* Messages and jobs move the sessions along the table: the displaced and  *)
(* the closed sessions end, those that wait expire or charge.              *)
LEMMA TransactionsMove ==
  ASSUME IInv, ChargerMessage \/ LinkStep \/ WorkerStep, NEW s \in Session
  PROVE  sState[s] # "ABSENT" /\ sState'[s] # sState[s]
           => CanTransition(sState[s], sState'[s])
<1> DEFINE Moved == sState[s] # "ABSENT" /\ sState'[s] # sState[s]
                      => CanTransition(sState[s], sState'[s])
<1> USE DEF IInv, TypeOK, StoreTypeOK, ActiveStates, ChargingStates
<1>0. /\ \A from \in ChargingStates : CanTransition(from, "ENDED")
      /\ CanTransition("STARTING", "EXPIRED")
      /\ CanTransition("STARTING", "CHARGING")
      /\ CanTransition("EXPIRED", "CHARGING")
  BY DEF CanTransition, TRANSITIONS, SessionStates
<1>1. ASSUME NEW t \in Transaction, NEW c \in Connector, NEW tag, NEW n \in Session,
             StartMatched(t, c, tag, n) \/ StartUnsolicited(t, c, tag, n)
      PROVE  Moved
  <2>1. CASE StartMatched(t, c, tag, n)
    <3>1. AfterDisplaced(c)[n] \in {"STARTING", "EXPIRED"}
      BY <2>1 DEF StartMatched, SessionsForStart, StartingOn, ExpiredWaitingFor
    <3>2. sState'[s] = IF s = n THEN "CHARGING" ELSE AfterDisplaced(c)[s]
      BY <2>1, DisplacedSessions DEF StartMatched
    <3> QED
      BY <1>0, <3>1, <3>2, DisplacedSessions
  <2>2. CASE StartUnsolicited(t, c, tag, n)
    <3>1. sState'[s] = IF s = n THEN "CHARGING"
                       ELSE IF s \in StartingOn(c, AfterDisplaced(c)) THEN "EXPIRED"
                       ELSE AfterDisplaced(c)[s]
      BY <2>2 DEF StartUnsolicited
    <3>2. sState[n] = "ABSENT"
      BY <2>2 DEF StartUnsolicited
    <3> QED
      BY <1>0, <3>1, <3>2, DisplacedSessions DEF StartingOn
  <2> QED
    BY <1>1, <2>1, <2>2
<1>2. ASSUME NEW t \in Transaction, NEW to, CloseTransaction(t, to) PROVE Moved
  BY <1>0, <1>2 DEF CloseTransaction, StateAfterEnd, SessionsOf, RowsAgree,
                    RunningTransactionHasSession
<1>3. ASSUME NEW c \in Connector, NEW x \in Session,
             NEW to \in ActiveStates \cup {"STOPPING"}, StatusMoved(c, x, to)
      PROVE  Moved
  <2>1. CanTransition(sState[x], to)
    BY <1>3 DEF StatusMoved, StatusMoves, CanTransition, TRANSITIONS, SessionStates
  <2> QED
    BY <1>3, <2>1 DEF StatusMoved
<1>4. ASSUME NEW c \in Connector, NEW x \in Session,
             StatusUnplugged(c, x) \/ ExpireStart(x)
      PROVE  Moved
  BY <1>0, <1>4 DEF StatusUnplugged, ExpireStart
<1>5. ASSUME UNCHANGED sState PROVE Moved
  BY <1>5
<1>6. CASE ChargerMessage
  <2>1. ASSUME NEW t \in Transaction, NEW c \in Connector, ChargerStart(t, c) PROVE Moved
    BY <2>1, <1>1, <1>5 DEF ChargerStart, StartRepeated, storeVars
  <2>2. ASSUME NEW t \in Transaction, ChargerStop(t) PROVE Moved
    BY <2>2, <1>2, <1>5 DEF ChargerStop, StopTransaction, StopRepeated, OrphanStop,
                            storeVars, sessionRow
  <2>3. ASSUME NEW c \in Connector, ChargerStatus(c) PROVE Moved
    BY <2>3, <1>2, <1>3, <1>4 DEF ChargerStatus, StatusLost
  <2> QED
    BY <1>6, <2>1, <2>2, <2>3, <1>5 DEF ChargerMessage, Boot
<1>7. CASE LinkStep
  BY <1>7, <1>5 DEF LinkStep, sessionRow
<1>8. CASE WorkerStep
  BY <1>8, <1>2, <1>4 DEF WorkerStep, CloseOrphan
<1> QED
  BY <1>6, <1>7, <1>8

(* So do the calls, except for a requestStart that finds its session       *)
(* cancelled.                                                              *)
LEMMA ServiceMoves ==
  ASSUME IInv, ServiceNext, NEW s \in Session
  PROVE  MovesAlongTheTable(s)
<1> USE DEF IInv, TypeOK, StoreTypeOK, MovesAlongTheTable
<1>0. /\ \A from \in {"REQUESTED", "AUTHORIZED"} : CanTransition(from, "FAILED")
      /\ \A from \in CancellableStates : CanTransition(from, "CANCELLED")
      /\ CanTransition("REQUESTED", "AUTHORIZED")
      /\ CanTransition("AUTHORIZED", "STARTING")
      /\ \A from \in ActiveStates : CanTransition(from, "STOPPING")
  BY DEF CanTransition, TRANSITIONS, SessionStates, CancellableStates, ActiveStates
<1>1. ASSUME NEW x \in Session, NEW c \in Connector, RequestStart(x, c)
      PROVE  MovesAlongTheTable(s)
  BY <1>1 DEF RequestStart
<1>2. ASSUME NEW x \in Session, StartStep(x) PROVE MovesAlongTheTable(s)
  <2>1. CASE PaymentDenied(x) \/ NoTariff(x) \/ RemoteStartFailed(x)
    BY <1>0, <2>1 DEF PaymentDenied, NoTariff, RemoteStartFailed, Fail, StartPhase, StartInFlight
  <2>2. CASE PaymentAuthorized(x) \/ RemoteStartAccepted(x)
    BY <1>0, <2>2 DEF PaymentAuthorized, RemoteStartAccepted, StartPhase, StartInFlight
  <2>3. CASE PaymentAuthorizedTooLate(x) \/ RemoteStartAcceptedTooLate(x)
    BY <2>3 DEF PaymentAuthorizedTooLate, RemoteStartAcceptedTooLate, storeVars
  <2> QED
    BY <1>2, <2>1, <2>2, <2>3 DEF StartStep
<1>3. ASSUME NEW x \in Session, StartThrows(x) PROVE MovesAlongTheTable(s)
  BY <1>3 DEF StartThrows, storeVars
<1>4. ASSUME NEW x \in Session, NEW r \in Requester, Cancel(x, r)
      PROVE  MovesAlongTheTable(s)
  BY <1>0, <1>4 DEF Cancel
<1>5. ASSUME NEW k \in StopCall, NEW x \in Session, RequestStop(k, x)
      PROVE  MovesAlongTheTable(s)
  BY <1>5 DEF RequestStop, storeVars
<1>6. ASSUME NEW k \in StopCall, StopStep(k) \/ StopCrash(k)
      PROVE  MovesAlongTheTable(s)
  BY <1>0, <1>6 DEF StopStep, StopCrash, ClaimStop, RemoteStopAccepted, RemoteStopFailed,
                    IsActive, storeVars
<1> QED
  BY <1>1, <1>2, <1>3, <1>4, <1>5, <1>6 DEF ServiceNext

(***************************************************************************)
(* Every session moves along the table of the domain, a cancellation       *)
(* overwritten by its own requestStart aside.                              *)
(***************************************************************************)
THEOREM SessionsFollowTheTable == Spec => OnlyCancellationIsOverwritten
<1>1. IInv /\ [Next]_vars => [\A s \in Session : MovesAlongTheTable(s)]_vars
  BY ServiceMoves, TransactionsMove DEF Next, MovesAlongTheTable
<1> QED
  BY <1>1, RowsAlwaysAgree, PTL DEF Spec, OnlyCancellationIsOverwritten

-----------------------------------------------------------------------------
(* A requestStart in flight has not been overtaken by a cancellation.      *)
StartNotCancelled ==
  \A s \in Session : StartInFlight(s) => sState[s] \in {"REQUESTED", "AUTHORIZED"}

(* Without cancellation during a start, a start in flight finds its        *)
(* session as it left it.                                                  *)
LEMMA StartNotCancelledStep ==
  ASSUME CancelDuringStart = FALSE, IInv, StartNotCancelled, [Next]_vars
  PROVE  StartNotCancelled'
<1> USE DEF IInv, TypeOK, StoreTypeOK, ServiceTypeOK, StartNotCancelled, StartInFlight
<1>1. ASSUME NEW s \in Session, NEW c \in Connector, RequestStart(s, c)
      PROVE  StartNotCancelled'
  BY <1>1 DEF RequestStart
<1>2. ASSUME NEW s \in Session, StartStep(s) \/ StartThrows(s)
      PROVE  StartNotCancelled'
  BY <1>2 DEF StartStep, PaymentDenied, PaymentAuthorized, PaymentAuthorizedTooLate,
              NoTariff, RemoteStartAccepted, RemoteStartAcceptedTooLate,
              RemoteStartFailed, Fail, StartThrows, storeVars
<1>3. ASSUME NEW s \in Session, NEW r \in Requester, Cancel(s, r)
      PROVE  StartNotCancelled'
  BY <1>3 DEF Cancel, callVars
<1>4. ASSUME NEW k \in StopCall, NEW s \in Session, RequestStop(k, s)
      PROVE  StartNotCancelled'
  BY <1>4 DEF RequestStop, storeVars
<1>5. ASSUME NEW k \in StopCall, StopStep(k) \/ StopCrash(k)
      PROVE  StartNotCancelled'
  BY <1>5 DEF StopStep, ClaimStop, RemoteStopAccepted, RemoteStopFailed, StopCrash,
              IsActive, ActiveStates, storeVars
<1>6. CASE ChargerMessage \/ LinkStep \/ WorkerStep
  <2>1. UNCHANGED startPc
    BY <1>6 DEF ChargerMessage, LinkStep, WorkerStep, callVars
  <2> QED
    BY <1>6, <2>1, TransactionsLeaveWaiting
<1>7. CASE UNCHANGED vars
  BY <1>7 DEF vars, storeVars, callVars
<1> QED
  BY <1>1, <1>2, <1>3, <1>4, <1>5, <1>6, <1>7 DEF Next, ServiceNext

-----------------------------------------------------------------------------
(* The reservation of a stop                                               *)

(* A session that has not charged yet: nobody has asked to stop it.        *)
BeforeCharging == {"ABSENT", "REQUESTED", "AUTHORIZED", "STARTING", "EXPIRED"}

NotAskedYet == \A s \in Session : sState[s] \in BeforeCharging => stopBy[s] = None

Held == NotAskedYet /\ ReservationIsHeld

(* Where a step leaves the calls alone, it is enough that no session that  *)
(* was asked to stop comes to charge.                                      *)
LEMMA SameCalls ==
  ASSUME Held, UNCHANGED callVars,
         \A s \in Session :
           /\ sState'[s] \in BeforeCharging => sState[s] \in BeforeCharging /\ stopBy'[s] = stopBy[s]
           /\ IsActive(s)' => /\ sState[s] \in BeforeCharging \cup ActiveStates
                              /\ stopBy'[s] = stopBy[s]
  PROVE  Held'
<1>1. NotAskedYet'
  BY DEF Held, NotAskedYet
<1>2. ReservationIsHeld'
  <2> SUFFICES ASSUME NEW s \in Session, IsActive(s)', stopBy'[s] # None
               PROVE  \E k \in claimed' : stopPc'[k] = "sent" /\ stopTarget'[k] = s /\ stopBy'[s] = RequesterOf[k]
    BY DEF ReservationIsHeld
  <2>1. IsActive(s) /\ stopBy[s] # None /\ stopBy'[s] = stopBy[s]
    BY DEF Held, NotAskedYet, IsActive
  <2>2. UNCHANGED <<claimed, stopPc, stopTarget>>
    BY DEF callVars
  <2>. QED BY <2>1, <2>2 DEF Held, ReservationIsHeld
<1>. QED BY <1>1, <1>2 DEF Held

(* Nobody but requestStop and cancel writes stop_requested_by, except for  *)
(* a session that the charge point stops.                                  *)
LEMMA TransactionsClaim ==
  ASSUME IInv, ChargerMessage \/ LinkStep \/ WorkerStep, NEW s \in Session
  PROVE  stopBy'[s] = stopBy[s] \/ sState'[s] = "STOPPING"
<1> USE DEF IInv, TypeOK, StoreTypeOK
<1>1. ASSUME NEW t \in Transaction, NEW to, CloseTransaction(t, to) PROVE stopBy' = stopBy
  BY <1>1 DEF CloseTransaction
<1>2. CASE ChargerMessage
  <2>1. ASSUME NEW t \in Transaction, NEW c \in Connector, ChargerStart(t, c) PROVE stopBy' = stopBy
    BY <2>1 DEF ChargerStart, StartMatched, StartUnsolicited, StartRepeated, storeVars
  <2>2. ASSUME NEW t \in Transaction, ChargerStop(t) PROVE stopBy' = stopBy
    BY <2>2, <1>1 DEF ChargerStop, StopTransaction, StopRepeated, OrphanStop, storeVars, sessionRow
  <2>3. ASSUME NEW c \in Connector, ChargerStatus(c)
        PROVE  stopBy'[s] = stopBy[s] \/ sState'[s] = "STOPPING"
    <3>1. ASSUME NEW x \in Session, NEW to \in ActiveStates \cup {"STOPPING"}, StatusMoved(c, x, to)
          PROVE  stopBy'[s] = stopBy[s] \/ sState'[s] = "STOPPING"
      BY <3>1 DEF StatusMoved
    <3>. QED BY <1>1, <2>3, <3>1 DEF ChargerStatus, StatusUnplugged, StatusLost
  <2>. QED BY <1>2, <2>1, <2>2, <2>3 DEF ChargerMessage, Boot
<1>3. CASE LinkStep
  BY <1>3 DEF LinkStep, sessionRow
<1>4. CASE WorkerStep
  BY <1>4, <1>1 DEF WorkerStep, CloseOrphan, ExpireStart
<1>. QED BY <1>2, <1>3, <1>4

LEMMA TransactionsHold ==
  ASSUME IInv, Held, ChargerMessage \/ LinkStep \/ WorkerStep PROVE Held'
<1>1. UNCHANGED callVars
  BY DEF ChargerMessage, LinkStep, WorkerStep
<1>2. ASSUME NEW s \in Session
      PROVE  /\ sState'[s] \in BeforeCharging => sState[s] \in BeforeCharging /\ stopBy'[s] = stopBy[s]
             /\ IsActive(s)' => /\ sState[s] \in BeforeCharging \cup ActiveStates
                                /\ stopBy'[s] = stopBy[s]
  <2>1. sState[s] \in SessionStates \cup {"ABSENT"}
    BY DEF IInv, TypeOK, StoreTypeOK
  <2>2. sState[s] = "ABSENT" \/ sState'[s] = sState[s] \/ sState'[s] \in TRANSITIONS[sState[s]]
    BY TransactionsMove DEF CanTransition
  <2>3. \A from \in SessionStates : \A to \in TRANSITIONS[from] :
          /\ to \in BeforeCharging => from \in BeforeCharging
          /\ to \in ActiveStates => from \in BeforeCharging \cup ActiveStates
    BY DEF SessionStates, TRANSITIONS, BeforeCharging, ActiveStates
  <2>4. stopBy'[s] = stopBy[s] \/ sState'[s] = "STOPPING"
    BY TransactionsClaim
  <2>. QED BY <2>1, <2>2, <2>3, <2>4 DEF IsActive, BeforeCharging, ActiveStates
<1>. QED BY <1>1, <1>2, SameCalls

(* The steps of a requestStart and a cancellation: none of them touches a  *)
(* session that charges.                                                   *)
LEMMA StartsHold ==
  ASSUME IInv, Held, StartNotCancelled,
         \/ \E s \in Session, c \in Connector : RequestStart(s, c)
         \/ \E s \in Session : StartStep(s) \/ StartThrows(s)
         \/ \E s \in Session, r \in Requester : Cancel(s, r)
  PROVE  Held'
<1> USE DEF IInv, TypeOK, StoreTypeOK, ServiceTypeOK
<1>1. UNCHANGED <<stopPc, stopTarget, claimed>>
  BY DEF RequestStart, StartStep, PaymentDenied, PaymentAuthorized, PaymentAuthorizedTooLate, NoTariff,
         RemoteStartAccepted, RemoteStartAcceptedTooLate, RemoteStartFailed, Fail, StartThrows, Cancel,
         stopCallVars, callVars
<1>2. PICK x \in Session :
        /\ \A s \in Session \ {x} : sState'[s] = sState[s] /\ stopBy'[s] = stopBy[s]
        /\ \/ sState'[x] = sState[x] /\ stopBy'[x] = stopBy[x]
           \/ sState[x] \in BeforeCharging /\ sState'[x] \in BeforeCharging /\ stopBy'[x] = stopBy[x]
           \/ sState'[x] \in {"FAILED", "CANCELLED"}
  <2>1. ASSUME NEW x \in Session, NEW c \in Connector, RequestStart(x, c)
        PROVE  /\ \A s \in Session \ {x} : sState'[s] = sState[s]
               /\ stopBy' = stopBy /\ sState[x] = "ABSENT" /\ sState'[x] = "REQUESTED"
    BY <2>1 DEF RequestStart
  <2>2. ASSUME NEW x \in Session, NEW pc, Fail(x, pc)
        PROVE  /\ \A s \in Session \ {x} : sState'[s] = sState[s]
               /\ stopBy' = stopBy /\ sState'[x] = "FAILED"
    BY <2>2 DEF Fail
  <2>3. ASSUME NEW x \in Session, PaymentAuthorized(x) \/ RemoteStartAccepted(x)
        PROVE  /\ \A s \in Session \ {x} : sState'[s] = sState[s]
               /\ stopBy' = stopBy /\ sState[x] \in BeforeCharging /\ sState'[x] \in BeforeCharging
    BY <2>3 DEF PaymentAuthorized, RemoteStartAccepted, StartNotCancelled, StartInFlight, BeforeCharging
  <2>4. ASSUME NEW x \in Session,
               PaymentAuthorizedTooLate(x) \/ RemoteStartAcceptedTooLate(x) \/ StartThrows(x)
        PROVE  sState' = sState /\ stopBy' = stopBy
    BY <2>4 DEF PaymentAuthorizedTooLate, RemoteStartAcceptedTooLate, StartThrows, storeVars
  <2>5. ASSUME NEW x \in Session, NEW r \in Requester, Cancel(x, r)
        PROVE  /\ \A s \in Session \ {x} : sState'[s] = sState[s] /\ stopBy'[s] = stopBy[s]
               /\ sState'[x] = "CANCELLED"
    BY <2>5 DEF Cancel
  <2>. QED BY <2>1, <2>2, <2>3, <2>4, <2>5
           DEF StartStep, PaymentDenied, NoTariff, RemoteStartFailed, BeforeCharging
<1>3. NotAskedYet'
  BY <1>2 DEF Held, NotAskedYet, BeforeCharging
<1>4. ReservationIsHeld'
  <2> SUFFICES ASSUME NEW s \in Session, IsActive(s)', stopBy'[s] # None
               PROVE  \E k \in claimed' : stopPc'[k] = "sent" /\ stopTarget'[k] = s /\ stopBy'[s] = RequesterOf[k]
    BY DEF ReservationIsHeld
  <2>1. IsActive(s) /\ stopBy'[s] = stopBy[s]
    BY <1>2 DEF IsActive, ActiveStates, BeforeCharging
  <2>. QED BY <1>1, <2>1 DEF Held, ReservationIsHeld
<1>. QED BY <1>3, <1>4 DEF Held

(* The steps of a requestStop: a claim is held from then on, and whoever   *)
(* gets no acceptance gives his own up.                                    *)
LEMMA StopsHold ==
  ASSUME IInv, Held, ~ApiMayCrash,
         \/ \E k \in StopCall, s \in Session : RequestStop(k, s)
         \/ \E k \in StopCall : StopStep(k) \/ StopCrash(k)
  PROVE  Held'
<1> USE DEF IInv, TypeOK, StoreTypeOK, ServiceTypeOK
<1>0. \A s \in Session : sState'[s] = sState[s] \/ (IsActive(s) /\ sState'[s] = "STOPPING")
  BY DEF RequestStop, StopStep, ClaimStop, RemoteStopAccepted, RemoteStopFailed, StopCrash, storeVars, IsActive
<1>1. \A s \in Session : sState[s] \in BeforeCharging => stopBy'[s] = stopBy[s]
  <2> SUFFICES ASSUME NEW s \in Session, sState[s] \in BeforeCharging PROVE stopBy'[s] = stopBy[s]
    OBVIOUS
  <2>1. ~IsActive(s)
    BY DEF IsActive, BeforeCharging, ActiveStates
  <2>. QED BY <2>1 DEF RequestStop, StopStep, ClaimStop, RemoteStopAccepted, RemoteStopFailed, Releasable,
                        StopCrash, storeVars
<1>2. NotAskedYet'
  <2>1. \A s \in Session : sState'[s] \in BeforeCharging => sState'[s] = sState[s]
    BY <1>0 DEF BeforeCharging
  <2>. QED BY <1>1, <2>1 DEF Held, NotAskedYet
<1>3. ReservationIsHeld'
  <2> SUFFICES ASSUME NEW s \in Session, IsActive(s)', stopBy'[s] # None
               PROVE  \E k \in claimed' : stopPc'[k] = "sent" /\ stopTarget'[k] = s /\ stopBy'[s] = RequesterOf[k]
    BY DEF ReservationIsHeld
  <2>1. IsActive(s) /\ sState'[s] = sState[s]
    BY <1>0 DEF IsActive, ActiveStates
  <2>2. stopBy[s] # None => \E k \in claimed : stopPc[k] = "sent" /\ stopTarget[k] = s /\ stopBy[s] = RequesterOf[k]
    BY <2>1 DEF Held, ReservationIsHeld
  <2>3. CASE \E k \in StopCall, x \in Session : RequestStop(k, x)
    BY <2>2, <2>3 DEF RequestStop, storeVars
  <2>4. ASSUME NEW k \in StopCall, ClaimStop(k)
        PROVE  \E j \in claimed' : stopPc'[j] = "sent" /\ stopTarget'[j] = s /\ stopBy'[s] = RequesterOf[j]
    <3>1. CASE s = stopTarget[k] /\ stopBy[s] = None
      <4>1. k \in claimed' /\ stopPc'[k] = "sent" /\ stopTarget'[k] = s /\ stopBy'[s] = RequesterOf[k]
        BY <2>1, <2>4, <3>1 DEF ClaimStop
      <4>. QED BY <4>1
    <3>2. CASE ~(s = stopTarget[k] /\ stopBy[s] = None)
      <4>1. stopBy'[s] = stopBy[s] /\ claimed \subseteq claimed' /\ stopTarget' = stopTarget
        BY <2>4, <3>2 DEF ClaimStop
      <4>2. \A j \in StopCall : stopPc[j] = "sent" => stopPc'[j] = "sent"
        BY <2>4 DEF ClaimStop
      <4>. QED BY <2>2, <4>1, <4>2
    <3>. QED BY <3>1, <3>2
  <2>5. ASSUME NEW k \in StopCall, RemoteStopAccepted(k)
        PROVE  \E j \in claimed' : stopPc'[j] = "sent" /\ stopTarget'[j] = s /\ stopBy'[s] = RequesterOf[j]
    <3>1. stopTarget[k] # s
      BY <2>1, <2>5 DEF RemoteStopAccepted, StopPhase, IsActive, ActiveStates
    <3>2. stopBy'[s] = stopBy[s] /\ claimed' = claimed /\ stopTarget' = stopTarget
      BY <2>5, <3>1 DEF RemoteStopAccepted
    <3>3. \A j \in StopCall \ {k} : stopPc'[j] = stopPc[j]
      BY <2>5 DEF RemoteStopAccepted
    <3>. QED BY <2>2, <3>1, <3>2, <3>3
  <2>6. ASSUME NEW k \in StopCall, RemoteStopFailed(k)
        PROVE  \E j \in claimed' : stopPc'[j] = "sent" /\ stopTarget'[j] = s /\ stopBy'[s] = RequesterOf[j]
    <3>1. /\ stopBy'[s] = stopBy[s] /\ claimed' = claimed /\ stopTarget' = stopTarget
          /\ stopTarget[k] = s => ~Releasable(k)
      BY <2>6 DEF RemoteStopFailed
    <3>2. \A j \in StopCall \ {k} : stopPc'[j] = stopPc[j]
      BY <2>6 DEF RemoteStopFailed
    <3>3. PICK j \in claimed : stopPc[j] = "sent" /\ stopTarget[j] = s /\ stopBy[s] = RequesterOf[j]
      BY <2>2, <3>1
    <3>4. j # k
      BY <2>1, <3>1, <3>3 DEF Releasable
    <3>. QED BY <3>1, <3>2, <3>3, <3>4
  <2>. QED BY <2>3, <2>4, <2>5, <2>6 DEF StopStep, StopCrash
<1>. QED BY <1>2, <1>3 DEF Held

(***************************************************************************)
(* A reservation of a stop is always held by a requestStop that waits for  *)
(* its answer, and is given up with it: the limits sweep never overlooks   *)
(* a session for ever.  Provided that no process dies with a call, and     *)
(* that no cancellation overtakes a requestStart.                          *)
(***************************************************************************)
THEOREM ReservationsAreHeld ==
  ASSUME ApiMayCrash = FALSE, CancelDuringStart = FALSE PROVE Spec => []ReservationIsHeld
<1>1. Init => Held /\ StartNotCancelled
  BY DEF Init, StoreInit, ServiceInit, Held, NotAskedYet, StartNotCancelled, StartInFlight, ReservationIsHeld,
         IsActive, ActiveStates
<1>2. IInv /\ StartNotCancelled /\ [Next]_vars => StartNotCancelled'
  BY StartNotCancelledStep
<1>3. IInv /\ StartNotCancelled /\ Held /\ [Next]_vars => Held'
  <2> SUFFICES ASSUME IInv, StartNotCancelled, Held, [Next]_vars PROVE Held'
    OBVIOUS
  <2>1. CASE UNCHANGED vars
    <3>1. UNCHANGED <<callVars, sState, stopBy>>
      BY <2>1 DEF vars, storeVars
    <3>. QED BY <3>1, SameCalls DEF IsActive
  <2>. QED BY <2>1, StartsHold, StopsHold, TransactionsHold DEF Next, ServiceNext
<1>4. Held => ReservationIsHeld
  BY DEF Held
<1>. QED BY <1>1, <1>2, <1>3, <1>4, RowsAlwaysAgree, PTL DEF Spec

-----------------------------------------------------------------------------
(***************************************************************************)
(* The services implement SessionLifecycle as long as nobody cancels a     *)
(* session whose requestStart has not returned.                            *)
(***************************************************************************)

(* The two copies of the vocabulary are the same.                          *)
LEMMA SameVocabulary ==
  /\ Lifecycle!LIVE_SESSION_STATES = LIVE_SESSION_STATES
  /\ Lifecycle!SessionStates = SessionStates
  /\ \A from, to : Lifecycle!CanTransition(from, to) <=> CanTransition(from, to)
BY DEF Lifecycle!LIVE_SESSION_STATES, LIVE_SESSION_STATES, Lifecycle!ActiveStates,
       ActiveStates, Lifecycle!SessionStates, SessionStates, Lifecycle!CanTransition,
       CanTransition, Lifecycle!TRANSITIONS, TRANSITIONS

(* A step that moves one session along the table, and makes it live only   *)
(* on a free EVSE, is a Move.                                              *)
LEMMA ImplementsMove ==
  ASSUME TypeOK, RowsAgree, NEW s \in Session, NEW to \in SessionStates,
         CanTransition(sState[s], to),
         to \in LIVE_SESSION_STATES =>
            \/ sState[s] \in LIVE_SESSION_STATES
            \/ FreeFor(s, EvseOfSession(s), sState),
         sState' = [sState EXCEPT ![s] = to],
         UNCHANGED sConn
  PROVE  Lifecycle!Next
<1>1. to \in LIVE_SESSION_STATES => FreeFor(s, EvseOfSession(s), sState)
  BY DEF FreeFor, RowsAgree, OneLiveSessionPerEvse
<1>2. to \in LIVE_SESSION_STATES => Lifecycle!FreeFor(s, EvseOfSession(s))
  BY <1>1, SameVocabulary DEF FreeFor, Lifecycle!FreeFor
<1>3. UNCHANGED [x \in Session |-> EvseOfSession(x)]
  BY DEF EvseOfSession
<1>4. Lifecycle!Move(s, to)
  BY <1>2, <1>3, SameVocabulary DEF Lifecycle!Move
<1> QED
  BY <1>4, SameVocabulary DEF Lifecycle!Next

(* A step that leaves states and connectors alone is invisible.            *)
LEMMA ImplementsStutter ==
  ASSUME UNCHANGED <<sState, sConn>>
  PROVE  UNCHANGED Lifecycle!vars
BY DEF Lifecycle!vars, EvseOfSession

(* A request is a Request.                                                 *)
LEMMA ImplementsRequest ==
  ASSUME TypeOK, NEW s \in Session, NEW c \in Connector, RequestStart(s, c)
  PROVE  Lifecycle!Next
<1>1. [x \in Session |-> EvseOfSession(x)]' =
         [[x \in Session |-> EvseOfSession(x)] EXCEPT ![s] = EvseOf[c]]
  BY DEF RequestStart, EvseOfSession, TypeOK, StoreTypeOK
<1>2. Lifecycle!Request(s, EvseOf[c])
  BY <1>1 DEF RequestStart, Lifecycle!Request
<1> QED
  BY <1>2, StoreAssumption DEF Lifecycle!Next

(* The start of a transaction is a Move or an Appear when it retires no    *)
(* session, and a TakeOver when it does: the session it retires was the    *)
(* one that was live on the EVSE.                                          *)
LEMMA ImplementsStarted ==
  ASSUME TypeOK, RowsAgree, NEW c \in Connector, NEW n \in Session,
         NEW st \in [Session -> SessionStates \cup {"ABSENT"}],
         \/ sState[n] = "ABSENT"
         \/ CanTransition(sState[n], "CHARGING") /\ EvseOfSession(n) = EvseOf[c],
         \A x \in Session \ {n} : st[x] # sState[x] =>
            /\ sState[x] \in LIVE_SESSION_STATES
            /\ EvseOfSession(x) = EvseOf[c]
            /\ CanTransition(sState[x], st[x])
            /\ st[x] \notin LIVE_SESSION_STATES,
         FreeFor(n, EvseOf[c], st),
         sState' = [st EXCEPT ![n] = "CHARGING"],
         sConn' = [sConn EXCEPT ![n] = c]
  PROVE  Lifecycle!Next
<1> DEFINE place == [x \in Session |-> EvseOfSession(x)]
           e == EvseOf[c]
<1>1. place' = [place EXCEPT ![n] = e]
  BY DEF EvseOfSession, TypeOK, StoreTypeOK
<1>2. e \in Evse /\ "CHARGING" \in SessionStates
  BY StoreAssumption DEF SessionStates
<1>3. CASE \A x \in Session \ {n} : st[x] = sState[x]
  <2>1. FreeFor(n, e, sState)
    BY <1>3 DEF FreeFor
  <2>2. Lifecycle!FreeFor(n, e)
    BY <2>1, SameVocabulary DEF FreeFor, Lifecycle!FreeFor
  <2>3. sState' = [sState EXCEPT ![n] = "CHARGING"]
    BY <1>3 DEF TypeOK, StoreTypeOK
  <2>4. CASE sState[n] = "ABSENT"
    <3>1. Lifecycle!Appear(n, e)
      BY <1>1, <2>2, <2>3, <2>4 DEF Lifecycle!Appear
    <3> QED
      BY <1>2, <3>1 DEF Lifecycle!Next
  <2>5. CASE CanTransition(sState[n], "CHARGING") /\ EvseOfSession(n) = e
    <3>1. UNCHANGED place
      BY <1>1, <2>5
    <3>2. Lifecycle!Move(n, "CHARGING")
      BY <2>2, <2>3, <2>5, <3>1, SameVocabulary DEF Lifecycle!Move
    <3> QED
      BY <1>2, <3>2, SameVocabulary DEF Lifecycle!Next
  <2> QED
    BY <2>4, <2>5
<1>4. CASE \E d \in Session \ {n} : st[d] # sState[d]
  <2>1. PICK d \in Session \ {n} : st[d] # sState[d]
    BY <1>4
  <2>2. \A x \in Session \ {n, d} :
          st[x] = sState[x] /\ ~(sState[x] \in LIVE_SESSION_STATES /\ EvseOfSession(x) = e)
    BY <2>1 DEF RowsAgree, OneLiveSessionPerEvse
  <2>3. sState' = [sState EXCEPT ![d] = st[d], ![n] = "CHARGING"]
    BY <2>1, <2>2 DEF TypeOK, StoreTypeOK
  <2>4. st[d] \in SessionStates
    BY <2>1 DEF CanTransition, TRANSITIONS, SessionStates
  <2>5. Lifecycle!TakeOver(d, st[d], n, e)
    BY <1>1, <2>1, <2>2, <2>3, SameVocabulary DEF Lifecycle!TakeOver
  <2> QED
    BY <1>2, <2>1, <2>4, <2>5, SameVocabulary DEF Lifecycle!Next
<1> QED
  BY <1>3, <1>4

(* Every message of the charge point, job and change of the connection     *)
(* implements a step of the lifecycle or none.                             *)
LEMMA TransactionsImplement ==
  ASSUME IInv, ChargerMessage \/ LinkStep \/ WorkerStep
  PROVE  Lifecycle!Next \/ UNCHANGED Lifecycle!vars
<1> DEFINE Implements == Lifecycle!Next \/ UNCHANGED Lifecycle!vars
<1> USE DEF IInv
<1>0. /\ \A from \in ChargingStates : CanTransition(from, "ENDED")
      /\ CanTransition("STARTING", "EXPIRED")
      /\ CanTransition("STARTING", "CHARGING")
      /\ CanTransition("EXPIRED", "CHARGING")
      /\ {"ENDED", "EXPIRED"} \cap LIVE_SESSION_STATES = {}
      /\ ChargingStates \cup {"STARTING"} \subseteq LIVE_SESSION_STATES
      /\ {"ENDED", "EXPIRED"} \subseteq SessionStates
  BY DEF CanTransition, TRANSITIONS, SessionStates, LIVE_SESSION_STATES,
         ChargingStates, ActiveStates
<1>1. ASSUME NEW t \in Transaction, NEW c \in Connector, NEW tag \in Tag,
             NEW n \in Session, StartMatched(t, c, tag, n)
      PROVE  Implements
  <2>1. \A x \in Session : AfterDisplaced(c)[x] # sState[x] =>
          /\ sState[x] \in LIVE_SESSION_STATES
          /\ EvseOfSession(x) = EvseOf[c]
          /\ CanTransition(sState[x], AfterDisplaced(c)[x])
          /\ AfterDisplaced(c)[x] \notin LIVE_SESSION_STATES
    BY <1>0, DisplacedSessions DEF EvseOfSession
  <2>2. /\ AfterDisplaced(c)[n] \in {"STARTING", "EXPIRED"}
        /\ EvseOfSession(n) = EvseOf[c]
    BY <1>1 DEF StartMatched, SessionsForStart, StartingOn, ExpiredWaitingFor
  <2>3. CanTransition(sState[n], "CHARGING")
    BY <1>0, <2>2, DisplacedSessions
  <2> QED
    BY <1>1, <2>1, <2>2, <2>3, DisplacedSessions, ImplementsStarted DEF StartMatched
<1>2. ASSUME NEW t \in Transaction, NEW c \in Connector, NEW tag \in Tag,
             NEW n \in Session, StartUnsolicited(t, c, tag, n)
      PROVE  Implements
  <2> DEFINE waiting == StartingOn(c, AfterDisplaced(c))
             expired == [x \in Session |->
                           IF x \in waiting THEN "EXPIRED" ELSE AfterDisplaced(c)[x]]
  <2>1. expired \in [Session -> SessionStates \cup {"ABSENT"}]
    BY DisplacedSessions DEF SessionStates
  <2>2. \A x \in Session : expired[x] # sState[x] =>
          /\ sState[x] \in LIVE_SESSION_STATES
          /\ EvseOfSession(x) = EvseOf[c]
          /\ CanTransition(sState[x], expired[x])
          /\ expired[x] \notin LIVE_SESSION_STATES
    BY <1>0, DisplacedSessions DEF EvseOfSession, StartingOn
  <2>3. /\ sState[n] = "ABSENT"
        /\ FreeFor(n, EvseOf[c], expired)
        /\ sState' = [expired EXCEPT ![n] = "CHARGING"]
        /\ sConn' = [sConn EXCEPT ![n] = c]
    BY <1>2 DEF StartUnsolicited
  <2> HIDE DEF expired
  <2> QED
    BY <2>1, <2>2, <2>3, ImplementsStarted
<1>3. ASSUME NEW t \in Transaction, NEW to, CloseTransaction(t, to) PROVE Implements
  <2>1. \A x \in SessionsOf({t}) : tSession[t] = x
    BY DEF SessionsOf
  <2>2. /\ tSession[t] \in SessionsOf({t})
        /\ sState[tSession[t]] \in ChargingStates
    BY <1>3 DEF CloseTransaction, SessionsOf, RowsAgree, RunningTransactionHasSession
  <2>3. sState' = [sState EXCEPT ![tSession[t]] = "ENDED"] /\ UNCHANGED sConn
    <3>1. ~AlreadyEnded(tSession[t]) /\ \A x \in Session : x \in SessionsOf({t}) <=> x = tSession[t]
      BY <2>1, <2>2 DEF AlreadyEnded, ChargingStates, ActiveStates, SessionsOf
    <3>2. sState' = [x \in Session |-> IF x = tSession[t] THEN "ENDED" ELSE sState[x]] /\ UNCHANGED sConn
      BY <1>3, <3>1 DEF CloseTransaction, StateAfterEnd
    <3>. QED BY <3>2 DEF TypeOK, StoreTypeOK
  <2>4. tSession[t] \in Session
    BY <2>2 DEF SessionsOf
  <2> QED
    BY <1>0, <2>2, <2>3, <2>4, ImplementsMove
<1>4. ASSUME NEW c \in Connector, NEW x \in Session,
             NEW to \in ActiveStates \cup {"STOPPING"}, StatusMoved(c, x, to)
      PROVE  Implements
  <2>1. CanTransition(sState[x], to)
    BY <1>4 DEF StatusMoved, StatusMoves, ActiveStates, CanTransition, TRANSITIONS, SessionStates
  <2>2. sState[x] \in LIVE_SESSION_STATES
    BY <1>4 DEF StatusMoved, LiveOn
  <2>3. to \in SessionStates
    BY DEF ActiveStates, SessionStates
  <2> QED
    BY <1>4, <2>1, <2>2, <2>3, ImplementsMove DEF StatusMoved
<1>5. ASSUME NEW c \in Connector, NEW x \in Session,
             StatusUnplugged(c, x) \/ ExpireStart(x)
      PROVE  Implements
  BY <1>0, <1>5, ImplementsMove DEF StatusUnplugged, ExpireStart
<1>6. ASSUME UNCHANGED <<sState, sConn>> PROVE Implements
  BY <1>6, ImplementsStutter
<1>7. CASE ChargerMessage
  <2>1. \A c \in Connector : Presentable(c) \subseteq Tag
    BY DEF Presentable, Tag
  <2>2. ASSUME NEW t \in Transaction, NEW c \in Connector, ChargerStart(t, c)
        PROVE  Implements
    BY <2>1, <2>2, <1>1, <1>2, <1>6 DEF ChargerStart, StartRepeated, storeVars
  <2>3. ASSUME NEW t \in Transaction, ChargerStop(t) PROVE Implements
    BY <2>3, <1>3, <1>6 DEF ChargerStop, StopTransaction, StopRepeated, OrphanStop,
                            storeVars, sessionRow
  <2>4. ASSUME NEW c \in Connector, ChargerStatus(c) PROVE Implements
    BY <2>4, <1>3, <1>4, <1>5 DEF ChargerStatus, StatusLost
  <2> QED
    BY <1>7, <2>2, <2>3, <2>4, <1>6 DEF ChargerMessage, Boot
<1>8. CASE LinkStep
  BY <1>8, <1>6 DEF LinkStep, sessionRow
<1>9. CASE WorkerStep
  <2>1. ASSUME NEW x \in Session, ExpireStart(x) PROVE Implements
    BY <2>1, <1>5, TransactionAssumption
  <2>2. ASSUME NEW t \in Transaction, CloseOrphan(t) PROVE Implements
    BY <2>2, <1>3 DEF CloseOrphan
  <2> QED
    BY <1>9, <2>1, <2>2 DEF WorkerStep
<1> QED
  BY <1>7, <1>8, <1>9

(* So does every step of a call.                                           *)
LEMMA ServiceImplements ==
  ASSUME IInv, StartNotCancelled, ServiceNext
  PROVE  Lifecycle!Next \/ UNCHANGED Lifecycle!vars
<1> DEFINE Implements == Lifecycle!Next \/ UNCHANGED Lifecycle!vars
<1> USE DEF IInv
<1>0. /\ \A from \in {"REQUESTED", "AUTHORIZED"} : CanTransition(from, "FAILED")
      /\ \A from \in CancellableStates : CanTransition(from, "CANCELLED")
      /\ CanTransition("REQUESTED", "AUTHORIZED")
      /\ CanTransition("AUTHORIZED", "STARTING")
      /\ \A from \in ActiveStates : CanTransition(from, "STOPPING")
      /\ {"FAILED", "CANCELLED"} \cap LIVE_SESSION_STATES = {}
      /\ ActiveStates \subseteq LIVE_SESSION_STATES
      /\ {"FAILED", "CANCELLED", "AUTHORIZED", "STARTING", "STOPPING"} \subseteq SessionStates
  BY DEF CanTransition, TRANSITIONS, SessionStates, CancellableStates, ActiveStates,
         LIVE_SESSION_STATES
<1>1. ASSUME NEW s \in Session, NEW c \in Connector, RequestStart(s, c)
      PROVE  Implements
  BY <1>1, ImplementsRequest
<1>2. ASSUME NEW s \in Session, StartStep(s) PROVE Implements
  <2>1. StartInFlight(s)
    BY <1>2 DEF StartStep, PaymentDenied, PaymentAuthorized, PaymentAuthorizedTooLate,
                NoTariff, RemoteStartAccepted, RemoteStartAcceptedTooLate,
                RemoteStartFailed, StartInFlight
  <2>2. sState[s] \in {"REQUESTED", "AUTHORIZED"}
    BY <2>1 DEF StartNotCancelled
  <2>3. CASE PaymentDenied(s) \/ NoTariff(s) \/ RemoteStartFailed(s)
    BY <1>0, <2>2, <2>3, ImplementsMove DEF PaymentDenied, NoTariff, RemoteStartFailed, Fail
  <2>4. CASE PaymentAuthorized(s)
    <3>1. sState[s] = "REQUESTED"
      BY <2>2, <2>4 DEF PaymentAuthorized, StartPhase
    <3>2. /\ FreeFor(s, EvseOfSession(s), sState)
          /\ sState' = [sState EXCEPT ![s] = "AUTHORIZED"] /\ UNCHANGED sConn
      BY <2>4 DEF PaymentAuthorized
    <3> QED
      BY <1>0, <3>1, <3>2, ImplementsMove
  <2>5. CASE RemoteStartAccepted(s)
    <3>1. sState[s] = "AUTHORIZED"
      BY <2>2, <2>5 DEF RemoteStartAccepted, StartPhase
    <3> QED
      BY <1>0, <2>5, <3>1, ImplementsMove DEF RemoteStartAccepted
  <2>6. CASE PaymentAuthorizedTooLate(s) \/ RemoteStartAcceptedTooLate(s)
    BY <2>6, ImplementsStutter DEF PaymentAuthorizedTooLate, RemoteStartAcceptedTooLate,
                                   storeVars
  <2> QED
    BY <1>2, <2>3, <2>4, <2>5, <2>6 DEF StartStep
<1>3. ASSUME NEW s \in Session, StartThrows(s) PROVE Implements
  BY <1>3, ImplementsStutter DEF StartThrows, storeVars
<1>4. ASSUME NEW s \in Session, NEW r \in Requester, Cancel(s, r) PROVE Implements
  BY <1>0, <1>4, ImplementsMove DEF Cancel
<1>5. ASSUME NEW k \in StopCall, NEW s \in Session, RequestStop(k, s) PROVE Implements
  BY <1>5, ImplementsStutter DEF RequestStop, storeVars
<1>6. ASSUME NEW k \in StopCall, ClaimStop(k) \/ RemoteStopFailed(k) \/ StopCrash(k)
      PROVE  Implements
  BY <1>6, ImplementsStutter DEF ClaimStop, RemoteStopFailed, StopCrash, storeVars
<1>7. ASSUME NEW k \in StopCall, RemoteStopAccepted(k) PROVE Implements
  <2>1. CASE IsActive(stopTarget[k])
    <3>1. stopTarget[k] \in Session
      BY <1>7 DEF RemoteStopAccepted, StopPhase
    <3> QED
      BY <1>0, <1>7, <2>1, <3>1, ImplementsMove DEF RemoteStopAccepted, IsActive
  <2>2. CASE ~IsActive(stopTarget[k])
    BY <1>7, <2>2, ImplementsStutter DEF RemoteStopAccepted
  <2> QED
    BY <2>1, <2>2
<1> QED
  BY <1>1, <1>2, <1>3, <1>4, <1>5, <1>6, <1>7 DEF ServiceNext, StopStep

(***************************************************************************)
(* SessionService and TransactionService together implement the lifecycle  *)
(* the domain promises, when no cancellation overtakes a requestStart.     *)
(***************************************************************************)
THEOREM ImplementsLifecycle ==
  ASSUME CancelDuringStart = FALSE
  PROVE  Spec => LifecycleSpec
<1>1. Init => StartNotCancelled /\ Lifecycle!Init
  BY StoreAssumption DEF Init, StoreInit, ServiceInit, StartNotCancelled, StartInFlight,
         Lifecycle!Init, EvseOfSession
<1>2. IInv /\ StartNotCancelled /\ [Next]_vars => StartNotCancelled'
  BY StartNotCancelledStep
<1>3. IInv /\ StartNotCancelled /\ [Next]_vars => [Lifecycle!Next]_(Lifecycle!vars)
  <2>1. UNCHANGED vars => UNCHANGED Lifecycle!vars
    BY ImplementsStutter DEF vars, storeVars
  <2> QED
    BY <2>1, ServiceImplements, TransactionsImplement DEF Next
<1> QED
  BY <1>1, <1>2, <1>3, RowsAlwaysAgree, PTL DEF Spec, LifecycleSpec, Lifecycle!Spec
==============================================================================
