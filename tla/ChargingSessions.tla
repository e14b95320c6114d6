--------------------------- MODULE ChargingSessions ---------------------------
(***************************************************************************)
(* The sessions of one charge point: SessionService and                    *)
(* TransactionService at work on the same rows, with nothing but           *)
(* PostgreSQL between them.                                                *)
(***************************************************************************)
EXTENDS SessionService, TransactionService

vars == <<storeVars, callVars>>

TypeOK == StoreTypeOK /\ ServiceTypeOK

Init == StoreInit /\ ServiceInit

-----------------------------------------------------------------------------
(* The tags a charge point may present on connector c: any card, and the   *)
(* virtual idTags it was sent for that connector.                          *)
Presentable(c) == Card \cup {s \in Session : Issued(s) /\ sConn[s] = c}

ChargerStart(t, c) ==
  \/ \E tag \in Presentable(c), s \in Session :
        StartMatched(t, c, tag, s) \/ StartUnsolicited(t, c, tag, s)
  \/ StartRepeated(t, c)

ChargerStop(t) == StopTransaction(t) \/ StopRepeated(t) \/ OrphanStop(t)

ChargerStatus(c) ==
  \E s \in Session :
    \/ \E to \in ActiveStates \cup {"STOPPING"} : StatusMoved(c, s, to)
    \/ StatusUnplugged(c, s)
    \/ \E t \in Transaction : StatusLost(c, s, t)

(* Messages of the charge point arrive while it is connected.              *)
ChargerMessage ==
  /\ link = "up"
  /\ \/ \E t \in Transaction, c \in Connector : ChargerStart(t, c)
     \/ \E t \in Transaction : ChargerStop(t)
     \/ \E c \in Connector : ChargerStatus(c)
     \/ Boot
  /\ UNCHANGED callVars

Disconnect == link = "up" /\ link' = "down"
StayAway == link = "down" /\ link' = "stale"
Reconnect == link # "up" /\ link' = "up"

LinkStep ==
  /\ Disconnect \/ StayAway \/ Reconnect
  /\ UNCHANGED <<sessionRow, transactionRow, callVars>>

WorkerStep ==
  /\ \/ \E s \in Session : ExpireStart(s)
     \/ \E t \in Transaction : CloseOrphan(t)
  /\ UNCHANGED callVars

Next == ServiceNext \/ ChargerMessage \/ LinkStep \/ WorkerStep

Spec == Init /\ [][Next]_vars

(***************************************************************************)
(* Fairness: Node runs every call that is awaiting to its next step (the   *)
(* payment port and the gateway answer, time out or throw), and the        *)
(* worker's scheduler runs each job again and again.  Nothing is assumed   *)
(* of the charge point, of its connection or of drivers.                   *)
(***************************************************************************)
Fairness ==
  /\ \A s \in Session : WF_vars(StartStep(s))
  /\ \A k \in StopCall : WF_vars(StopStep(k))
  /\ \A s \in Session : WF_vars(ExpireStart(s) /\ UNCHANGED callVars)
  /\ \A t \in Transaction : WF_vars(CloseOrphan(t) /\ UNCHANGED callVars)
  /\ WF_vars(StayAway /\ UNCHANGED <<sessionRow, transactionRow, callVars>>)

FairSpec == Spec /\ Fairness

-----------------------------------------------------------------------------
(* What makes the rows agree                                               *)

ChargingStates == ActiveStates \cup {"STOPPING"}

(***************************************************************************)
(* Two live sessions never share an EVSE: requestStart writes AUTHORIZED   *)
(* and STARTING without looking, startTransaction inserts and reopens      *)
(* sessions, and each must leave this true.                                *)
(***************************************************************************)
OneLiveSessionPerEvse ==
  \A x, y \in Session :
    (/\ sState[x] \in LIVE_SESSION_STATES
     /\ sState[y] \in LIVE_SESSION_STATES
     /\ EvseOfSession(x) = EvseOfSession(y)) => x = y

(***************************************************************************)
(* A transaction that is still running belongs to a session that is        *)
(* charging (or stopping) on the same connector, and each points at the    *)
(* other: no energy is delivered that no session will be billed for.       *)
(***************************************************************************)
RunningTransactionHasSession ==
  \A t \in Transaction : tState[t] = "ACTIVE" =>
    /\ tSession[t] \in Session
    /\ sState[tSession[t]] \in ChargingStates
    /\ sTx[tSession[t]] = t
    /\ sConn[tSession[t]] = tConn[t]

(***************************************************************************)
(* A session that is charging has a running transaction: endSession,       *)
(* closeEstimated and the blind writes of requestStart never leave a       *)
(* session charging for ever on an EVSE nobody uses.                       *)
(***************************************************************************)
ChargingSessionHasTransaction ==
  \A s \in Session : sState[s] \in ChargingStates =>
    /\ sTx[s] \in Transaction
    /\ tState[sTx[s]] = "ACTIVE"
    /\ tSession[sTx[s]] = s

(***************************************************************************)
(* connector.current_transaction_id names exactly the running transaction  *)
(* of the connector, so there is at most one.                              *)
(***************************************************************************)
ConnectorNamesItsTransaction ==
  /\ \A c \in Connector : currentTx[c] # None =>
       /\ tState[currentTx[c]] = "ACTIVE"
       /\ tConn[currentTx[c]] = c
  /\ \A t \in Transaction : tState[t] = "ACTIVE" =>
       /\ tConn[t] \in Connector
       /\ currentTx[tConn[t]] = t

(***************************************************************************)
(* The three kinds of rows agree, in whatever order StatusNotification,    *)
(* Start- and StopTransaction, boots, the sweeps and the requests of the   *)
(* api write them.                                                         *)
(***************************************************************************)
RowsMatch ==
  /\ RunningTransactionHasSession
  /\ ChargingSessionHasTransaction
  /\ ConnectorNamesItsTransaction

(***************************************************************************)
(* Whoever comes first, the stop of a session is attributed to somebody:   *)
(* a requester that gives up does not wipe out the attribution of a        *)
(* session that is stopping already.                                       *)
(***************************************************************************)
StoppingIsAttributed ==
  \A s \in Session : sState[s] = "STOPPING" => stopBy[s] # None

(***************************************************************************)
(* A session whose start is over for good has a spent idTag, so that the   *)
(* charge point is not told Accepted for it.                               *)
(***************************************************************************)
ClosedSessionHasSpentTag ==
  \A s \in Session :
    (startPc[s] # "none" /\ sState[s] \in {"ENDED", "FAILED", "CANCELLED", "EXPIRED"})
      => s \in spent

(***************************************************************************)
(* While a stop is reserved on a session that is still active, some        *)
(* requestStop in that name is waiting for its answer: a reservation left  *)
(* behind would hide the session from the limits sweep for ever.           *)
(***************************************************************************)
ReservationIsHeld ==
  \A s \in Session : (IsActive(s) /\ stopBy[s] # None) =>
    \E k \in claimed : /\ stopPc[k] = "sent"
                       /\ stopTarget[k] = s
                       /\ stopBy[s] = RequesterOf[k]

-----------------------------------------------------------------------------
(* What a step may never do                                                *)

MovesAlongTheTable(s) ==
  (sState[s] # "ABSENT" /\ sState'[s] # sState[s]) =>
    \/ CanTransition(sState[s], sState'[s])
    \/ sState[s] = "CANCELLED" /\ StartInFlight(s)

(***************************************************************************)
(* Every step moves every session along the table of the domain, except    *)
(* that a requestStart still in flight may overwrite a cancellation.       *)
(***************************************************************************)
OnlyCancellationIsOverwritten ==
  [][\A s \in Session : MovesAlongTheTable(s)]_vars

StaysClosed(t) ==
  /\ tState[t] \in TransactionStates \ {"ACTIVE"} => tState'[t] = tState[t]
  /\ tSession[t] # None => tSession'[t] = tSession[t]

(***************************************************************************)
(* A transaction that was closed stays closed, with the session it was     *)
(* recorded for: a repeated start or stop, however late, does not reopen   *)
(* it or move its energy to another bill.                                  *)
(***************************************************************************)
ClosedTransactionIsFinal ==
  [][\A t \in Transaction : StaysClosed(t)]_vars

-----------------------------------------------------------------------------
(* What must happen                                                        *)

(***************************************************************************)
(* No session stays on its way to charging for ever, holding the EVSE: it  *)
(* charges, fails, is cancelled or expires, unless its requestStart broke  *)
(* off after AUTHORIZED was committed and before the answer was recorded.  *)
(* Nothing but a cancellation ends such a session: expireStartTimeouts     *)
(* looks at STARTING ones only.                                            *)
(***************************************************************************)
BrokenOff(s) == sState[s] = "AUTHORIZED" /\ startPc[s] \in {"aborted", "thrown"}

StartIsResolved ==
  \A s \in Session :
    sState[s] \in {"AUTHORIZED", "STARTING"}
      ~> (sState[s] \notin {"AUTHORIZED", "STARTING"} \/ BrokenOff(s))

(***************************************************************************)
(* If the charge point goes away for good, every session that was charging *)
(* on it ends.  `link` is what its row says, `connected`: a pod of the     *)
(* gateway that dies leaves it TRUE, and then closeOrphanTransactions does *)
(* not see the charge point before it has connected and gone once more.    *)
(***************************************************************************)
LostChargerEndsSessions ==
  (<>[](link # "up")) => <>[](\A s \in Session : sState[s] \notin ChargingStates)

-----------------------------------------------------------------------------
(* What the documentation says and the code does not do                    *)

(***************************************************************************)
(* A cancelled session stays cancelled (TERMINAL_SESSION_STATES, and       *)
(* CANCELLED --> [*] in the data model).                                   *)
(***************************************************************************)
CancelledIsTerminal ==
  [][\A s \in Session : sState[s] = "CANCELLED" => sState'[s] = "CANCELLED"]_vars

(***************************************************************************)
(* A StartTransaction is always accepted (ADR 0016).                       *)
(***************************************************************************)
StartIsAlwaysAccepted ==
  \A c \in Connector : \A tag \in Presentable(c) : StartAccepted(c, tag)

(***************************************************************************)
(* A session gets a single RemoteStopTransaction at a time (limits.ts).    *)
(***************************************************************************)
OneRemoteStopInFlight ==
  \A j \in SweepCall, k \in StopCall :
    (stopPc[j] = "sent" /\ stopPc[k] = "sent" /\ stopTarget[j] = stopTarget[k]) => j = k

-----------------------------------------------------------------------------
Lifecycle == INSTANCE SessionLifecycle WITH
  NoEvse <- None,
  state <- sState,
  place <- [s \in Session |-> EvseOfSession(s)]

LifecycleSpec == Lifecycle!Spec
==============================================================================
