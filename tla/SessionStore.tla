----------------------------- MODULE SessionStore -----------------------------
(***************************************************************************)
(* The rows that SessionService (called by the api and the worker) and     *)
(* TransactionService (called by the gateway and the worker) share in      *)
(* PostgreSQL: sessions.charging_session, sessions.ocpp_transaction, the   *)
(* connectors of one charge point and the virtual idTags.  A step of a     *)
(* service is one database transaction; what the services keep in memory   *)
(* between two of them is declared in their own modules.                   *)
(***************************************************************************)
EXTENDS SessionDomain

CONSTANTS
  Session,      \* identities of charging_session rows; each also names the
                \* single-use virtual idTag issued with a requested session
  Transaction,  \* physical transactions: the content key of a StartTransaction
                \* (connector, timestamp, meterStart, idTag), one row at most
  Connector,    \* connectors of the charge point
  Evse,         \* its EVSEs
  EvseOf,       \* EvseOf[c]: the EVSE connector c belongs to
  Card,         \* idTags presented at the charger that no session issued
  DriverOf,     \* DriverOf[tag]: the driver the platform knows the tag of
  Requester,    \* who may ask to stop or to cancel a session
  None          \* SQL NULL

Tag == Session \cup Card

ASSUME StoreAssumption ==
  /\ EvseOf \in [Connector -> Evse]
  /\ None \notin Session \cup Transaction \cup Connector \cup Evse \cup Requester
  /\ "charge_point" \notin Requester \cup {None}

VARIABLES
  sState,      \* charging_session.state, "ABSENT" while there is no row
  sConn,       \* charging_session.connector_id (its EVSE is evse_id)
  sTag,        \* charging_session.id_tag
  sTx,         \* charging_session.ocpp_transaction_id
  stopBy,      \* charging_session.stop_requested_by
  interrupted, \* sessions with interrupted_at set
  spent,       \* sessions whose virtual idTag is INVALID
  tState,      \* ocpp_transaction.state, "ABSENT" while there is no row
  tConn,       \* ocpp_transaction.ocpp_connector_id
  tSession,    \* ocpp_transaction.session_id
  currentTx,   \* connector.current_transaction_id
  link         \* charge_point.connected: "up"; "down": not; "stale": not for
               \* orphanTimeoutH, counted from last_disconnect_at

sessionRow == <<sState, sConn, sTag, sTx, stopBy, interrupted, spent>>
transactionRow == <<tState, tConn, tSession, currentTx>>
storeVars == <<sState, sConn, sTag, sTx, stopBy, interrupted, spent,
               tState, tConn, tSession, currentTx, link>>

LinkStates == {"up", "down", "stale"}
TransactionStates == {"ACTIVE", "STOPPED", "CLOSED_ESTIMATED", "ORPHAN"}

StoreTypeOK ==
  /\ sState \in [Session -> SessionStates \cup {"ABSENT"}]
  /\ sConn \in [Session -> Connector \cup {None}]
  /\ sTag \in [Session -> Tag \cup {None}]
  /\ sTx \in [Session -> Transaction \cup {None}]
  /\ stopBy \in [Session -> Requester \cup {None, "charge_point"}]
  /\ interrupted \subseteq Session
  /\ spent \subseteq Session
  /\ tState \in [Transaction -> TransactionStates \cup {"ABSENT"}]
  /\ tConn \in [Transaction -> Connector \cup {None}]
  /\ tSession \in [Transaction -> Session \cup {None}]
  /\ currentTx \in [Connector -> Transaction \cup {None}]
  /\ link \in LinkStates

StoreInit ==
  /\ sState = [s \in Session |-> "ABSENT"]
  /\ sConn = [s \in Session |-> None]
  /\ sTag = [s \in Session |-> None]
  /\ sTx = [s \in Session |-> None]
  /\ stopBy = [s \in Session |-> None]
  /\ interrupted = {}
  /\ spent = {}
  /\ tState = [t \in Transaction |-> "ABSENT"]
  /\ tConn = [t \in Transaction |-> None]
  /\ tSession = [t \in Transaction |-> None]
  /\ currentTx = [c \in Connector |-> None]
  /\ link = "up"

(* charging_session.evse_id; None while there is no row.                   *)
EvseOfSession(s) == IF sConn[s] \in Connector THEN EvseOf[sConn[s]] ELSE None

(* Mutant: the index leaves sessions that have not started out.            *)
FreeForIgnoringWaiting(s, e, st) ==
  \A x \in Session \ {s} : ~(st[x] \in ActiveStates /\ EvseOfSession(x) = e)

(* What the index one_live_session_per_evse lets session s become live on  *)
(* EVSE e, when the states of the rows are st.                             *)
FreeFor(s, e, st) ==
  \A x \in Session \ {s} : ~(st[x] \in LIVE_SESSION_STATES /\ EvseOfSession(x) = e)

ActiveOn(c) == {t \in Transaction : tState[t] = "ACTIVE" /\ tConn[t] = c}

(* isSessionActive of the domain                                           *)
IsActive(s) == sState[s] \in ActiveStates

(***************************************************************************)
(* endSession: the sessions in S end.  A row that has already ended is     *)
(* left alone, and a queued start that never reached CHARGING is accepted; *)
(* from any other state the table decides, and a state it refuses throws,  *)
(* which undoes the whole database transaction.                            *)
(***************************************************************************)
AlreadyEnded(s) == sState[s] \in {"ENDED", "SETTLED", "PAID"}

MayEnd(S) ==
  \A s \in S : \/ AlreadyEnded(s)
               \/ sState[s] \in {"STARTING", "EXPIRED"}
               \/ CanTransition(sState[s], "ENDED")

StateAfterEnd(S) ==
  [s \in Session |-> IF s \in S /\ ~AlreadyEnded(s) THEN "ENDED" ELSE sState[s]]

(* The virtual idTag of a session is spent when the session ends; a card   *)
(* outlives the session it started.                                        *)
SpentAfterEnd(S) ==
  spent \cup {x \in Session : \E s \in S : ~AlreadyEnded(s) /\ sTag[s] = x}

SessionsOf(T) == {s \in Session : \E t \in T : tSession[t] = s}
==============================================================================
