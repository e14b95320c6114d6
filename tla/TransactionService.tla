-------------------------- MODULE TransactionService --------------------------
(***************************************************************************)
(* TransactionService (packages/csms/src/sessions/transaction-service.ts): *)
(* what the messages of the charge point, and two periodic jobs of the     *)
(* worker, do to sessions and transactions.  Every operation is one        *)
(* database transaction, hence one step.  The charge point is not trusted  *)
(* to be consistent: it may present a card at any connector, send the      *)
(* idTag it was given late, repeat a message or never send one.            *)
(***************************************************************************)
EXTENDS SessionStore

CONSTANT FirstConnector  \* the connector an orphan StopTransaction is filed under

ASSUME TransactionAssumption == FirstConnector \in Connector

-----------------------------------------------------------------------------
(* startTransaction                                                        *)

(* The session STARTING on the EVSE of the connector, in the states st.    *)
StartingOn(c, st) ==
  {s \in Session : st[s] = "STARTING" /\ EvseOfSession(s) = EvseOf[c]}

(* The presented tag is the one the session expects, or one the platform   *)
(* knows as the same driver's.                                             *)
Expects(s, tag) ==
  \/ sTag[s] = tag
  \/ DriverOf[tag] # None /\ DriverOf[tag] = DriverOf[sTag[s]]

(* A session that expired waiting for this very tag: a late start.         *)
ExpiredWaitingFor(c, tag, st) ==
  {s \in Session : st[s] = "EXPIRED" /\ EvseOfSession(s) = EvseOf[c] /\ sTag[s] = tag}

(* findSessionForStart: the session the new transaction belongs to.  When  *)
(* none is STARTING an expired one is reopened inside the late window.     *)
SessionsForStart(c, tag, st) ==
  {s \in StartingOn(c, st) : Expects(s, tag)}
  \cup (IF StartingOn(c, st) = {} THEN ExpiredWaitingFor(c, tag, st) ELSE {})

(* Mutant: the transaction still active on c is left open.                 *)
InsertBeside(t, c, s) ==
  /\ tState' = [tState EXCEPT ![t] = "ACTIVE"]
  /\ tConn' = [tConn EXCEPT ![t] = c]
  /\ tSession' = [tSession EXCEPT ![t] = s]
  /\ currentTx' = [currentTx EXCEPT ![c] = t]

(* The insertion of t as ACTIVE on c, for session s, once the transaction  *)
(* still active on c is closed as estimated.                               *)
Insert(t, c, s) ==
  /\ tState' = [x \in Transaction |->
                  IF x = t THEN "ACTIVE"
                  ELSE IF x \in ActiveOn(c) THEN "CLOSED_ESTIMATED" ELSE tState[x]]
  /\ tConn' = [tConn EXCEPT ![t] = c]
  /\ tSession' = [tSession EXCEPT ![t] = s]
  /\ currentTx' = [currentTx EXCEPT ![c] = t]

(* The sessions whose transaction the new one closes on connector c, and   *)
(* the states once they have ended.                                        *)
Displaced(c) == SessionsOf(ActiveOn(c))
AfterDisplaced(c) == StateAfterEnd(Displaced(c))

(* A StartTransaction for a session that waits for it.                     *)
StartMatched(t, c, tag, s) ==
  LET st == AfterDisplaced(c)
  IN /\ tState[t] = "ABSENT"
     /\ MayEnd(Displaced(c))
     /\ s \in SessionsForStart(c, tag, st)
     /\ FreeFor(s, EvseOf[c], st)
     /\ Insert(t, c, s)
     /\ sState' = [st EXCEPT ![s] = "CHARGING"]
     /\ sTx' = [sTx EXCEPT ![s] = t]
     /\ sConn' = [sConn EXCEPT ![s] = c]
     /\ spent' = SpentAfterEnd(Displaced(c))
     /\ UNCHANGED <<sTag, stopBy, interrupted, link>>

(* A StartTransaction nobody asked for: the session waiting on the EVSE    *)
(* for another tag expires, and a session n is created for the new one.  A *)
(* session that expired waiting for this tag stays so when the late window *)
(* has passed.                                                             *)
StartUnsolicited(t, c, tag, n) ==
  LET waiting == StartingOn(c, AfterDisplaced(c))
      st == [s \in Session |->
               IF s \in waiting THEN "EXPIRED" ELSE AfterDisplaced(c)[s]]
  IN /\ tState[t] = "ABSENT"
     /\ sState[n] = "ABSENT"
     /\ MayEnd(Displaced(c))
     /\ \A s \in waiting : ~Expects(s, tag)
     /\ FreeFor(n, EvseOf[c], st)
     /\ Insert(t, c, n)
     /\ sState' = [st EXCEPT ![n] = "CHARGING"]
     /\ sTx' = [sTx EXCEPT ![n] = t]
     /\ sConn' = [sConn EXCEPT ![n] = c]
     /\ sTag' = [sTag EXCEPT ![n] = tag]
     /\ spent' = SpentAfterEnd(Displaced(c)) \cup waiting
     /\ UNCHANGED <<stopBy, interrupted, link>>

(* The same StartTransaction again (the answer was lost): the row is found *)
(* by its content and nothing changes.                                     *)
StartRepeated(t, c) ==
  /\ tState[t] \notin {"ABSENT", "ORPHAN"}
  /\ tConn[t] = c
  /\ UNCHANGED storeVars

(* Whether the database takes a StartTransaction with this tag: if not,    *)
(* the database transaction is undone and the charge point gets an error.  *)
StartAccepted(c, tag) ==
  LET st == AfterDisplaced(c)
  IN /\ MayEnd(Displaced(c))
     /\ \/ \E s \in SessionsForStart(c, tag, st) : FreeFor(s, EvseOf[c], st)
        \/ /\ \A s \in StartingOn(c, st) : ~Expects(s, tag)
           /\ \A x \in Session : st[x] \in LIVE_SESSION_STATES \ {"STARTING"}
                                   => EvseOfSession(x) # EvseOf[c]

-----------------------------------------------------------------------------
(* closeEstimated, stopTransaction, handleOrphanStop                       *)

(* Mutant: a transaction closed before is closed again.                    *)
CloseTransactionAgain(t, to) ==
  /\ tState[t] # "ABSENT"
  /\ MayEnd(SessionsOf({t}))
  /\ tState' = [tState EXCEPT ![t] = to]
  /\ currentTx' = [c \in Connector |-> IF currentTx[c] = t THEN None ELSE currentTx[c]]
  /\ sState' = StateAfterEnd(SessionsOf({t}))
  /\ spent' = SpentAfterEnd(SessionsOf({t}))
  /\ UNCHANGED <<sConn, sTag, sTx, stopBy, interrupted, tConn, tSession, link>>

(* t leaves ACTIVE with the given state and its session ends.              *)
CloseTransaction(t, to) ==
  /\ tState[t] = "ACTIVE"
  /\ MayEnd(SessionsOf({t}))
  /\ tState' = [tState EXCEPT ![t] = to]
  /\ currentTx' = [c \in Connector |-> IF currentTx[c] = t THEN None ELSE currentTx[c]]
  /\ sState' = StateAfterEnd(SessionsOf({t}))
  /\ spent' = SpentAfterEnd(SessionsOf({t}))
  /\ UNCHANGED <<sConn, sTag, sTx, stopBy, interrupted, tConn, tSession, link>>

StopTransaction(t) == CloseTransaction(t, "STOPPED")

(* A StopTransaction of a transaction already closed: the first one counts.*)
StopRepeated(t) ==
  /\ tState[t] \notin {"ABSENT", "ACTIVE"}
  /\ UNCHANGED storeVars

(* A StopTransaction of a transaction the platform never saw start.        *)
OrphanStop(t) ==
  /\ tState[t] = "ABSENT"
  /\ tState' = [tState EXCEPT ![t] = "ORPHAN"]
  /\ tConn' = [tConn EXCEPT ![t] = FirstConnector]
  /\ UNCHANGED <<sessionRow, tSession, currentTx, link>>

-----------------------------------------------------------------------------
(* onConnectorStatus: the live session of the connector follows what the   *)
(* charge point reports.                                                   *)

LiveOn(c) == {s \in Session : sConn[s] = c /\ sState[s] \in LIVE_SESSION_STATES}

(* The state a report moves a session to: each report, the states it       *)
(* applies to and the state it leads to.                                   *)
StatusMoves ==
  {<<"SuspendedEV",   from, "SUSPENDED_EV">>   : from \in {"CHARGING", "SUSPENDED_EVSE"}} \cup
  {<<"SuspendedEVSE", from, "SUSPENDED_EVSE">> : from \in {"CHARGING", "SUSPENDED_EV"}} \cup
  {<<"Charging",      from, "CHARGING">>       : from \in {"SUSPENDED_EV", "SUSPENDED_EVSE"}} \cup
  {<<"Finishing",     from, "STOPPING">>       : from \in ActiveStates}

StatusMoved(c, s, to) ==
  /\ s \in LiveOn(c)
  /\ \E move \in StatusMoves : move[2] = sState[s] /\ move[3] = to
  /\ sState' = [sState EXCEPT ![s] = to]
  /\ stopBy' = IF to = "STOPPING" /\ stopBy[s] = None
               THEN [stopBy EXCEPT ![s] = "charge_point"]
               ELSE stopBy
  /\ UNCHANGED <<sConn, sTag, sTx, interrupted, spent, transactionRow, link>>

(* Available after Preparing: the car was not plugged in time.             *)
StatusUnplugged(c, s) ==
  /\ s \in LiveOn(c)
  /\ sState[s] = "STARTING"
  /\ sState' = [sState EXCEPT ![s] = "EXPIRED"]
  /\ spent' = spent \cup {s}
  /\ UNCHANGED <<sConn, sTag, sTx, stopBy, interrupted, transactionRow, link>>

(* Available on an interrupted session: the charge point is taken to have  *)
(* lost the transaction in its restart.                                    *)
StatusLost(c, s, t) ==
  /\ s \in LiveOn(c) \cap interrupted
  /\ sState[s] \in ActiveStates \cup {"STOPPING"}
  /\ t \in ActiveOn(c)
  /\ CloseTransaction(t, "CLOSED_ESTIMATED")

(* onBoot: the sessions in progress are marked as interrupted.             *)
Boot ==
  /\ interrupted' = interrupted \cup
       {s \in Session : sState[s] \in ActiveStates \cup {"STOPPING"}}
  /\ UNCHANGED <<sState, sConn, sTag, sTx, stopBy, spent, transactionRow, link>>

-----------------------------------------------------------------------------
(* Jobs of the worker                                                      *)

(* Mutant: the deadline of a session without a transaction is not looked at.*)
ExpireStartWithTransaction(s) ==
  /\ sState[s] = "STARTING"
  /\ sTx[s] # None
  /\ sState' = [sState EXCEPT ![s] = "EXPIRED"]
  /\ spent' = spent \cup {s}
  /\ UNCHANGED <<sConn, sTag, sTx, stopBy, interrupted, transactionRow, link>>

(* expireStartTimeouts: start_deadline_at has passed.                      *)
ExpireStart(s) ==
  /\ sState[s] = "STARTING"
  /\ sState' = [sState EXCEPT ![s] = "EXPIRED"]
  /\ spent' = spent \cup {s}
  /\ UNCHANGED <<sConn, sTag, sTx, stopBy, interrupted, transactionRow, link>>

(* Mutant: only the transactions of sessions in CHARGING are closed.       *)
CloseOrphanCharging(t) ==
  /\ link = "stale"
  /\ \A s \in SessionsOf({t}) : sState[s] = "CHARGING"
  /\ CloseTransaction(t, "CLOSED_ESTIMATED")

(* closeOrphanTransactions: the charge point has been away for too long.   *)
CloseOrphan(t) == link = "stale" /\ CloseTransaction(t, "CLOSED_ESTIMATED")
==============================================================================
