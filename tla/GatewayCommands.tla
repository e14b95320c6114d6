--------------------------- MODULE GatewayCommands ---------------------------
(***************************************************************************)
(* Commands to the charge point: CommandService.send (packages/csms), the  *)
(* GatewayClient that finds the pod and repeats the request once, and the  *)
(* CALL that the pod puts in the queue of the connection.                  *)
(***************************************************************************)
EXTENDS GatewayConnections, Integers

CONSTANTS
  Command,     \* the commands
  QueueMax,    \* OCPP_CALL_QUEUE_MAX
  MayAbort     \* may a request outlast the client's patience?

ASSUME CommandsAssumption ==
  IsFiniteSet(Command) /\ QueueMax \in Nat \ {0} /\ MayAbort \in BOOLEAN

Attempt == {1, 2}
Call == Command \X Attempt

(* Mutant: a timeout is repeated too.                                      *)
RetryableAfterTimeout == {"UNAVAILABLE", "NOT_CONNECTED", "TIMEOUT"}

Retryable == {"UNAVAILABLE", "NOT_CONNECTED"}
WasSent == {"TIMEOUT", "CALL_ERROR"}  \* the latter an invalid answer too
Errors == Retryable \cup WasSent \cup {"QUEUE_FULL"}
Outcomes == {"Accepted", "Rejected"} \cup Errors

ASSUME NoneIsNoOutcome == None \notin Outcomes

VARIABLES
  cState,      \* [Command -> ops.command.state, or "none"]
  cPc,         \* [Command -> where send() is]
  tries,       \* [Command -> the attempt it is at]
  outcome,     \* [Command -> the outcome of the attempt, or None]
  call,        \* [Call -> where the CALL of an attempt is]
  asked,       \* [Call -> the pod asked]
  via,         \* [Call -> the socket it is queued on]
  pending,     \* [Socket -> LiveConnection.pendingCalls]
  onWire       \* the calls the charger has been sent

commandVars == <<cState, cPc, tries, outcome>>
callVars == <<call, asked, via, pending, onWire>>
vars == <<connVars, commandVars, callVars>>

Init ==
  /\ ConnInit
  /\ cState = [c \in Command |-> "none"]
  /\ cPc = [c \in Command |-> "idle"]
  /\ tries = [c \in Command |-> 1]
  /\ outcome = [c \in Command |-> None]
  /\ call = [a \in Call |-> "none"]
  /\ asked = [a \in Call |-> None]
  /\ via = [a \in Call |-> None]
  /\ pending = [k \in Socket |-> 0]
  /\ onWire = {}

Now(c) == <<c, tries[c]>>

-----------------------------------------------------------------------------
(* The command is recorded before anything is sent.                        *)
Send(c) ==
  /\ cPc[c] = "idle"
  /\ cState' = [cState EXCEPT ![c] = "PENDING"]
  /\ cPc' = [cPc EXCEPT ![c] = "lookup"]
  /\ UNCHANGED <<connVars, tries, outcome, callVars>>

(* attempt(): the directory names no pod, or one that cannot be reached.   *)
Lookup(c) ==
  /\ cPc[c] = "lookup"
  /\ IF entry # None /\ pod[host[entry]] # "down"
       THEN /\ call' = [call EXCEPT ![Now(c)] = "asked"]
            /\ asked' = [asked EXCEPT ![Now(c)] = host[entry]]
            /\ cPc' = [cPc EXCEPT ![c] = "waits"]
            /\ UNCHANGED outcome
       ELSE /\ outcome' = [outcome EXCEPT
                 ![c] = IF entry = None THEN "NOT_CONNECTED" ELSE "UNAVAILABLE"]
            /\ cPc' = [cPc EXCEPT ![c] = "has"]
            /\ UNCHANGED <<call, asked>>
  /\ UNCHANGED <<connVars, cState, tries, via, pending, onWire>>

HasRoom(k) == pending[k] < QueueMax

(* Gateway.sendCall: the pod has no connection, or one too busy, or queues *)
(* the CALL.                                                               *)
Arrive(a) ==
  LET k == current[asked[a]] IN
  /\ call[a] = "asked"
  /\ IF k # None /\ HasRoom(k)
       THEN /\ call' = [call EXCEPT ![a] = "queued"]
            /\ via' = [via EXCEPT ![a] = k]
            /\ pending' = [pending EXCEPT ![k] = @ + 1]
       ELSE /\ call' = [call EXCEPT ![a] = IF k = None THEN "NOT_CONNECTED" ELSE "QUEUE_FULL"]
            /\ UNCHANGED <<via, pending>>
  /\ UNCHANGED <<connVars, commandVars, asked, onWire>>

(* One CALL of a connection at a time goes out.                            *)
GoesOut(a) ==
  /\ call[a] = "queued"
  /\ sock[via[a]] = "open"
  /\ \A b \in Call : call[b] = "sent" => via[b] # via[a]
  /\ call' = [call EXCEPT ![a] = "sent"]
  /\ onWire' = onWire \cup {a}
  /\ UNCHANGED <<connVars, commandVars, asked, via, pending>>

(* Mutant: the counter is not given back.                                  *)
ReleaseKept(a) == pending' = pending

(* The finally of sendCall.                                                *)
Release(a) == pending' = [pending EXCEPT ![via[a]] = @ - 1]

(* The charger answers, or does not in time.                               *)
Answer(a, o) ==
  /\ call[a] = "sent"
  /\ o \in {"Accepted", "Rejected"} \cup WasSent
  /\ call' = [call EXCEPT ![a] = o]
  /\ Release(a)
  /\ UNCHANGED <<connVars, commandVars, asked, via, onWire>>

(* The connection closes under it.                                         *)
BreaksOff(a) ==
  /\ call[a] \in {"queued", "sent"}
  /\ sock[via[a]] = "closed"
  /\ call' = [call EXCEPT ![a] = "NOT_CONNECTED"]
  /\ Release(a)
  /\ UNCHANGED <<connVars, commandVars, asked, via, onWire>>

(* The pod dies with everything it was asked: the client loses the         *)
(* connection to it.                                                       *)
InFlight == {"asked", "queued", "sent"}

CallsDie(p) ==
  /\ call' = [a \in Call |-> IF call[a] \in InFlight /\ asked[a] = p THEN "UNAVAILABLE" ELSE call[a]]
  /\ pending' = [k \in Socket |-> IF host[k] = p THEN 0 ELSE pending[k]]
  /\ UNCHANGED <<commandVars, asked, via, onWire>>

-----------------------------------------------------------------------------
Gets(c, o) ==
  /\ cPc[c] = "waits"
  /\ outcome' = [outcome EXCEPT ![c] = o]
  /\ cPc' = [cPc EXCEPT ![c] = "has"]
  /\ UNCHANGED <<connVars, cState, tries, callVars>>

(* The response of the pod, or the loss of the connection to it.           *)
Response(c) == call[Now(c)] \in Outcomes /\ Gets(c, call[Now(c)])

(* AbortSignal.timeout: the request is given up, not the CALL.             *)
Abort(c) == MayAbort /\ Gets(c, "UNAVAILABLE")

(* Mutant: the second attempt is repeated as well.                         *)
MayRepeatAgain(c) == outcome[c] \in Retryable

MayRepeat(c) == outcome[c] \in Retryable /\ tries[c] = 1

Repeat(c) ==
  /\ cPc[c] = "has"
  /\ MayRepeat(c)
  /\ tries' = [tries EXCEPT ![c] = 2]
  /\ outcome' = [outcome EXCEPT ![c] = None]
  /\ cPc' = [cPc EXCEPT ![c] = "lookup"]
  /\ UNCHANGED <<connVars, cState, callVars>>

(* Mutant: whatever failed was on its way.                                 *)
FinalStateHopeful(o) ==
  CASE o = "Accepted" -> "ACCEPTED" [] o = "Rejected" -> "REJECTED"
    [] o = "TIMEOUT" -> "TIMEOUT"   [] OTHER -> "ERROR"

FinalState(o) ==
  CASE o = "Accepted" -> "ACCEPTED" [] o = "Rejected" -> "REJECTED"
    [] o = "TIMEOUT" -> "TIMEOUT"
    [] o \in WasSent \ {"TIMEOUT"} -> "ERROR"
    [] OTHER -> "CANCELLED"

Finish(c) ==
  /\ cPc[c] = "has"
  /\ ~MayRepeat(c)
  /\ cState' = [cState EXCEPT ![c] = FinalState(outcome[c])]
  /\ cPc' = [cPc EXCEPT ![c] = "done"]
  /\ UNCHANGED <<connVars, tries, outcome, callVars>>

(* The api or the worker dies while it waits, or the directory or the      *)
(* database throws: nobody finishes the row.                               *)
SenderDies(c) ==
  /\ Fault
  /\ cPc[c] \in {"lookup", "waits", "has"}
  /\ cPc' = [cPc EXCEPT ![c] = "dead"]
  /\ UNCHANGED <<podVars, host, sock, opening, closing, gen, prevPod, timer, rowVars, entry, evicting, cState, tries, outcome, callVars>>

-----------------------------------------------------------------------------
ServiceStep(c) ==
  Send(c) \/ Lookup(c) \/ Response(c) \/ Abort(c) \/ Repeat(c) \/ Finish(c) \/ SenderDies(c)

CallStep(a) == Arrive(a) \/ GoesOut(a) \/ BreaksOff(a) \/ \E o \in Outcomes : Answer(a, o)

Next ==
  \/ ConnStep /\ UNCHANGED <<commandVars, callVars>>
  \/ \E p \in Pod : Die(p) /\ CallsDie(p)
  \/ \E c \in Command : ServiceStep(c)
  \/ \E a \in Call : CallStep(a)

Spec == Init /\ [][Next]_vars

(* What the scheduling of the program gives: promises that nothing fails   *)
(* are settled, requests come back, and the processes keep serving.        *)
Fairness ==
  /\ \A k \in Socket :
       /\ WF_vars(OpenStep(k) /\ UNCHANGED <<commandVars, callVars>>)
       /\ WF_vars(CloseStep(k) /\ UNCHANGED <<commandVars, callVars>>)
  /\ WF_vars(Expire /\ UNCHANGED <<commandVars, callVars>>)
  /\ \A c \in Command : WF_vars(Lookup(c) \/ Response(c) \/ Repeat(c) \/ Finish(c))
  /\ \A a \in Call : WF_vars(CallStep(a))

FairSpec == Spec /\ Fairness

-----------------------------------------------------------------------------
TypeOK ==
  /\ ConnTypeOK
  /\ cState \in [Command -> {"none", "PENDING", "ACCEPTED", "REJECTED", "ERROR", "TIMEOUT", "CANCELLED"}]
  /\ cPc \in [Command -> {"idle", "lookup", "waits", "has", "done", "dead"}]
  /\ tries \in [Command -> Attempt]
  /\ outcome \in [Command -> Outcomes \cup {None}]
  /\ call \in [Call -> {"none"} \cup InFlight \cup Outcomes]
  /\ asked \in [Call -> Pod \cup {None}]
  /\ via \in [Call -> Socket \cup {None}]
  /\ pending \in [Socket -> 0 .. QueueMax]
  /\ onWire \subseteq Call

(* The counter behind QUEUE_FULL counts the calls that wait on the         *)
(* connection, through answers, timeouts, closes and repeated requests:    *)
(* it never runs full for good, nor over its bound.                        *)
QueueIsCounted ==
  \A k \in Socket :
    /\ pending[k] = Cardinality({a \in Call : call[a] \in {"queued", "sent"} /\ via[a] = k})
    /\ pending[k] <= QueueMax

(* What the row says happened at the charger did: an answered or timed out *)
(* command was sent to it, and an accepted one was answered.               *)
VerdictIsReal ==
  \A c \in Command :
    cState[c] \in {"ACCEPTED", "REJECTED", "ERROR", "TIMEOUT"} =>
      /\ Now(c) \in onWire
      /\ cState[c] = "ACCEPTED" => call[Now(c)] = "Accepted"

(* CommandService: CANCELLED is for a command that never went out.         *)
CancelledNeverSent ==
  \A c \in Command : cState[c] = "CANCELLED" => \A n \in Attempt : <<c, n>> \notin onWire

(* A command goes twice to the charger over one connection only if the     *)
(* client gave up on the first request (its connection never broke).       *)
RepeatChangesConnection ==
  \A c \in Command :
    ~MayAbort /\ <<c, 1>> \in onWire /\ <<c, 2>> \in onWire => via[<<c, 1>>] # via[<<c, 2>>]

(* Every command that its sender survives gets its verdict.                *)
CommandIsResolved ==
  \A c \in Command : cState[c] = "PENDING" ~> cState[c] # "PENDING" \/ cPc[c] = "dead"
=============================================================================
