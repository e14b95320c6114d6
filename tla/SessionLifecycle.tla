--------------------------- MODULE SessionLifecycle ---------------------------
(***************************************************************************)
(* What the platform promises about sessions, with no process, command or  *)
(* charger in sight: a session is born, moves only along the table of      *)
(* SessionDomain, and never shares its EVSE with another live session.     *)
(*                                                                         *)
(* A step may also retire one session and start another on the same EVSE:  *)
(* a charger that announces a new transaction takes the EVSE over from     *)
(* whoever had it.  ChargingSessions implements this module.               *)
(***************************************************************************)
EXTENDS SessionDomain

CONSTANTS Session, Evse, NoEvse

VARIABLES
  state,      \* state[s]: the state of session s, "ABSENT" before it exists
  place       \* place[s]: the EVSE of session s

vars == <<state, place>>

Init ==
  /\ state = [s \in Session |-> "ABSENT"]
  /\ place = [s \in Session |-> NoEvse]

(* The EVSE e has no live session other than s.                            *)
FreeFor(s, e) ==
  \A x \in Session \ {s} : ~(state[x] \in LIVE_SESSION_STATES /\ place[x] = e)

(* A driver or an operator asks for a session on e.                        *)
Request(s, e) ==
  /\ state[s] = "ABSENT"
  /\ state' = [state EXCEPT ![s] = "REQUESTED"]
  /\ place' = [place EXCEPT ![s] = e]

(* A session moves along the table; one that becomes live finds its EVSE   *)
(* free.                                                                   *)
Move(s, to) ==
  /\ CanTransition(state[s], to)
  /\ to \in LIVE_SESSION_STATES => FreeFor(s, place[s])
  /\ state' = [state EXCEPT ![s] = to]
  /\ UNCHANGED place

(* A charger starts charging for a session nobody asked for.               *)
Appear(s, e) ==
  /\ state[s] = "ABSENT"
  /\ FreeFor(s, e)
  /\ state' = [state EXCEPT ![s] = "CHARGING"]
  /\ place' = [place EXCEPT ![s] = e]

(* A new transaction takes the EVSE of s over: s retires along the table   *)
(* and n, waiting or new, charges in its place.                            *)
TakeOver(s, to, n, e) ==
  /\ s # n
  /\ state[s] \in LIVE_SESSION_STATES
  /\ place[s] = e
  /\ CanTransition(state[s], to)
  /\ to \notin LIVE_SESSION_STATES
  /\ \/ state[n] = "ABSENT"
     \/ CanTransition(state[n], "CHARGING") /\ place[n] = e
  /\ \A x \in Session \ {s, n} :
        ~(state[x] \in LIVE_SESSION_STATES /\ place[x] = e)
  /\ state' = [state EXCEPT ![s] = to, ![n] = "CHARGING"]
  /\ place' = [place EXCEPT ![n] = e]

Next ==
  \/ \E s \in Session, e \in Evse : Request(s, e) \/ Appear(s, e)
  \/ \E s \in Session, to \in SessionStates : Move(s, to)
  \/ \E s, n \in Session, to \in SessionStates, e \in Evse :
        TakeOver(s, to, n, e)

Spec == Init /\ [][Next]_vars
==============================================================================
