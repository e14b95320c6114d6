---------------------------- MODULE SessionDomain ----------------------------
(***************************************************************************)
(* The vocabulary of a charging session (packages/domain/src/session.ts):  *)
(* its thirteen states, the table of transitions the domain allows, and    *)
(* the groups of states the services ask about.  Everything here is a      *)
(* constant, so that every other module can use it without a variable.     *)
(***************************************************************************)

SessionStates ==
  {"REQUESTED", "AUTHORIZED", "STARTING", "CHARGING", "SUSPENDED_EV",
   "SUSPENDED_EVSE", "STOPPING", "ENDED", "SETTLED", "PAID",
   "FAILED", "CANCELLED", "EXPIRED"}

(* The table of the domain: from each state, the states a session may      *)
(* move to.                                                                *)
TRANSITIONS ==
  [REQUESTED      |-> {"AUTHORIZED", "FAILED", "CANCELLED"},
   AUTHORIZED     |-> {"STARTING", "FAILED", "CANCELLED"},
   STARTING       |-> {"CHARGING", "EXPIRED", "CANCELLED", "FAILED"},
   CHARGING       |-> {"SUSPENDED_EV", "SUSPENDED_EVSE", "STOPPING", "ENDED"},
   SUSPENDED_EV   |-> {"CHARGING", "SUSPENDED_EVSE", "STOPPING", "ENDED"},
   SUSPENDED_EVSE |-> {"CHARGING", "SUSPENDED_EV", "STOPPING", "ENDED"},
   STOPPING       |-> {"ENDED"},
   ENDED          |-> {"SETTLED"},
   SETTLED        |-> {"PAID", "SETTLED"},
   PAID           |-> {},
   FAILED         |-> {},
   CANCELLED      |-> {},
   EXPIRED        |-> {"CHARGING"}]

CanTransition(from, to) == from \in SessionStates /\ to \in TRANSITIONS[from]

(* A transaction is running and cost accrues.                              *)
ActiveStates == {"CHARGING", "SUSPENDED_EV", "SUSPENDED_EVSE"}

(* The states that the partial unique index one_live_session_per_evse      *)
(* covers: such a session occupies its EVSE.                               *)
LIVE_SESSION_STATES == {"AUTHORIZED", "STARTING", "STOPPING"} \cup ActiveStates

(* Mutant: an expired session may be called off too.                       *)
CancellableEvenExpired == {"REQUESTED", "AUTHORIZED", "STARTING", "EXPIRED"}

(* States from which the driver, or an operator, may still call it off.    *)
CancellableStates == {"REQUESTED", "AUTHORIZED", "STARTING"}
==============================================================================
