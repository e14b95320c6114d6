-------------------------------- MODULE Outbox --------------------------------
(***************************************************************************)
(* ops.event_outbox: a business transaction appends an event, which takes  *)
(* its id when it is written and is seen when the transaction commits.     *)
(* The transactions of one session lock its row before they append.        *)
(***************************************************************************)
EXTENDS Naturals, FiniteSets

CONSTANTS
  Event,          \* domain events
  SessionEvent,   \* those of the session somebody is watching
  Last,           \* the one whose transaction finishes that session
  MaxFaults,      \* bound on rollbacks, failures and deaths of processes
  None

ASSUME OutboxAssumption ==
  SessionEvent \subseteq Event /\ Last \in SessionEvent /\ MaxFaults \in Nat /\ None \notin Event

VARIABLES
  row,       \* [Event -> [stage, id]]
  lock,      \* the transaction that holds the session's row, named by its event
  lastId,    \* the identity column
  spent      \* faults so far

outboxVars == <<row, lock, lastId, spent>>

NoRow == [stage |-> "none", id |-> 0]
Committed == {e \in Event : row[e].stage = "committed"}
Finished == Last \in Committed

Fault == spent < MaxFaults /\ spent' = spent + 1

OutboxInit ==
  /\ row = [e \in Event |-> NoRow]
  /\ lock = None
  /\ lastId = 0
  /\ spent = 0

(* UPDATE charging_session, or SELECT ... FOR UPDATE, before appendEvent.  *)
LocksSession(e) ==
  /\ e \in SessionEvent /\ row[e].stage = "none"
  /\ lock = None
  /\ lock' = e
  /\ row' = [row EXCEPT ![e].stage = "locked"]
  /\ UNCHANGED <<lastId, spent>>

(* Mutant: the event is appended before the session is updated.            *)
MayAppendUnlocked(e) == row[e].stage \in {"none", "locked"}

MayAppend(e) == row[e].stage = IF e \in SessionEvent THEN "locked" ELSE "none"

AppendEvent(e) ==
  /\ MayAppend(e)
  /\ lastId' = lastId + 1
  /\ row' = [row EXCEPT ![e] = [stage |-> "written", id |-> lastId + 1]]
  /\ UNCHANGED <<lock, spent>>

Ends(e, r) ==
  /\ row' = [row EXCEPT ![e] = r]
  /\ lock' = IF lock = e THEN None ELSE lock
  /\ UNCHANGED lastId

Commits(e) ==
  /\ row[e].stage = "written"
  /\ Ends(e, [row[e] EXCEPT !.stage = "committed"])
  /\ UNCHANGED spent

RollsBack(e) ==
  /\ row[e].stage \in {"locked", "written"}
  /\ Fault
  /\ Ends(e, NoRow)

OutboxStep == \E e \in Event : LocksSession(e) \/ AppendEvent(e) \/ Commits(e) \/ RollsBack(e)

OutboxTypeOK ==
  /\ row \in [Event -> [stage : {"none", "locked", "written", "committed"}, id : Nat]]
  /\ lock \in SessionEvent \cup {None}
  /\ lastId \in Nat
  /\ spent \in Nat
===============================================================================
