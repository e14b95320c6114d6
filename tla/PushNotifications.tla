-------------------------- MODULE PushNotifications --------------------------
(***************************************************************************)
(* deliverPushNotifications (apps/worker/src/jobs/push.ts): a cycle claims *)
(* each event in ops.consumer_inbox, records a driver_notification, adds   *)
(* the notifications an earlier cycle left PENDING, sends the lot to Expo  *)
(* and records the tickets.                                                *)
(*                                                                         *)
(* A cycle takes less than the 60 seconds after which a PENDING            *)
(* notification is retried, and faults end within the hour after which it  *)
(* is given up.                                                            *)
(***************************************************************************)
EXTENDS Outbox

CONSTANTS
  Pusher,    \* workers
  Once       \* the events announced once per session (ONCE_PER_SESSION)

Note == {"none", "PENDING", "SENT", "FAILED", "NO_DEVICE"}
Ticket == {"all", "some", "nobody"}    \* the devices of the driver Expo accepted it for

VARIABLES
  inbox,     \* the events in consumer_inbox
  note,      \* [Event -> the status of its driver_notification]
  old,       \* the notifications older than a minute
  device,    \* whether the driver has a valid device
  rings,     \* [Event -> how often a device was notified of it, 2 for more]
  hurt,      \* the events accepted by Expo in a call whose answer was not recorded
  push       \* [Pusher -> [pc, todo, event, out, tickets]]

pushVars == <<inbox, note, old, device, rings, hurt, push>>

NoTickets == [e \in Event |-> "nobody"]
Sleeping == [pc |-> "idle", todo |-> {}, event |-> None, out |-> {}, tickets |-> NoTickets]

PushInit ==
  /\ inbox = {} /\ old = {} /\ hurt = {}
  /\ note = [e \in Event |-> "none"]
  /\ device \in BOOLEAN
  /\ rings = [e \in Event |-> 0]
  /\ push = [p \in Pusher |-> Sleeping]

At(p, pc) == push[p].pc = pc

(* Where the cycle of a worker goes on.                                    *)
Begun(p) == [push[p] EXCEPT !.pc = "claim", !.todo = Committed \ inbox]
Passed(p, e) == [push[p] EXCEPT !.todo = @ \ {e}]
Claimed(p, e) == [push[p] EXCEPT !.todo = @ \ {e}, !.event = e, !.pc = "check"]
Ticketed(p, tickets) == [push[p] EXCEPT !.pc = "record", !.tickets = tickets]

CycleBegins(p) ==
  /\ At(p, "idle")
  /\ push' = [push EXCEPT ![p] = Begun(p)]
  /\ UNCHANGED <<inbox, note, old, device, rings, hurt, spent>>

(* INSERT INTO consumer_inbox ... ON CONFLICT DO NOTHING, in order of id.  *)
ClaimsEvent(p) ==
  /\ At(p, "claim")
  /\ \E e \in push[p].todo :
       /\ \A f \in push[p].todo : row[e].id <= row[f].id
       /\ push' = [push EXCEPT ![p] = IF e \in inbox THEN Passed(p, e) ELSE Claimed(p, e)]
       /\ inbox' = inbox \cup {e}
  /\ UNCHANGED <<note, old, device, rings, hurt, spent>>

Announced(e) == e \in Once /\ \E f \in Once : note[f] # "none"

(* prepareEvent: SKIPPED for one reason or another, or an error.           *)
SkipsEvent(p) ==
  /\ At(p, "check")
  /\ push' = [push EXCEPT ![p].pc = "claim", ![p].event = None]
  /\ UNCHANGED <<inbox, note, old, device, rings, hurt, spent>>

ChecksEvent(p) ==
  /\ At(p, "check")
  /\ ~ Announced(push[p].event)
  /\ push' = [push EXCEPT ![p].pc = "insert"]
  /\ UNCHANGED <<inbox, note, old, device, rings, hurt, spent>>

InsertsNote(p) ==
  LET e == push[p].event IN
  /\ At(p, "insert")
  /\ note' = [note EXCEPT ![e] = IF device THEN "PENDING" ELSE "NO_DEVICE"]
  /\ push' = [push EXCEPT ![p].pc = "claim", ![p].event = None, ![p].out = IF device THEN @ \cup {e} ELSE @]
  /\ UNCHANGED <<inbox, old, device, rings, hurt, spent>>

(* Mutant: what is retried is what failed.                                 *)
LateFailed == {e \in old : note[e] = "FAILED"}

Late == {e \in old : note[e] = "PENDING"}

RetryPending(p) ==
  LET out == IF device THEN push[p].out \cup Late ELSE push[p].out IN
  /\ At(p, "claim") /\ push[p].todo = {}
  /\ note' = [e \in Event |-> IF ~ device /\ e \in Late THEN "NO_DEVICE" ELSE note[e]]
  /\ push' = [push EXCEPT ![p] = IF out = {} THEN Sleeping ELSE [@ EXCEPT !.pc = "send", !.out = out]]
  /\ UNCHANGED <<inbox, old, device, rings, hurt, spent>>

Ring(events) == rings' = [e \in Event |-> IF e \in events /\ rings[e] < 2 THEN rings[e] + 1 ELSE rings[e]]

Sends(p) ==
  /\ At(p, "send")
  /\ \E tickets \in [Event -> Ticket] :
       /\ \A e \in Event \ push[p].out : tickets[e] = "nobody"
       /\ Ring({e \in Event : tickets[e] # "nobody"})
       /\ push' = [push EXCEPT ![p] = Ticketed(p, tickets)]
  /\ UNCHANGED <<inbox, note, old, device, hurt, spent>>

(* send throws: some of the messages may be on their way.                  *)
SendThrows(p) ==
  /\ At(p, "send") /\ push[p].out # {}
  /\ Fault
  /\ \E some \in SUBSET push[p].out : Ring(some) /\ hurt' = hurt \cup some
  /\ push' = [push EXCEPT ![p] = Sleeping]
  /\ UNCHANGED <<inbox, note, old, device>>

(* Mutant: a notification is sent when every device accepted it.           *)
VerdictOfAll(ticket) == IF ticket = "all" THEN "SENT" ELSE "PENDING"

(* One device is enough.                                                   *)
Verdict(ticket) == IF ticket = "nobody" THEN "FAILED" ELSE "SENT"

RecordsTickets(p) ==
  /\ At(p, "record")
  /\ note' = [e \in Event |-> IF e \in push[p].out THEN Verdict(push[p].tickets[e]) ELSE note[e]]
  /\ \/ UNCHANGED device
     \/ device' = FALSE /\ \E e \in push[p].out : push[p].tickets[e] # "all"
  /\ push' = [push EXCEPT ![p] = Sleeping]
  /\ UNCHANGED <<inbox, old, rings, hurt, spent>>

PusherDies(p) ==
  /\ ~ At(p, "idle")
  /\ Fault
  /\ hurt' = hurt \cup {e \in Event : push[p].tickets[e] # "nobody"}
  /\ push' = [push EXCEPT ![p] = Sleeping]
  /\ UNCHANGED <<inbox, note, old, device, rings>>

(* The app registers the device again.                                     *)
RegistersDevice ==
  /\ ~ device
  /\ device' = TRUE
  /\ UNCHANGED <<inbox, note, old, rings, hurt, push, spent>>

AMinutePasses(e) ==
  /\ note[e] = "PENDING" /\ e \notin old
  /\ \A p \in Pusher : e \notin push[p].out
  /\ old' = old \cup {e}
  /\ UNCHANGED <<inbox, note, device, rings, hurt, push, spent>>

PushWorks(p) ==
  \/ CycleBegins(p) \/ ClaimsEvent(p) \/ SkipsEvent(p) \/ ChecksEvent(p) \/ InsertsNote(p)
  \/ RetryPending(p) \/ Sends(p) \/ RecordsTickets(p)

PushStep ==
  \/ \E p \in Pusher : PushWorks(p) \/ SendThrows(p) \/ PusherDies(p)
  \/ RegistersDevice
  \/ \E e \in Event : AMinutePasses(e)

PushTypeOK ==
  /\ inbox \subseteq Event /\ old \subseteq Event /\ hurt \subseteq Event
  /\ note \in [Event -> Note]
  /\ device \in BOOLEAN
  /\ rings \in [Event -> 0 .. 2]
  /\ push \in [Pusher -> [pc : {"idle", "claim", "check", "insert", "send", "record"}, todo : SUBSET Event,
                          event : Event \cup {None}, out : SUBSET Event, tickets : [Event -> Ticket]]]
===============================================================================
