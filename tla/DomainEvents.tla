----------------------------- MODULE DomainEvents -----------------------------
(***************************************************************************)
(* The outbox and its three readers: the relay to Redis and Pub/Sub, the   *)
(* stream of a session and the notifications to the driver.  None of them  *)
(* reads what another writes, so that a behaviour has one of them.         *)
(***************************************************************************)
EXTENDS OutboxRelay, SessionStream, PushNotifications

VARIABLE reader    \* the one this behaviour is about

readerVars == <<relayVars, stream, pushVars>>
vars == <<outboxVars, readerVars, reader>>

Init ==
  /\ OutboxInit /\ RelayInit /\ StreamInit /\ PushInit
  /\ reader \in {"relay", "stream", "push"}

RelayReads == reader = "relay" /\ RelayStep /\ UNCHANGED <<row, lock, lastId, stream, pushVars, reader>>
StreamReads == reader = "stream" /\ StreamStep /\ UNCHANGED <<row, lock, lastId, relayVars, pushVars, reader>>
PushReads == reader = "push" /\ PushStep /\ UNCHANGED <<row, lock, lastId, relayVars, stream, reader>>

Next ==
  \/ OutboxStep /\ UNCHANGED <<readerVars, reader>>
  \/ RelayReads
  \/ StreamReads
  \/ PushReads

Spec == Init /\ [][Next]_vars

(* The scheduler starts each job again and again.                          *)
FairSpec ==
  /\ Spec
  /\ \A w \in Relay : WF_vars(RelayReads /\ RelayWorks(w))
  /\ \A p \in Pusher : WF_vars(PushReads /\ PushWorks(p))
  /\ \A e \in Event : WF_vars(PushReads /\ AMinutePasses(e))

TypeOK ==
  /\ OutboxTypeOK /\ RelayTypeOK /\ StreamTypeOK /\ PushTypeOK
  /\ reader \in {"relay", "stream", "push"}

-----------------------------------------------------------------------------
(* The client of a stream that resumes with its Last-Event-ID has seen     *)
(* every event of the session up to it, even though ids are given before   *)
(* transactions commit: a smaller id never appears later, because the      *)
(* transactions of a session exclude one another (sse.ts, outbox.ts).      *)
StreamHasNoGap ==
  \A e \in SessionEvent \cap Committed : row[e].id <= stream.at => e \in stream.shown

(* A driver is notified twice of an event only if Expo accepted it in a    *)
(* call that threw, or whose worker died before it recorded the tickets.   *)
RingsTwiceOnlyIfHurt ==
  \A e \in Event : rings[e] > 1 => e \in hurt

(* Every committed event reaches every publisher (docs/06, rules of the    *)
(* relay: at least once), whatever publisher throws halfway and whatever   *)
(* worker dies.                                                            *)
EventsReachEverySink ==
  \A e \in Event : (reader = "relay" /\ e \in Committed) ~> \A i \in 1 .. Sinks : e \in took[i]

(* An event is only marked as published when every publisher has it, so    *)
(* that none is forgotten (relayOutbox marks after publish has returned).  *)
PublishedIsTaken == \A i \in 1 .. Sinks : published \subseteq took[i]

(* A notification left PENDING by a failed call or a dead worker is sent   *)
(* again until Expo answers for it (retryPending).                         *)
PendingIsAnswered ==
  \A e \in Event : note[e] = "PENDING" ~> note[e] # "PENDING"

-----------------------------------------------------------------------------
(* What the documentation says and the code does not do                    *)

(* push.ts and ADR 0022 point 5: delivery is at most once per event.       *)
RingsAtMostOnce == \A e \in Event : rings[e] <= 1

(* ADR 0022 point 5: these kinds are announced once per session.           *)
AnnouncedOnce == \A e, f \in Once : note[e] # "none" /\ note[f] # "none" => e = f

(* sse.ts: the stream ends when there will be no more events, and the      *)
(* client has seen the one that says so.                                   *)
EndIsShown == stream.stage = "done" => Last \in stream.shown
===============================================================================
