----------------------------- MODULE OutboxRelay -----------------------------
(***************************************************************************)
(* relayOutbox (apps/worker/src/jobs/outbox-relay.ts): one transaction     *)
(* that claims the pending events, skipping those another relay has        *)
(* locked, hands them to the publishers one after the other, and marks     *)
(* them, or notes the failure.                                             *)
(***************************************************************************)
EXTENDS Outbox

CONSTANTS
  Relay,     \* workers: two while one replaces the other
  Sinks      \* how many publishers the composite has

ASSUME RelayAssumption == Sinks \in Nat

VARIABLES
  published, \* the events whose published_at is set
  took,      \* [1 .. Sinks -> the events each publisher accepted]
  relay      \* [Relay -> [batch, done]]: rows claimed, publishers that have them

relayVars == <<published, took, relay>>

Asleep == [batch |-> {}, done |-> 0]

RelayInit ==
  /\ published = {}
  /\ took = [i \in 1 .. Sinks |-> {}]
  /\ relay = [w \in Relay |-> Asleep]

Pending == Committed \ (published \cup UNION {relay[w].batch : w \in Relay})

RelayClaims(w) ==
  /\ relay[w] = Asleep
  /\ Pending # {}
  /\ relay' = [relay EXCEPT ![w].batch = Pending]
  /\ UNCHANGED <<published, took, spent>>

SinkTakes(w) ==
  /\ relay[w].batch # {} /\ relay[w].done < Sinks
  /\ took' = [took EXCEPT ![relay[w].done + 1] = @ \cup relay[w].batch]
  /\ relay' = [relay EXCEPT ![w].done = @ + 1]
  /\ UNCHANGED <<published, spent>>

(* A publisher may have accepted some of the batch when it throws, or when *)
(* the worker dies.                                                        *)
TakesSome(w) ==
  IF relay[w].done < Sinks
  THEN \E some \in SUBSET relay[w].batch : took' = [took EXCEPT ![relay[w].done + 1] = @ \cup some]
  ELSE UNCHANGED took

(* Mutant: the failed batch is marked as published.                        *)
AfterFailureMarked(w) == published \cup relay[w].batch

(* markPublishFailed leaves published_at null.                             *)
AfterFailure(w) == published

SinkFails(w) ==
  /\ relay[w].batch # {} /\ relay[w].done < Sinks
  /\ Fault
  /\ TakesSome(w)
  /\ published' = AfterFailure(w)
  /\ relay' = [relay EXCEPT ![w] = Asleep]

MarkPublished(w) ==
  /\ relay[w].batch # {} /\ relay[w].done = Sinks
  /\ published' = published \cup relay[w].batch
  /\ relay' = [relay EXCEPT ![w] = Asleep]
  /\ UNCHANGED <<took, spent>>

RelayDies(w) ==
  /\ relay[w].batch # {}
  /\ Fault
  /\ TakesSome(w)
  /\ relay' = [relay EXCEPT ![w] = Asleep]
  /\ UNCHANGED published

RelayWorks(w) == RelayClaims(w) \/ SinkTakes(w) \/ MarkPublished(w)
RelayStep == \E w \in Relay : RelayWorks(w) \/ SinkFails(w) \/ RelayDies(w)

RelayTypeOK ==
  /\ published \subseteq Event
  /\ took \in [1 .. Sinks -> SUBSET Event]
  /\ relay \in [Relay -> [batch : SUBSET Event, done : 0 .. Sinks]]
===============================================================================
