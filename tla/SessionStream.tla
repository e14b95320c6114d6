---------------------------- MODULE SessionStream ----------------------------
(***************************************************************************)
(* streamSessionEvents (apps/api/src/public/sse.ts): the events of a       *)
(* session, read by outbox id, for a client that opens the stream again    *)
(* with the last id it got.                                                *)
(***************************************************************************)
EXTENDS Outbox

VARIABLE stream    \* [stage, at, shown]: what the loop does next, lastId, what the client got

StreamInit == stream = [stage |-> "poll", at |-> 0, shown |-> {}]

(* listAggregateEvents: those of the session after the last one shown.     *)
After(n) == {e \in SessionEvent \cap Committed : row[e].id > n}

Show(events) ==
  \E last \in {stream.at} \cup {row[e].id : e \in events} :
    /\ stream.at <= last /\ \A e \in events : row[e].id <= last
    /\ stream' = [stage |-> "poll", shown |-> stream.shown \cup events, at |-> last]

StreamPolls ==
  /\ stream.stage = "poll"
  /\ IF After(stream.at) # {} THEN Show(After(stream.at)) ELSE stream' = [stream EXCEPT !.stage = "ask"]
  /\ UNCHANGED spent

(* isFinished reads the session after the poll that found nothing.         *)
StreamAsks ==
  /\ stream.stage = "ask"
  /\ stream' = [stream EXCEPT !.stage = IF Finished THEN "done" ELSE "poll"]
  /\ UNCHANGED spent

(* The connection breaks with the first of the events delivered, and the   *)
(* client opens the stream again; so it may when the stream has ended.     *)
StreamReopens ==
  /\ Fault
  /\ \E n \in stream.at .. lastId : Show({e \in After(stream.at) : stream.stage = "poll" /\ row[e].id <= n})

StreamStep == StreamPolls \/ StreamAsks \/ StreamReopens

StreamTypeOK == stream \in [stage : {"poll", "ask", "done"}, at : Nat, shown : SUBSET SessionEvent]
===============================================================================
