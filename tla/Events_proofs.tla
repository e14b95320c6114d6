---------------------------- MODULE Events_proofs ----------------------------
(***************************************************************************)
(* The outbox and its readers, for any number of events, relays and        *)
(* publishers: the stream of a session has no gap, an event marked as      *)
(* published reached every publisher, and with one worker a driver is      *)
(* notified twice only of what was hurt.                                   *)
(***************************************************************************)
EXTENDS DomainEvents, TLAPS

Written == {e \in Event : row[e].stage \in {"written", "committed"}}

(* The transactions of the session exclude one another, and ids are given  *)
(* in the order of the writes.                                             *)
Excluding ==
  /\ \A e \in SessionEvent : row[e].stage \in {"locked", "written"} => lock = e
  /\ lastId \in Nat
  /\ row \in [Event -> [stage : {"none", "locked", "written", "committed"}, id : Nat]]
  /\ lock \in SessionEvent \cup {None}
  /\ \A e \in Written : row[e].id <= lastId

(* What is not committed yet gets an id after all that is, and so after    *)
(* the last that the stream has shown.                                     *)
InOrder ==
  \A f \in SessionEvent : row[f].stage = "written" =>
    /\ row[f].id > stream.at
    /\ \A e \in SessionEvent \cap Committed : row[e].id < row[f].id

StreamInv ==
  /\ Excluding
  /\ StreamTypeOK
  /\ stream.at <= lastId
  /\ InOrder
  /\ StreamHasNoGap

(* The batch of a relay has reached the publishers before its next one.    *)
RelayInv ==
  /\ RelayTypeOK
  /\ PublishedIsTaken
  /\ \A w \in Relay : \A i \in 1 .. relay[w].done : relay[w].batch \subseteq took[i]

-----------------------------------------------------------------------------
(* Where an event is on its way to the driver: not claimed, being          *)
(* prepared, in a cycle, answered for.                                     *)
Untold == \A e \in Event : note[e] = "none" => rings[e] = 0 /\ e \notin old
Unclaimed == \A e \in Event : e \notin inbox => note[e] = "none"

Preparing ==
  \A p \in Pusher : push[p].pc \in {"check", "insert"} =>
    push[p].event \in inbox /\ note[push[p].event] = "none"

InCycle ==
  \A p \in Pusher :
    /\ push[p].pc = "idle" => push[p].out = {}
    /\ \A e \in push[p].out : note[e] = "PENDING"
    /\ push[p].pc \in {"claim", "check", "insert"} => push[p].out \cap old = {}

Told(p, e) == push[p].pc = "record" /\ e \in push[p].out /\ push[p].tickets[e] # "nobody"

Answered ==
  \A e \in Event : rings[e] > 0 /\ e \notin hurt =>
    note[e] = "SENT" \/ \E p \in Pusher : Told(p, e)

PushInv ==
  /\ PushTypeOK
  /\ Untold /\ Unclaimed /\ Preparing /\ InCycle /\ Answered
  /\ RingsTwiceOnlyIfHurt

Inv == StreamInv /\ RelayInv

(* One worker runs the push job, which the scheduler never overlaps with   *)
(* itself.                                                                 *)
OnePusher == \A p, q \in Pusher : p = q

-----------------------------------------------------------------------------
LEMMA InitInv == ASSUME OutboxAssumption, RelayAssumption, Init PROVE Inv
<1> USE OutboxAssumption, RelayAssumption DEF Init, OutboxInit, RelayInit, StreamInit
<1>1. StreamInv
  BY DEF StreamInv, Excluding, InOrder, StreamHasNoGap, StreamTypeOK, Written, Committed, NoRow
<1>2. RelayInv
  BY DEF RelayInv, RelayTypeOK, PublishedIsTaken, Asleep
<1> QED BY <1>1, <1>2 DEF Inv

(* The outbox's own steps.                                                 *)
LEMMA OutboxKeeps ==
  ASSUME OutboxAssumption, StreamInv, OutboxStep, UNCHANGED stream
  PROVE  StreamInv'
<1> USE OutboxAssumption
<1>0. PICK e \in Event : LocksSession(e) \/ AppendEvent(e) \/ Commits(e) \/ RollsBack(e)
  BY DEF OutboxStep
<1>1. CASE LocksSession(e)
  BY <1>1 DEF LocksSession, StreamInv, Excluding, InOrder, StreamHasNoGap, StreamTypeOK, Written, Committed
<1>2. CASE AppendEvent(e)
  BY <1>2 DEF AppendEvent, MayAppend, StreamInv, Excluding, InOrder, StreamHasNoGap, StreamTypeOK, Written, Committed
<1>3. CASE Commits(e)
  BY <1>3 DEF Commits, Ends, StreamInv, Excluding, InOrder, StreamHasNoGap, StreamTypeOK, Written, Committed
<1>4. CASE RollsBack(e)
  BY <1>4 DEF RollsBack, Ends, NoRow, StreamInv, Excluding, InOrder, StreamHasNoGap, StreamTypeOK, Written, Committed
<1> QED BY <1>0, <1>1, <1>2, <1>3, <1>4

(* What is shown next is all that is not shown up to it.                   *)
LEMMA ShowKeeps ==
  ASSUME OutboxAssumption, StreamInv, NEW n \in Nat,
         Show({e \in After(stream.at) : row[e].id <= n}), UNCHANGED <<row, lock, lastId>>
  PROVE  StreamInv'
<1> DEFINE S == {e \in After(stream.at) : row[e].id <= n}
<1> USE OutboxAssumption
<1>1. PICK last \in {stream.at} \cup {row[e].id : e \in S} :
        /\ stream.at <= last /\ \A e \in S : row[e].id <= last
        /\ stream' = [stage |-> "poll", shown |-> stream.shown \cup S, at |-> last]
  BY DEF Show
<1>2. last \in Nat /\ last <= lastId /\ (last = stream.at \/ last <= n)
  BY <1>1 DEF StreamInv, Excluding, StreamTypeOK, After, Committed, Written
<1>3. S \subseteq SessionEvent
  BY DEF After
<1>4. Excluding'
  BY DEF StreamInv, Excluding, Written
<1>5. StreamTypeOK' /\ (stream.at <= lastId)'
  BY <1>1, <1>2, <1>3 DEF StreamInv, StreamTypeOK
<1>6. InOrder'
  BY <1>1 DEF StreamInv, InOrder, After, Committed, Excluding
<1>7. StreamHasNoGap'
  <2> SUFFICES ASSUME NEW e \in SessionEvent \cap Committed, row[e].id <= last
               PROVE  e \in stream.shown \cup S
    BY <1>1 DEF StreamHasNoGap, Committed
  <2>1. CASE row[e].id <= stream.at
    BY <2>1 DEF StreamInv, StreamHasNoGap
  <2>2. CASE row[e].id > stream.at
    BY <2>2, <1>2 DEF After, StreamInv, StreamTypeOK, Excluding
  <2> QED BY <2>1, <2>2 DEF StreamInv, StreamTypeOK, Excluding, Committed
<1> QED BY <1>4, <1>5, <1>6, <1>7 DEF StreamInv

LEMMA StreamKeeps ==
  ASSUME OutboxAssumption, StreamInv, StreamStep, UNCHANGED <<row, lock, lastId>>
  PROVE  StreamInv'
<1> USE OutboxAssumption
<1>1. CASE StreamPolls /\ After(stream.at) # {}
  <2>1. \A e \in After(stream.at) : row[e].id <= lastId
    BY DEF After, StreamInv, Excluding, Written, Committed
  <2>2. After(stream.at) = {e \in After(stream.at) : row[e].id <= lastId}
    BY <2>1
  <2>3. Show({e \in After(stream.at) : row[e].id <= lastId})
    BY <1>1, <2>2 DEF StreamPolls
  <2> QED BY <2>3, ShowKeeps DEF StreamInv, Excluding
<1>2. CASE StreamAsks \/ (StreamPolls /\ After(stream.at) = {})
  <2>1. /\ stream'.at = stream.at /\ stream'.shown = stream.shown
        /\ stream'.stage \in {"poll", "ask", "done"}
        /\ stream' = [stream EXCEPT !.stage = stream'.stage]
    BY <1>2 DEF StreamAsks, StreamPolls, StreamInv, StreamTypeOK
  <2> QED BY <2>1 DEF StreamInv, StreamTypeOK, Excluding, InOrder, StreamHasNoGap, Written, Committed
<1>3. CASE StreamReopens
  <2>1. PICK n \in stream.at .. lastId :
          Show({e \in After(stream.at) : stream.stage = "poll" /\ row[e].id <= n})
    BY <1>3 DEF StreamReopens
  <2>2. n \in Nat
    BY <2>1 DEF StreamInv, StreamTypeOK, Excluding
  <2>3. CASE stream.stage = "poll"
    <3>1. {e \in After(stream.at) : stream.stage = "poll" /\ row[e].id <= n}
            = {e \in After(stream.at) : row[e].id <= n}
      BY <2>3
    <3> QED BY <2>1, <2>2, <3>1, ShowKeeps
  <2>4. CASE stream.stage # "poll"
    <3>1. {e \in After(stream.at) : stream.stage = "poll" /\ row[e].id <= n} = {}
      BY <2>4
    <3>2. {e \in After(stream.at) : row[e].id <= 0} = {}
      BY DEF After, StreamInv, StreamTypeOK, Excluding, Committed
    <3>3. Show({e \in After(stream.at) : row[e].id <= 0})
      BY <2>1, <3>1, <3>2
    <3> QED BY <3>3, ShowKeeps
  <2> QED BY <2>3, <2>4
<1> QED BY <1>1, <1>2, <1>3 DEF StreamStep

-----------------------------------------------------------------------------
(* One lemma for each thing a relay does: take the batch further, give it  *)
(* up, or mark it.                                                         *)
LEMMA RelayKeeps ==
  ASSUME OutboxAssumption, RelayAssumption, RelayInv, RelayStep, UNCHANGED row
  PROVE  RelayInv'
<1> USE OutboxAssumption, RelayAssumption
<1>0. PICK w \in Relay : RelayWorks(w) \/ SinkFails(w) \/ RelayDies(w)
  BY DEF RelayStep
<1>a. /\ relay \in [Relay -> [batch : SUBSET Event, done : 0 .. Sinks]]
      /\ took \in [1 .. Sinks -> SUBSET Event] /\ published \subseteq Event
  BY DEF RelayInv, RelayTypeOK
<1>1. CASE RelayClaims(w)
  BY <1>1, <1>a DEF RelayClaims, Asleep, Pending, Committed, RelayInv, RelayTypeOK, PublishedIsTaken
<1>2. CASE SinkTakes(w)
  BY <1>2, <1>a DEF SinkTakes, RelayInv, RelayTypeOK, PublishedIsTaken
<1>3. CASE SinkFails(w) \/ RelayDies(w)
  <2>1. /\ published' = published /\ relay' = [relay EXCEPT ![w] = Asleep]
        /\ took' \in [1 .. Sinks -> SUBSET Event]
        /\ \A i \in 1 .. Sinks : took[i] \subseteq took'[i]
    <3>1. published' = published /\ relay' = [relay EXCEPT ![w] = Asleep] /\ TakesSome(w)
      BY <1>3 DEF SinkFails, RelayDies, AfterFailure
    <3>2. CASE relay[w].done < Sinks
      <4>1. PICK some \in SUBSET relay[w].batch : took' = [took EXCEPT ![relay[w].done + 1] = @ \cup some]
        BY <3>1, <3>2 DEF TakesSome
      <4> QED BY <4>1, <3>1, <3>2, <1>a
    <3>3. CASE ~(relay[w].done < Sinks)
      BY <3>1, <3>3, <1>a DEF TakesSome
    <3> QED BY <3>2, <3>3
  <2> QED BY <2>1, <1>a DEF Asleep, RelayInv, RelayTypeOK, PublishedIsTaken
<1>4. CASE MarkPublished(w)
  BY <1>4, <1>a DEF MarkPublished, Asleep, RelayInv, RelayTypeOK, PublishedIsTaken
<1> QED BY <1>0, <1>1, <1>2, <1>3, <1>4 DEF RelayWorks

LEMMA InvStep ==
  ASSUME OutboxAssumption, RelayAssumption, Inv, [Next]_vars
  PROVE  Inv'
<1> USE OutboxAssumption, RelayAssumption
<1>1. CASE OutboxStep /\ UNCHANGED <<readerVars, reader>>
  <2>1. StreamInv'
    BY <1>1, OutboxKeeps DEF Inv, readerVars
  <2> QED BY <1>1, <2>1 DEF Inv, readerVars, relayVars, RelayInv, RelayTypeOK, PublishedIsTaken
<1>2. CASE RelayReads
  <2>1. RelayInv'
    BY <1>2, RelayKeeps DEF Inv, RelayReads
  <2> QED BY <1>2, <2>1 DEF Inv, RelayReads, StreamInv, StreamTypeOK, Excluding, InOrder, StreamHasNoGap,
                            Written, Committed
<1>3. CASE StreamReads
  <2>1. StreamInv'
    BY <1>3, StreamKeeps DEF Inv, StreamReads
  <2> QED BY <1>3, <2>1 DEF Inv, StreamReads, relayVars, RelayInv, RelayTypeOK, PublishedIsTaken
<1>4. CASE PushReads \/ UNCHANGED vars
  BY <1>4 DEF PushReads, vars, outboxVars, readerVars, relayVars, Inv, RelayInv, RelayTypeOK, PublishedIsTaken,
              StreamInv, StreamTypeOK, Excluding, InOrder, StreamHasNoGap, Written, Committed
<1> QED BY <1>1, <1>2, <1>3, <1>4 DEF Next

LEMMA Invariance == ASSUME OutboxAssumption, RelayAssumption PROVE Spec => []Inv
BY InitInv, InvStep, PTL DEF Spec

(* The stream of a session: what the client has been shown is all there    *)
(* is up to the id it would resume from (sse.ts).                          *)
THEOREM StreamsHaveNoGap == ASSUME OutboxAssumption, RelayAssumption PROVE Spec => []StreamHasNoGap
<1>1. Inv => StreamHasNoGap
  BY DEF Inv, StreamInv
<1> QED BY <1>1, Invariance, PTL

(* The relay: an event is marked as published when every publisher has it. *)
THEOREM PublishedEventsAreTaken ==
  ASSUME OutboxAssumption, RelayAssumption
  PROVE  Spec => []PublishedIsTaken
<1>1. Inv => PublishedIsTaken
  BY DEF Inv, RelayInv
<1> QED BY <1>1, Invariance, PTL

-----------------------------------------------------------------------------
Cycle ==
  [pc : {"idle", "claim", "check", "insert", "send", "record"}, todo : SUBSET Event,
   event : Event \cup {None}, out : SUBSET Event, tickets : [Event -> Ticket]]

LEMMA SleepingIsTyped == Sleeping \in Cycle
<1>1. NoTickets \in [Event -> Ticket]
  BY DEF NoTickets, Ticket
<1> QED BY <1>1 DEF Sleeping, Cycle

LEMMA PushInitially == ASSUME OutboxAssumption, Init PROVE PushInv
<1> USE OutboxAssumption DEF Init, PushInit
<1>1. PushTypeOK
  BY SleepingIsTyped DEF PushTypeOK, Cycle, Note
<1> QED BY <1>1 DEF PushInv, Sleeping, Untold, Unclaimed, Preparing, InCycle, Answered, RingsTwiceOnlyIfHurt

(* A cycle that ends without an answer recorded: what it rang for is hurt  *)
(* or had been answered for.                                               *)
LEMMA CycleEnds ==
  ASSUME OutboxAssumption, OnePusher, PushInv, NEW p \in Pusher,
         push' = [push EXCEPT ![p] = Sleeping], UNCHANGED <<inbox, note, old, device>>,
         rings' \in [Event -> 0 .. 2], hurt' \subseteq Event, hurt \subseteq hurt',
         \A e \in Event \ hurt' : rings'[e] = rings[e] /\ ~Told(p, e),
         \A e \in Event : rings'[e] # rings[e] => note[e] # "none"
  PROVE  PushInv'
<1> USE OutboxAssumption DEF PushInv, OnePusher
<1>1. PushTypeOK'
  BY SleepingIsTyped DEF PushTypeOK, Cycle
<1>2. Untold' /\ Unclaimed'
  BY DEF Untold, Unclaimed, PushTypeOK
<1>3. Preparing' /\ InCycle'
  BY DEF Preparing, InCycle, Sleeping
<1>4. Answered' /\ RingsTwiceOnlyIfHurt'
  BY DEF Answered, RingsTwiceOnlyIfHurt, Told
<1> QED BY <1>1, <1>2, <1>3, <1>4

LEMMA CycleBeginsKeeps ==
  ASSUME OutboxAssumption, OnePusher, PushInv, NEW p \in Pusher, CycleBegins(p)
  PROVE  PushInv'
<1> USE OutboxAssumption DEF PushInv, OnePusher, At
<1>1. /\ Begun(p) \in Cycle
      /\ Begun(p).pc = "claim" /\ Begun(p).out = push[p].out
  <2>1. push[p] \in Cycle /\ (Committed \ inbox) \in SUBSET Event
    BY DEF Committed, PushTypeOK, Cycle
  <2> QED BY <2>1 DEF Begun, Cycle
<1>2. /\ push[p].pc = "idle" /\ push' = [push EXCEPT ![p] = Begun(p)]
      /\ UNCHANGED <<inbox, note, old, device, rings, hurt>>
  BY DEF CycleBegins
<1>3. PushTypeOK'
  BY <1>1, <1>2 DEF PushTypeOK, Cycle
<1>4. Untold' /\ Unclaimed' /\ Preparing' /\ InCycle'
  BY <1>1, <1>2 DEF Untold, Unclaimed, Preparing, InCycle, PushTypeOK
<1>5. Answered' /\ RingsTwiceOnlyIfHurt'
  BY <1>1, <1>2 DEF Answered, RingsTwiceOnlyIfHurt, Told, PushTypeOK
<1> QED BY <1>3, <1>4, <1>5

LEMMA ClaimsEventKeeps ==
  ASSUME OutboxAssumption, OnePusher, PushInv, NEW p \in Pusher, ClaimsEvent(p)
  PROVE  PushInv'
<1> USE OutboxAssumption DEF PushInv, OnePusher, At
<1>1. PICK e \in push[p].todo :
        /\ push' = [push EXCEPT ![p] = IF e \in inbox THEN Passed(p, e) ELSE Claimed(p, e)]
        /\ inbox' = inbox \cup {e}
  BY DEF ClaimsEvent
<1> DEFINE now == IF e \in inbox THEN Passed(p, e) ELSE Claimed(p, e)
<1>a. push[p].pc = "claim" /\ UNCHANGED <<note, old, device, rings, hurt>>
  BY DEF ClaimsEvent
<1>2. e \in Event /\ push[p] \in Cycle
  BY <1>1 DEF PushTypeOK, Cycle
<1>3. /\ now \in Cycle
      /\ now.out = push[p].out
      /\ now.pc = "claim" \/ (e \notin inbox /\ now.pc = "check" /\ now.event = e)
  BY <1>a, <1>2 DEF Passed, Claimed, Cycle
<1>4. push' = [push EXCEPT ![p] = now]
  BY <1>1
<1> HIDE DEF now
<1>5. PushTypeOK'
  BY <1>1, <1>a, <1>2, <1>3, <1>4 DEF PushTypeOK, Cycle
<1>6. Untold' /\ Unclaimed' /\ Preparing' /\ InCycle'
  BY <1>1, <1>a, <1>2, <1>3, <1>4 DEF Untold, Unclaimed, Preparing, InCycle, PushTypeOK
<1>7. Answered' /\ RingsTwiceOnlyIfHurt'
  BY <1>a, <1>3, <1>4 DEF Answered, RingsTwiceOnlyIfHurt, Told, PushTypeOK
<1> QED BY <1>5, <1>6, <1>7

LEMMA PreparesKeeps ==
  ASSUME OutboxAssumption, OnePusher, PushInv, NEW p \in Pusher, SkipsEvent(p) \/ ChecksEvent(p)
  PROVE  PushInv'
<1> USE OutboxAssumption DEF PushInv, OnePusher, At, SkipsEvent, ChecksEvent
<1>1. PushTypeOK'
  BY DEF PushTypeOK
<1>2. Untold' /\ Unclaimed' /\ Preparing' /\ InCycle'
  BY DEF Untold, Unclaimed, Preparing, InCycle, PushTypeOK
<1>3. Answered' /\ RingsTwiceOnlyIfHurt'
  BY DEF Answered, RingsTwiceOnlyIfHurt, Told, PushTypeOK
<1> QED BY <1>1, <1>2, <1>3

LEMMA InsertsNoteKeeps ==
  ASSUME OutboxAssumption, OnePusher, PushInv, NEW p \in Pusher, InsertsNote(p)
  PROVE  PushInv'
<1> USE OutboxAssumption DEF PushInv, OnePusher, At, InsertsNote
<1>0. push[p].event \in Event
  BY DEF Preparing, PushTypeOK
<1>1. PushTypeOK'
  BY <1>0 DEF PushTypeOK, Note
<1>2. Untold' /\ Unclaimed' /\ Preparing' /\ InCycle'
  BY <1>0 DEF Untold, Unclaimed, Preparing, InCycle, PushTypeOK
<1>3. Answered' /\ RingsTwiceOnlyIfHurt'
  BY <1>0 DEF Answered, RingsTwiceOnlyIfHurt, Told, PushTypeOK, Preparing, Untold
<1> QED BY <1>1, <1>2, <1>3

LEMMA RetryPendingKeeps ==
  ASSUME OutboxAssumption, OnePusher, PushInv, NEW p \in Pusher, RetryPending(p)
  PROVE  PushInv'
<1> DEFINE out == IF device THEN push[p].out \cup Late ELSE push[p].out
           now == IF out = {} THEN Sleeping ELSE [push[p] EXCEPT !.pc = "send", !.out = out]
<1> USE OutboxAssumption DEF PushInv, OnePusher, At
<1>0. /\ push' = [push EXCEPT ![p] = now]
      /\ push[p].pc = "claim" /\ UNCHANGED <<inbox, old, device, rings, hurt>>
      /\ note' = [e \in Event |-> IF ~ device /\ e \in Late THEN "NO_DEVICE" ELSE note[e]]
  BY DEF RetryPending
<1>1. /\ now \in Cycle
      /\ now.pc \in {"idle", "send"} /\ (now.pc = "idle" => now.out = {})
      /\ \A e \in now.out : note'[e] = "PENDING"
  <2>1. out \subseteq Event /\ push[p] \in Cycle
    BY DEF Late, PushTypeOK, Cycle
  <2>2. \A e \in out : note'[e] = "PENDING"
    BY <1>0, <2>1 DEF InCycle, Late, PushTypeOK
  <2> HIDE DEF out
  <2>3. CASE out = {}
    <3>1. now = Sleeping
      BY <2>3
    <3>2. Sleeping.pc = "idle" /\ Sleeping.out = {}
      BY DEF Sleeping
    <3> HIDE DEF now
    <3> QED BY <3>1, <3>2, SleepingIsTyped
  <2>4. CASE out # {}
    <3>1. now = [push[p] EXCEPT !.pc = "send", !.out = out]
      BY <2>4
    <3> HIDE DEF now
    <3>2. now \in Cycle /\ now.pc = "send" /\ now.out = out
      BY <3>1, <2>1 DEF Cycle
    <3> QED BY <3>2, <2>2
  <2> QED BY <2>3, <2>4
<1> HIDE DEF now, out
<1>2. PushTypeOK'
  BY <1>0, <1>1 DEF PushTypeOK, Note, Cycle
<1>3. Untold' /\ Unclaimed'
  BY <1>0 DEF Untold, Unclaimed, PushTypeOK, Late
<1>4. Preparing' /\ InCycle'
  BY <1>0, <1>1 DEF Preparing, InCycle, PushTypeOK
<1>5. Answered' /\ RingsTwiceOnlyIfHurt'
  BY <1>0, <1>1 DEF Answered, RingsTwiceOnlyIfHurt, Told, PushTypeOK, Late
<1> QED BY <1>2, <1>3, <1>4, <1>5

LEMMA RingRings ==
  ASSUME OutboxAssumption, PushTypeOK, NEW S, Ring(S)
  PROVE  /\ rings' \in [Event -> 0 .. 2]
         /\ \A e \in Event : e \notin S => rings'[e] = rings[e]
         /\ \A e \in Event : e \in S => rings'[e] > 0 /\ rings'[e] <= rings[e] + 1
BY DEF Ring, PushTypeOK

LEMMA SendsKeeps ==
  ASSUME OutboxAssumption, OnePusher, PushInv, NEW p \in Pusher, Sends(p)
  PROVE  PushInv'
<1> USE OutboxAssumption DEF PushInv, OnePusher, At
<1>1. PICK tickets \in [Event -> Ticket] :
        /\ \A e \in Event \ push[p].out : tickets[e] = "nobody"
        /\ Ring({e \in Event : tickets[e] # "nobody"})
        /\ push' = [push EXCEPT ![p] = Ticketed(p, tickets)]
        /\ push[p].pc = "send" /\ UNCHANGED <<inbox, note, old, device, hurt, spent>>
  BY DEF Sends
<1>2. /\ rings' \in [Event -> 0 .. 2]
      /\ \A e \in Event : e \notin push[p].out \/ tickets[e] = "nobody" => rings'[e] = rings[e]
      /\ \A e \in Event : e \in push[p].out => rings'[e] <= rings[e] + 1
  BY <1>1, RingRings
<1>a. /\ Ticketed(p, tickets) \in Cycle
      /\ Ticketed(p, tickets).pc = "record" /\ Ticketed(p, tickets).out = push[p].out
      /\ Ticketed(p, tickets).tickets = tickets
  <2>1. push[p] \in Cycle
    BY DEF PushTypeOK, Cycle
  <2> QED BY <2>1 DEF Ticketed, Cycle
<1>3. PushTypeOK'
  BY <1>1, <1>a, <1>2 DEF PushTypeOK, Cycle
<1>4. Untold' /\ Unclaimed' /\ Preparing' /\ InCycle'
  BY <1>1, <1>a, <1>2 DEF Untold, Unclaimed, Preparing, InCycle, PushTypeOK
<1>5. \A e \in push[p].out \ hurt : rings[e] = 0
  BY <1>1 DEF Answered, Told, InCycle, PushTypeOK
<1>6. Answered'
  BY <1>1, <1>a, <1>2, <1>5 DEF Answered, Told, PushTypeOK
<1>7. RingsTwiceOnlyIfHurt'
  BY <1>1, <1>2, <1>5 DEF RingsTwiceOnlyIfHurt, PushTypeOK
<1> QED BY <1>3, <1>4, <1>6, <1>7

LEMMA SendThrowsKeeps ==
  ASSUME OutboxAssumption, OnePusher, PushInv, NEW p \in Pusher, SendThrows(p)
  PROVE  PushInv'
<1> USE OutboxAssumption DEF PushInv, At
<1>1. PICK some \in SUBSET push[p].out : Ring(some) /\ hurt' = hurt \cup some
  BY DEF SendThrows
<1>2. /\ rings' \in [Event -> 0 .. 2]
      /\ \A e \in Event : e \notin some => rings'[e] = rings[e]
  BY <1>1, RingRings
<1>3. some \subseteq Event /\ \A e \in some : note[e] # "none"
  BY <1>1 DEF PushTypeOK, InCycle
<1>4. \A e \in Event : ~Told(p, e)
  BY DEF Told, SendThrows
<1> QED BY <1>1, <1>2, <1>3, <1>4, CycleEnds DEF SendThrows, PushTypeOK

LEMMA PusherDiesKeeps ==
  ASSUME OutboxAssumption, OnePusher, PushInv, NEW p \in Pusher, PusherDies(p)
  PROVE  PushInv'
<1> USE OutboxAssumption DEF PushInv, At
<1>1. hurt' = hurt \cup {e \in Event : push[p].tickets[e] # "nobody"}
  BY DEF PusherDies
<1>2. \A e \in Event : Told(p, e) => e \in hurt'
  BY <1>1 DEF Told, PushTypeOK
<1> QED BY <1>1, <1>2, CycleEnds DEF PusherDies, PushTypeOK

LEMMA RecordsTicketsKeeps ==
  ASSUME OutboxAssumption, OnePusher, PushInv, NEW p \in Pusher, RecordsTickets(p)
  PROVE  PushInv'
<1> USE OutboxAssumption DEF PushInv, OnePusher, At, RecordsTickets
<1>1. PushTypeOK'
  BY SleepingIsTyped DEF PushTypeOK, Note, Verdict, Cycle
<1>2. Untold' /\ Unclaimed' /\ Preparing' /\ InCycle'
  BY DEF Untold, Unclaimed, Preparing, InCycle, PushTypeOK, Verdict, Sleeping
<1>3. \A e \in push[p].out : push[p].tickets[e] # "nobody" => note'[e] = "SENT"
  BY DEF PushTypeOK, Verdict
<1>4. \A e \in push[p].out : push[p].tickets[e] = "nobody" => e \in hurt \/ rings[e] = 0
  BY DEF Answered, Told, PushTypeOK, InCycle
<1>5. \A e \in Event \ push[p].out : note'[e] = note[e]
  BY DEF PushTypeOK
<1>6. Answered'
  <2> SUFFICES ASSUME NEW e \in Event, rings[e] > 0, e \notin hurt
               PROVE  note'[e] = "SENT"
    BY DEF Answered
  <2>1. CASE e \in push[p].out
    BY <2>1, <1>3, <1>4 DEF PushTypeOK
  <2>2. CASE e \notin push[p].out
    BY <2>2, <1>5 DEF Answered, Told
  <2> QED BY <2>1, <2>2
<1>7. RingsTwiceOnlyIfHurt'
  BY DEF RingsTwiceOnlyIfHurt
<1> QED BY <1>1, <1>2, <1>6, <1>7

LEMMA AroundKeeps ==
  ASSUME OutboxAssumption, OnePusher, PushInv,
         RegistersDevice \/ \E e \in Event : AMinutePasses(e)
  PROVE  PushInv'
<1> USE OutboxAssumption DEF PushInv, RegistersDevice, AMinutePasses
<1>1. PushTypeOK'
  BY DEF PushTypeOK
<1>2. Untold' /\ Unclaimed' /\ Preparing' /\ InCycle'
  BY DEF Untold, Unclaimed, Preparing, InCycle
<1>3. Answered' /\ RingsTwiceOnlyIfHurt'
  BY DEF Answered, RingsTwiceOnlyIfHurt, Told
<1> QED BY <1>1, <1>2, <1>3

LEMMA PushStays ==
  ASSUME PushInv, UNCHANGED pushVars
  PROVE  PushInv'
BY DEF pushVars, PushInv, PushTypeOK, Untold, Unclaimed, Preparing, InCycle, Answered, RingsTwiceOnlyIfHurt, Told

LEMMA PushKeeps ==
  ASSUME OutboxAssumption, OnePusher, PushInv, [Next]_vars
  PROVE  PushInv'
<1>1. CASE PushReads
  BY <1>1, CycleBeginsKeeps, ClaimsEventKeeps, PreparesKeeps, InsertsNoteKeeps, RetryPendingKeeps, SendsKeeps,
     SendThrowsKeeps, PusherDiesKeeps, RecordsTicketsKeeps, AroundKeeps DEF PushReads, PushStep, PushWorks
<1>2. CASE ~PushReads
  <2>1. UNCHANGED pushVars
    BY <1>2 DEF Next, vars, readerVars, RelayReads, StreamReads
  <2> QED BY <2>1, PushStays
<1> QED BY <1>1, <1>2

(* While one worker delivers, a driver is notified twice only of an event  *)
(* of a call that threw or whose answer was not recorded (push.ts).        *)
THEOREM TwiceOnlyIfHurt ==
  ASSUME OutboxAssumption, OnePusher
  PROVE  Spec => []RingsTwiceOnlyIfHurt
<1>1. PushInv => RingsTwiceOnlyIfHurt
  BY DEF PushInv
<1> QED BY <1>1, PushInitially, PushKeeps, PTL DEF Spec
=============================================================================
