---------------------------- MODULE Gateway_proofs ----------------------------
(***************************************************************************)
(* The connections and the commands of the gateway, for any number of      *)
(* pods, sockets, faults and commands: what GatewayConnections promises of *)
(* the row and the refresh, and GatewayCommands of the verdicts.           *)
(***************************************************************************)
EXTENDS GatewayCommands, FiniteSetTheorems, TLAPS

(* What OpenRow and CloseRow need to be fenced by the generation.          *)
Recording == {"unregister", "unrecorded", "done", "lost"}

(* A socket nobody accepted has nothing; an accepted one is known to its   *)
(* pod.                                                                    *)
Accepting ==
  \A k \in Socket :
    /\ host[k] = None => /\ sock[k] = "new" /\ opening[k] = "no" /\ closing[k] = "no"
                         /\ gen[k] = 0 /\ ~ timer[k]
    /\ host[k] # None => sock[k] # "new" /\ opening[k] # "no"
    /\ (closing[k] = "no") = (sock[k] # "closed")

(* The registry of a pod holds an open connection of its own.              *)
Registered ==
  \A p \in Pod : current[p] # None => host[current[p]] = p /\ sock[current[p]] = "open"

(* A close is recorded after the opening is, and an eviction is published  *)
(* for a pod.                                                              *)
Ordered ==
  \A k \in Socket :
    /\ closing[k] \in Recording => opening[k] = "done"
    /\ opening[k] = "evict" => prevPod[k] # None
    /\ k \in evicting => prevPod[k] # None /\ opening[k] = "done"

(* The generations: at most the row's, one each, and the row's own is the  *)
(* holder's.                                                               *)
Generations ==
  /\ GenerationsDiffer
  /\ \A k \in Socket : /\ gen[k] <= rowGen
                       /\ opening[k] \in {"no", "row"} => gen[k] = 0
                       /\ gen[k] = rowGen /\ rowGen > 0 => holder = k
  /\ holder # None => rowGen > 0

ConnInv ==
  /\ ConnTypeOK
  /\ Accepting
  /\ Registered
  /\ Ordered
  /\ Generations
  /\ ConnectedIsFenced
  /\ RefreshIsAlive

-----------------------------------------------------------------------------
Waiting == {"queued", "sent"}

CommandTypeOK ==
  /\ cState \in [Command -> {"none", "PENDING", "ACCEPTED", "REJECTED", "ERROR", "TIMEOUT", "CANCELLED"}]
  /\ cPc \in [Command -> {"idle", "lookup", "waits", "has", "done", "dead"}]
  /\ tries \in [Command -> Attempt]
  /\ outcome \in [Command -> Outcomes \cup {None}]
  /\ call \in [Call -> {"none"} \cup InFlight \cup Outcomes]
  /\ asked \in [Call -> Pod \cup {None}]
  /\ via \in [Call -> Socket \cup {None}]
  /\ pending \in [Socket -> 0 .. QueueMax]
  /\ onWire \subseteq Call

(* A call that waits does so on a connection of the pod that was asked.    *)
Placed ==
  \A a \in Call :
    /\ call[a] \in InFlight => asked[a] \in Pod
    /\ call[a] \in Waiting => via[a] \in Socket /\ host[via[a]] = asked[a]

(* Only a call that was sent has a verdict of the charger; one that was    *)
(* sent and broke off has lost its connection.                             *)
Wired ==
  \A a \in Call :
    /\ call[a] \in {"none", "asked", "queued"} => a \notin onWire
    /\ call[a] \in {"sent", "Accepted", "Rejected"} \cup WasSent => a \in onWire
    /\ a \in onWire => via[a] \in Socket
    /\ a \in onWire /\ call[a] \in Retryable => sock[via[a]] = "closed"

(* Where send() is, and what it has from the attempt.                      *)
SendingOf(c) ==
  /\ tries[c] = 1 => call[<<c, 2>>] = "none"
  /\ cPc[c] \in {"idle", "lookup"} => call[Now(c)] = "none"
  /\ cPc[c] \in {"idle", "lookup", "waits"} => outcome[c] = None
  /\ cPc[c] \in {"has", "done"} =>
       /\ outcome[c] # None
       /\ outcome[c] \in {"Accepted", "Rejected"} \cup WasSent => call[Now(c)] = outcome[c]
  /\ cPc[c] = "has" /\ ~ MayAbort => call[Now(c)] \in {"none", outcome[c]}
  /\ cPc[c] = "done" => cState[c] = FinalState(outcome[c])
  /\ cPc[c] # "done" => cState[c] \in {"none", "PENDING"}

Sending == \A c \in Command : SendingOf(c)

(* Without a client that gives up, the first attempt is over before the    *)
(* second begins, and its connection is lost if it was sent on one.        *)
RepeatingOf(c) ==
  ~ MayAbort /\ tries[c] = 2 =>
    /\ call[<<c, 1>>] \in {"none"} \cup Retryable
    /\ <<c, 1>> \in onWire /\ (call[<<c, 2>>] \in Waiting \/ <<c, 2>> \in onWire)
         => via[<<c, 1>>] # via[<<c, 2>>]

Repeating == \A c \in Command : RepeatingOf(c)

WaitingOn(k) == {a \in Call : call[a] \in Waiting /\ via[a] = k}

Counted ==
  \A k \in Socket : pending[k] = Cardinality(WaitingOn(k)) /\ pending[k] <= QueueMax

(* The directory names a socket that some pod accepted.                    *)
Named == entry # None => host[entry] # None

Inv ==
  /\ ConnInv
  /\ Named
  /\ CommandTypeOK
  /\ Placed
  /\ Wired
  /\ Sending
  /\ Repeating
  /\ Counted
-----------------------------------------------------------------------------
LEMMA ConnectKeeps ==
  ASSUME ConnInv, NEW k \in Socket, NEW p \in Pod, Connect(k, p)
  PROVE  ConnInv'
PROOF
<1>1. ConnTypeOK'
  BY ConnectionsAssumption DEF ConnInv, ConnTypeOK, Registered, Ordered, Socket, Connect, podVars, rowVars
<1>2. Accepting'
  BY ConnectionsAssumption DEF ConnInv, ConnTypeOK, Accepting, Registered, Ordered, Socket, Connect, podVars, rowVars
<1>3. Registered'
  BY ConnectionsAssumption DEF ConnInv, ConnTypeOK, Accepting, Registered, Socket, Connect, podVars, rowVars
<1>4. Ordered'
  BY ConnectionsAssumption DEF ConnInv, ConnTypeOK, Accepting, Ordered, Recording, Socket, Connect, podVars, rowVars
<1>5. Generations'
  BY ConnectionsAssumption DEF ConnInv, ConnTypeOK, Accepting, Generations, GenerationsDiffer, Socket, Connect, podVars, rowVars
<1>6. ConnectedIsFenced'
  BY ConnectionsAssumption DEF ConnInv, ConnTypeOK, Accepting, Registered, Ordered, Recording, Generations, ConnectedIsFenced, Socket, Connect, podVars, rowVars
<1>7. RefreshIsAlive'
  BY ConnectionsAssumption DEF ConnInv, ConnTypeOK, Accepting, Registered, RefreshIsAlive, Socket, Connect, podVars, rowVars
<1>8. QED  BY <1>1, <1>2, <1>3, <1>4, <1>5, <1>6, <1>7 DEF ConnInv

LEMMA OpenRowKeeps ==
  ASSUME ConnInv, NEW k \in Socket, OpenRow(k)
  PROVE  ConnInv'
PROOF
<1>1. ConnTypeOK'
  BY ConnectionsAssumption DEF ConnInv, ConnTypeOK, Registered, Ordered, Socket, OpenRow, rowVars, podVars
<1>2. Accepting'
  BY ConnectionsAssumption DEF ConnInv, ConnTypeOK, Accepting, Registered, Ordered, Socket, OpenRow, rowVars, podVars
<1>3. Registered'
  BY ConnectionsAssumption DEF ConnInv, ConnTypeOK, Accepting, Registered, Socket, OpenRow, rowVars, podVars
<1>4. Ordered'
  BY ConnectionsAssumption DEF ConnInv, ConnTypeOK, Accepting, Ordered, Recording, Socket, OpenRow, rowVars, podVars
<1>5. Generations'
  BY ConnectionsAssumption DEF ConnInv, ConnTypeOK, Accepting, Generations, GenerationsDiffer, Socket, OpenRow, rowVars, podVars
<1>6. ConnectedIsFenced'
  BY ConnectionsAssumption DEF ConnInv, ConnTypeOK, Accepting, Registered, Ordered, Recording, Generations, ConnectedIsFenced, Socket, OpenRow, rowVars, podVars
<1>7. RefreshIsAlive'
  BY ConnectionsAssumption DEF ConnInv, ConnTypeOK, Accepting, Registered, RefreshIsAlive, Socket, OpenRow, rowVars, podVars
<1>8. QED  BY <1>1, <1>2, <1>3, <1>4, <1>5, <1>6, <1>7 DEF ConnInv

LEMMA OpenRowFailsKeeps ==
  ASSUME ConnInv, NEW k \in Socket, OpenRowFails(k)
  PROVE  ConnInv'
PROOF
<1>1. ConnTypeOK'
  <2>1. rowGen' \in Nat /\ connected' \in BOOLEAN /\ holder' \in Socket \cup {None}
    <3>1. CASE rowGen' = rowGen + 1 /\ connected' = TRUE /\ holder' = k
      BY <3>1 DEF ConnInv, ConnTypeOK
    <3>2. CASE UNCHANGED rowVars
      BY <3>2 DEF ConnInv, ConnTypeOK, rowVars
    <3> QED  BY <3>1, <3>2 DEF OpenRowFails
  <2>2. opening' \in [Socket -> {"no", "row", "get", "set", "evict", "done"}] /\ faults' \in Nat
    BY DEF ConnInv, ConnTypeOK, OpenRowFails, Fault
  <2> QED  BY <2>1, <2>2 DEF ConnInv, ConnTypeOK, OpenRowFails, podVars
<1>2. Accepting'
  BY ConnectionsAssumption DEF ConnInv, ConnTypeOK, Accepting, Registered, Ordered, Socket, OpenRowFails, Fault, podVars, rowVars
<1>3. Registered'
  BY ConnectionsAssumption DEF ConnInv, ConnTypeOK, Accepting, Registered, Socket, OpenRowFails, Fault, podVars, rowVars
<1>4. Ordered'
  BY ConnectionsAssumption DEF ConnInv, ConnTypeOK, Accepting, Ordered, Recording, Socket, OpenRowFails, Fault, podVars, rowVars
<1>5. Generations'
  BY ConnectionsAssumption DEF ConnInv, ConnTypeOK, Accepting, Generations, GenerationsDiffer, Socket, OpenRowFails, Fault, podVars, rowVars
<1>6. ConnectedIsFenced'
  BY ConnectionsAssumption DEF ConnInv, ConnTypeOK, Accepting, Registered, Ordered, Recording, Generations, ConnectedIsFenced, Socket, OpenRowFails, Fault, podVars, rowVars
<1>7. RefreshIsAlive'
  BY ConnectionsAssumption DEF ConnInv, ConnTypeOK, Accepting, Registered, RefreshIsAlive, Socket, OpenRowFails, Fault, podVars, rowVars
<1>8. QED  BY <1>1, <1>2, <1>3, <1>4, <1>5, <1>6, <1>7 DEF ConnInv

LEMMA ReadEntryKeeps ==
  ASSUME ConnInv, NEW k \in Socket, ReadEntry(k)
  PROVE  ConnInv'
PROOF
<1>1. ConnTypeOK'
  BY ConnectionsAssumption DEF ConnInv, ConnTypeOK, Registered, Ordered, Socket, ReadEntry, podVars, rowVars
<1>2. Accepting'
  BY ConnectionsAssumption DEF ConnInv, ConnTypeOK, Accepting, Registered, Ordered, Socket, ReadEntry, podVars, rowVars
<1>3. Registered'
  BY ConnectionsAssumption DEF ConnInv, ConnTypeOK, Accepting, Registered, Socket, ReadEntry, podVars, rowVars
<1>4. Ordered'
  BY ConnectionsAssumption DEF ConnInv, ConnTypeOK, Accepting, Ordered, Recording, Socket, ReadEntry, podVars, rowVars
<1>5. Generations'
  BY ConnectionsAssumption DEF ConnInv, ConnTypeOK, Accepting, Generations, GenerationsDiffer, Socket, ReadEntry, podVars, rowVars
<1>6. ConnectedIsFenced'
  BY ConnectionsAssumption DEF ConnInv, ConnTypeOK, Accepting, Registered, Ordered, Recording, Generations, ConnectedIsFenced, Socket, ReadEntry, podVars, rowVars
<1>7. RefreshIsAlive'
  BY ConnectionsAssumption DEF ConnInv, ConnTypeOK, Accepting, Registered, RefreshIsAlive, Socket, ReadEntry, podVars, rowVars
<1>8. QED  BY <1>1, <1>2, <1>3, <1>4, <1>5, <1>6, <1>7 DEF ConnInv

LEMMA WriteEntryKeeps ==
  ASSUME ConnInv, NEW k \in Socket, WriteEntry(k)
  PROVE  ConnInv'
PROOF
<1>1. ConnTypeOK'
  BY ConnectionsAssumption DEF ConnInv, ConnTypeOK, Registered, Ordered, Socket, WriteEntry, StartsTimer, podVars, rowVars
<1>2. Accepting'
  BY ConnectionsAssumption DEF ConnInv, ConnTypeOK, Accepting, Registered, Ordered, Socket, WriteEntry, StartsTimer, podVars, rowVars
<1>3. Registered'
  BY ConnectionsAssumption DEF ConnInv, ConnTypeOK, Accepting, Registered, Socket, WriteEntry, StartsTimer, podVars, rowVars
<1>4. Ordered'
  BY ConnectionsAssumption DEF ConnInv, ConnTypeOK, Accepting, Ordered, Recording, Socket, WriteEntry, StartsTimer, podVars, rowVars
<1>5. Generations'
  BY ConnectionsAssumption DEF ConnInv, ConnTypeOK, Accepting, Generations, GenerationsDiffer, Socket, WriteEntry, StartsTimer, podVars, rowVars
<1>6. ConnectedIsFenced'
  BY ConnectionsAssumption DEF ConnInv, ConnTypeOK, Accepting, Registered, Ordered, Recording, Generations, ConnectedIsFenced, Socket, WriteEntry, StartsTimer, podVars, rowVars
<1>7. RefreshIsAlive'
  <2>1. host[k] \in Pod
    BY DEF ConnInv, ConnTypeOK, Accepting, WriteEntry
  <2>2. timer'[k] => sock[k] = "open" /\ current[host[k]] = k
    <3>1. timer'[k] => current[host[k]] = k
      BY DEF ConnInv, ConnTypeOK, WriteEntry, StartsTimer
    <3>2. current[host[k]] = k => sock[k] = "open"
      BY <2>1, ConnectionsAssumption DEF ConnInv, Socket, Registered
    <3> QED  BY <3>1, <3>2
  <2>3. timer'[k] => opening'[k] = "done"
    BY DEF ConnInv, ConnTypeOK, WriteEntry
  <2>4. \A j \in Socket \ {k} : timer'[j] = timer[j] /\ opening'[j] = opening[j]
    BY DEF ConnInv, ConnTypeOK, WriteEntry
  <2> QED  BY <2>2, <2>3, <2>4 DEF ConnInv, RefreshIsAlive, WriteEntry, podVars
<1>8. QED  BY <1>1, <1>2, <1>3, <1>4, <1>5, <1>6, <1>7 DEF ConnInv

LEMMA PublishEvictionKeeps ==
  ASSUME ConnInv, NEW k \in Socket, PublishEviction(k)
  PROVE  ConnInv'
PROOF
<1>1. ConnTypeOK'
  BY ConnectionsAssumption DEF ConnInv, ConnTypeOK, Registered, Ordered, Socket, PublishEviction, StartsTimer, podVars, rowVars
<1>2. Accepting'
  BY ConnectionsAssumption DEF ConnInv, ConnTypeOK, Accepting, Registered, Ordered, Socket, PublishEviction, StartsTimer, podVars, rowVars
<1>3. Registered'
  BY ConnectionsAssumption DEF ConnInv, ConnTypeOK, Accepting, Registered, Socket, PublishEviction, StartsTimer, podVars, rowVars
<1>4. Ordered'
  BY ConnectionsAssumption DEF ConnInv, ConnTypeOK, Accepting, Ordered, Recording, Socket, PublishEviction, StartsTimer, podVars, rowVars
<1>5. Generations'
  BY ConnectionsAssumption DEF ConnInv, ConnTypeOK, Accepting, Generations, GenerationsDiffer, Socket, PublishEviction, StartsTimer, podVars, rowVars
<1>6. ConnectedIsFenced'
  BY ConnectionsAssumption DEF ConnInv, ConnTypeOK, Accepting, Registered, Ordered, Recording, Generations, ConnectedIsFenced, Socket, PublishEviction, StartsTimer, podVars, rowVars
<1>7. RefreshIsAlive'
  <2>1. host[k] \in Pod
    BY DEF ConnInv, ConnTypeOK, Accepting, PublishEviction
  <2>2. timer'[k] => sock[k] = "open" /\ current[host[k]] = k
    <3>1. timer'[k] => current[host[k]] = k
      BY DEF ConnInv, ConnTypeOK, PublishEviction, StartsTimer
    <3>2. current[host[k]] = k => sock[k] = "open"
      BY <2>1, ConnectionsAssumption DEF ConnInv, Socket, Registered
    <3> QED  BY <3>1, <3>2
  <2>3. opening'[k] = "done" /\ \A j \in Socket \ {k} : timer'[j] = timer[j] /\ opening'[j] = opening[j]
    BY DEF ConnInv, ConnTypeOK, PublishEviction
  <2> QED  BY <2>2, <2>3 DEF ConnInv, RefreshIsAlive, PublishEviction, podVars
<1>8. QED  BY <1>1, <1>2, <1>3, <1>4, <1>5, <1>6, <1>7 DEF ConnInv

LEMMA DirectoryFailsKeeps ==
  ASSUME ConnInv, NEW k \in Socket, DirectoryFails(k)
  PROVE  ConnInv'
PROOF
<1>1. ConnTypeOK'
  BY ConnectionsAssumption DEF ConnInv, ConnTypeOK, Registered, Ordered, Socket, DirectoryFails, Fault, podVars, rowVars
<1>2. Accepting'
  BY ConnectionsAssumption DEF ConnInv, ConnTypeOK, Accepting, Registered, Ordered, Socket, DirectoryFails, Fault, podVars, rowVars
<1>3. Registered'
  BY ConnectionsAssumption DEF ConnInv, ConnTypeOK, Accepting, Registered, Socket, DirectoryFails, Fault, podVars, rowVars
<1>4. Ordered'
  BY ConnectionsAssumption DEF ConnInv, ConnTypeOK, Accepting, Ordered, Recording, Socket, DirectoryFails, Fault, podVars, rowVars
<1>5. Generations'
  BY ConnectionsAssumption DEF ConnInv, ConnTypeOK, Accepting, Generations, GenerationsDiffer, Socket, DirectoryFails, Fault, podVars, rowVars
<1>6. ConnectedIsFenced'
  BY ConnectionsAssumption DEF ConnInv, ConnTypeOK, Accepting, Registered, Ordered, Recording, Generations, ConnectedIsFenced, Socket, DirectoryFails, Fault, podVars, rowVars
<1>7. RefreshIsAlive'
  BY ConnectionsAssumption DEF ConnInv, ConnTypeOK, Accepting, Registered, RefreshIsAlive, Socket, DirectoryFails, Fault, podVars, rowVars
<1>8. QED  BY <1>1, <1>2, <1>3, <1>4, <1>5, <1>6, <1>7 DEF ConnInv

LEMMA ClosedKeeps ==
  ASSUME ConnInv, NEW k \in Socket, Closed(k)
  PROVE  ConnInv'
PROOF
<1>1. ConnTypeOK'
  BY ConnectionsAssumption DEF ConnInv, ConnTypeOK, Registered, Ordered, Socket, Closed, Closes, podVars, rowVars
<1>2. Accepting'
  BY ConnectionsAssumption DEF ConnInv, ConnTypeOK, Accepting, Registered, Ordered, Socket, Closed, Closes, podVars, rowVars
<1>3. Registered'
  BY ConnectionsAssumption DEF ConnInv, ConnTypeOK, Accepting, Registered, Socket, Closed, Closes, podVars, rowVars
<1>4. Ordered'
  BY ConnectionsAssumption DEF ConnInv, ConnTypeOK, Accepting, Ordered, Recording, Socket, Closed, Closes, podVars, rowVars
<1>5. Generations'
  BY ConnectionsAssumption DEF ConnInv, ConnTypeOK, Accepting, Generations, GenerationsDiffer, Socket, Closed, Closes, podVars, rowVars
<1>6. ConnectedIsFenced'
  BY ConnectionsAssumption DEF ConnInv, ConnTypeOK, Accepting, Registered, Ordered, Recording, Generations, ConnectedIsFenced, Socket, Closed, Closes, podVars, rowVars
<1>7. RefreshIsAlive'
  BY ConnectionsAssumption DEF ConnInv, ConnTypeOK, Accepting, Registered, RefreshIsAlive, Socket, Closed, Closes, podVars, rowVars
<1>8. QED  BY <1>1, <1>2, <1>3, <1>4, <1>5, <1>6, <1>7 DEF ConnInv

LEMMA CloseRowKeeps ==
  ASSUME ConnInv, NEW k \in Socket, CloseRow(k)
  PROVE  ConnInv'
PROOF
<1>1. ConnTypeOK'
  BY ConnectionsAssumption DEF ConnInv, ConnTypeOK, Registered, Ordered, Socket, CloseRow, MayRecord, IsFenced, AfterRow, podVars, rowVars
<1>2. Accepting'
  BY ConnectionsAssumption DEF ConnInv, ConnTypeOK, Accepting, Registered, Ordered, Socket, CloseRow, MayRecord, IsFenced, AfterRow, podVars, rowVars
<1>3. Registered'
  BY ConnectionsAssumption DEF ConnInv, ConnTypeOK, Accepting, Registered, Socket, CloseRow, MayRecord, IsFenced, AfterRow, podVars, rowVars
<1>4. Ordered'
  BY ConnectionsAssumption DEF ConnInv, ConnTypeOK, Accepting, Ordered, Recording, Socket, CloseRow, MayRecord, IsFenced, AfterRow, podVars, rowVars
<1>5. Generations'
  BY ConnectionsAssumption DEF ConnInv, ConnTypeOK, Accepting, Generations, GenerationsDiffer, Socket, CloseRow, MayRecord, IsFenced, AfterRow, podVars, rowVars
<1>6. ConnectedIsFenced'
  <2>1. closing[k] \in {"replaced", "closed"} /\ closing' = [closing EXCEPT ![k] = AfterRow(k)]
        /\ connected' = (connected /\ gen[k] # rowGen) /\ UNCHANGED <<gen, rowGen, holder>>
    BY DEF CloseRow, MayRecord, IsFenced
  <2>2. AfterRow(k) \in {"unregister", "done"}
    BY DEF AfterRow
  <2>3. CASE holder = k /\ gen[k] = rowGen
    BY <2>1, <2>2, <2>3 DEF ConnInv, ConnTypeOK, ConnectedIsFenced
  <2>4. CASE holder # None /\ holder # k /\ gen[holder] = rowGen
    <3>1. gen[k] # rowGen
      BY <2>4 DEF ConnInv, ConnTypeOK, Generations
    <3> QED  BY <2>1, <2>4, <3>1 DEF ConnInv, ConnTypeOK, ConnectedIsFenced
  <2> QED  BY <2>1, <2>3, <2>4 DEF ConnectedIsFenced
<1>7. RefreshIsAlive'
  BY ConnectionsAssumption DEF ConnInv, ConnTypeOK, Accepting, Registered, RefreshIsAlive, Socket, CloseRow, MayRecord, IsFenced, AfterRow, podVars, rowVars
<1>8. QED  BY <1>1, <1>2, <1>3, <1>4, <1>5, <1>6, <1>7 DEF ConnInv

LEMMA CloseRowFailsKeeps ==
  ASSUME ConnInv, NEW k \in Socket, CloseRowFails(k)
  PROVE  ConnInv'
PROOF
<1>1. ConnTypeOK'
  BY ConnectionsAssumption DEF ConnInv, ConnTypeOK, Registered, Ordered, Socket, CloseRowFails, MayRecord, Fault, podVars, rowVars
<1>2. Accepting'
  BY ConnectionsAssumption DEF ConnInv, ConnTypeOK, Accepting, Registered, Ordered, Socket, CloseRowFails, MayRecord, Fault, podVars, rowVars
<1>3. Registered'
  BY ConnectionsAssumption DEF ConnInv, ConnTypeOK, Accepting, Registered, Socket, CloseRowFails, MayRecord, Fault, podVars, rowVars
<1>4. Ordered'
  BY ConnectionsAssumption DEF ConnInv, ConnTypeOK, Accepting, Ordered, Recording, Socket, CloseRowFails, MayRecord, Fault, podVars, rowVars
<1>5. Generations'
  BY ConnectionsAssumption DEF ConnInv, ConnTypeOK, Accepting, Generations, GenerationsDiffer, Socket, CloseRowFails, MayRecord, Fault, podVars, rowVars
<1>6. ConnectedIsFenced'
  BY ConnectionsAssumption DEF ConnInv, ConnTypeOK, Accepting, Registered, Ordered, Recording, Generations, ConnectedIsFenced, Socket, CloseRowFails, MayRecord, Fault, podVars, rowVars
<1>7. RefreshIsAlive'
  BY ConnectionsAssumption DEF ConnInv, ConnTypeOK, Accepting, Registered, RefreshIsAlive, Socket, CloseRowFails, MayRecord, Fault, podVars, rowVars
<1>8. QED  BY <1>1, <1>2, <1>3, <1>4, <1>5, <1>6, <1>7 DEF ConnInv

LEMMA UnregisterKeeps ==
  ASSUME ConnInv, NEW k \in Socket, Unregister(k)
  PROVE  ConnInv'
PROOF
<1>1. ConnTypeOK'
  BY ConnectionsAssumption DEF ConnInv, ConnTypeOK, Registered, Ordered, Socket, Unregister, UnregisterEnds, podVars, rowVars
<1>2. Accepting'
  BY ConnectionsAssumption DEF ConnInv, ConnTypeOK, Accepting, Registered, Ordered, Socket, Unregister, UnregisterEnds, podVars, rowVars
<1>3. Registered'
  BY ConnectionsAssumption DEF ConnInv, ConnTypeOK, Accepting, Registered, Socket, Unregister, UnregisterEnds, podVars, rowVars
<1>4. Ordered'
  BY ConnectionsAssumption DEF ConnInv, ConnTypeOK, Accepting, Ordered, Recording, Socket, Unregister, UnregisterEnds, podVars, rowVars
<1>5. Generations'
  BY ConnectionsAssumption DEF ConnInv, ConnTypeOK, Accepting, Generations, GenerationsDiffer, Socket, Unregister, UnregisterEnds, podVars, rowVars
<1>6. ConnectedIsFenced'
  BY ConnectionsAssumption DEF ConnInv, ConnTypeOK, Accepting, Registered, Ordered, Recording, Generations, ConnectedIsFenced, Socket, Unregister, UnregisterEnds, podVars, rowVars
<1>7. RefreshIsAlive'
  BY ConnectionsAssumption DEF ConnInv, ConnTypeOK, Accepting, Registered, RefreshIsAlive, Socket, Unregister, UnregisterEnds, podVars, rowVars
<1>8. QED  BY <1>1, <1>2, <1>3, <1>4, <1>5, <1>6, <1>7 DEF ConnInv

LEMMA UnregisterFailsKeeps ==
  ASSUME ConnInv, NEW k \in Socket, UnregisterFails(k)
  PROVE  ConnInv'
PROOF
<1>1. ConnTypeOK'
  BY ConnectionsAssumption DEF ConnInv, ConnTypeOK, Registered, Ordered, Socket, UnregisterFails, UnregisterEnds, Fault, podVars, rowVars
<1>2. Accepting'
  BY ConnectionsAssumption DEF ConnInv, ConnTypeOK, Accepting, Registered, Ordered, Socket, UnregisterFails, UnregisterEnds, Fault, podVars, rowVars
<1>3. Registered'
  BY ConnectionsAssumption DEF ConnInv, ConnTypeOK, Accepting, Registered, Socket, UnregisterFails, UnregisterEnds, Fault, podVars, rowVars
<1>4. Ordered'
  BY ConnectionsAssumption DEF ConnInv, ConnTypeOK, Accepting, Ordered, Recording, Socket, UnregisterFails, UnregisterEnds, Fault, podVars, rowVars
<1>5. Generations'
  BY ConnectionsAssumption DEF ConnInv, ConnTypeOK, Accepting, Generations, GenerationsDiffer, Socket, UnregisterFails, UnregisterEnds, Fault, podVars, rowVars
<1>6. ConnectedIsFenced'
  BY ConnectionsAssumption DEF ConnInv, ConnTypeOK, Accepting, Registered, Ordered, Recording, Generations, ConnectedIsFenced, Socket, UnregisterFails, UnregisterEnds, Fault, podVars, rowVars
<1>7. RefreshIsAlive'
  BY ConnectionsAssumption DEF ConnInv, ConnTypeOK, Accepting, Registered, RefreshIsAlive, Socket, UnregisterFails, UnregisterEnds, Fault, podVars, rowVars
<1>8. QED  BY <1>1, <1>2, <1>3, <1>4, <1>5, <1>6, <1>7 DEF ConnInv

LEMMA EvictKeeps ==
  ASSUME ConnInv, NEW k \in Socket, Evict(k)
  PROVE  ConnInv'
PROOF
<1>1. ConnTypeOK'
  BY ConnectionsAssumption DEF ConnInv, ConnTypeOK, Registered, Ordered, Socket, Evict, Closes, podVars, rowVars
<1>2. Accepting'
  BY ConnectionsAssumption DEF ConnInv, ConnTypeOK, Accepting, Registered, Ordered, Socket, Evict, Closes, podVars, rowVars
<1>3. Registered'
  BY ConnectionsAssumption DEF ConnInv, ConnTypeOK, Accepting, Registered, Socket, Evict, Closes, podVars, rowVars
<1>4. Ordered'
  BY ConnectionsAssumption DEF ConnInv, ConnTypeOK, Accepting, Ordered, Recording, Socket, Evict, Closes, podVars, rowVars
<1>5. Generations'
  BY ConnectionsAssumption DEF ConnInv, ConnTypeOK, Accepting, Generations, GenerationsDiffer, Socket, Evict, Closes, podVars, rowVars
<1>6. ConnectedIsFenced'
  BY ConnectionsAssumption DEF ConnInv, ConnTypeOK, Accepting, Registered, Ordered, Recording, Generations, ConnectedIsFenced, Socket, Evict, Closes, podVars, rowVars
<1>7. RefreshIsAlive'
  <2> DEFINE j == current[prevPod[k]]
  <2>1. prevPod[k] \in Pod /\ j \in Socket /\ host[j] = prevPod[k]
    BY DEF ConnInv, ConnTypeOK, Registered, Ordered, Evict
  <2>2. timer' = [timer EXCEPT ![j] = FALSE] /\ sock' = [sock EXCEPT ![j] = "closed"]
        /\ current' = [current EXCEPT ![prevPod[k]] = None] /\ UNCHANGED <<opening, host>>
    BY <2>1 DEF Evict, Closes
  <2>3. ASSUME NEW i \in Socket, timer'[i]
        PROVE  sock'[i] = "open" /\ opening'[i] = "done" /\ current'[host'[i]] = i
    <3>1. i # j /\ timer[i]
      BY <2>1, <2>2, <2>3 DEF ConnInv, ConnTypeOK
    <3>2. sock[i] = "open" /\ opening[i] = "done" /\ current[host[i]] = i
      BY <3>1 DEF ConnInv, RefreshIsAlive
    <3>3. host[i] \in Pod
      BY <3>1 DEF ConnInv, ConnTypeOK, Accepting
    <3>4. host[i] # prevPod[k]
      BY <3>1, <3>2
    <3> QED  BY <2>1, <2>2, <3>1, <3>2, <3>3, <3>4 DEF ConnInv, ConnTypeOK
  <2> QED  BY <2>3 DEF RefreshIsAlive
<1>8. QED  BY <1>1, <1>2, <1>3, <1>4, <1>5, <1>6, <1>7 DEF ConnInv

LEMMA EvictionIsLostKeeps ==
  ASSUME ConnInv, NEW k \in Socket, EvictionIsLost(k)
  PROVE  ConnInv'
PROOF
<1>1. ConnTypeOK'
  BY ConnectionsAssumption DEF ConnInv, ConnTypeOK, Registered, Ordered, Socket, EvictionIsLost, Fault, podVars, rowVars
<1>2. Accepting'
  BY ConnectionsAssumption DEF ConnInv, ConnTypeOK, Accepting, Registered, Ordered, Socket, EvictionIsLost, Fault, podVars, rowVars
<1>3. Registered'
  BY ConnectionsAssumption DEF ConnInv, ConnTypeOK, Accepting, Registered, Socket, EvictionIsLost, Fault, podVars, rowVars
<1>4. Ordered'
  BY ConnectionsAssumption DEF ConnInv, ConnTypeOK, Accepting, Ordered, Recording, Socket, EvictionIsLost, Fault, podVars, rowVars
<1>5. Generations'
  BY ConnectionsAssumption DEF ConnInv, ConnTypeOK, Accepting, Generations, GenerationsDiffer, Socket, EvictionIsLost, Fault, podVars, rowVars
<1>6. ConnectedIsFenced'
  BY ConnectionsAssumption DEF ConnInv, ConnTypeOK, Accepting, Registered, Ordered, Recording, Generations, ConnectedIsFenced, Socket, EvictionIsLost, Fault, podVars, rowVars
<1>7. RefreshIsAlive'
  BY ConnectionsAssumption DEF ConnInv, ConnTypeOK, Accepting, Registered, RefreshIsAlive, Socket, EvictionIsLost, Fault, podVars, rowVars
<1>8. QED  BY <1>1, <1>2, <1>3, <1>4, <1>5, <1>6, <1>7 DEF ConnInv

LEMMA ExpireKeeps ==
  ASSUME ConnInv, Expire
  PROVE  ConnInv'
PROOF
<1>1. ConnTypeOK'
  BY ConnectionsAssumption DEF ConnInv, ConnTypeOK, Registered, Ordered, Socket, Expire, podVars, rowVars
<1>2. Accepting'
  BY ConnectionsAssumption DEF ConnInv, ConnTypeOK, Accepting, Registered, Ordered, Socket, Expire, podVars, rowVars
<1>3. Registered'
  BY ConnectionsAssumption DEF ConnInv, ConnTypeOK, Accepting, Registered, Socket, Expire, podVars, rowVars
<1>4. Ordered'
  BY ConnectionsAssumption DEF ConnInv, ConnTypeOK, Accepting, Ordered, Recording, Socket, Expire, podVars, rowVars
<1>5. Generations'
  BY ConnectionsAssumption DEF ConnInv, ConnTypeOK, Accepting, Generations, GenerationsDiffer, Socket, Expire, podVars, rowVars
<1>6. ConnectedIsFenced'
  BY ConnectionsAssumption DEF ConnInv, ConnTypeOK, Accepting, Registered, Ordered, Recording, Generations, ConnectedIsFenced, Socket, Expire, podVars, rowVars
<1>7. RefreshIsAlive'
  BY ConnectionsAssumption DEF ConnInv, ConnTypeOK, Accepting, Registered, RefreshIsAlive, Socket, Expire, podVars, rowVars
<1>8. QED  BY <1>1, <1>2, <1>3, <1>4, <1>5, <1>6, <1>7 DEF ConnInv

LEMMA DrainKeeps ==
  ASSUME ConnInv, NEW p \in Pod, Drain(p)
  PROVE  ConnInv'
PROOF
<1>1. ConnTypeOK'
  BY ConnectionsAssumption DEF ConnInv, ConnTypeOK, Registered, Ordered, Socket, Drain, podVars, rowVars
<1>2. Accepting'
  BY ConnectionsAssumption DEF ConnInv, ConnTypeOK, Accepting, Registered, Ordered, Socket, Drain, podVars, rowVars
<1>3. Registered'
  BY ConnectionsAssumption DEF ConnInv, ConnTypeOK, Accepting, Registered, Socket, Drain, podVars, rowVars
<1>4. Ordered'
  BY ConnectionsAssumption DEF ConnInv, ConnTypeOK, Accepting, Ordered, Recording, Socket, Drain, podVars, rowVars
<1>5. Generations'
  BY ConnectionsAssumption DEF ConnInv, ConnTypeOK, Accepting, Generations, GenerationsDiffer, Socket, Drain, podVars, rowVars
<1>6. ConnectedIsFenced'
  BY ConnectionsAssumption DEF ConnInv, ConnTypeOK, Accepting, Registered, Ordered, Recording, Generations, ConnectedIsFenced, Socket, Drain, podVars, rowVars
<1>7. RefreshIsAlive'
  BY ConnectionsAssumption DEF ConnInv, ConnTypeOK, Accepting, Registered, RefreshIsAlive, Socket, Drain, podVars, rowVars
<1>8. QED  BY <1>1, <1>2, <1>3, <1>4, <1>5, <1>6, <1>7 DEF ConnInv

LEMMA DieKeeps ==
  ASSUME ConnInv, NEW p \in Pod, Die(p)
  PROVE  ConnInv'
PROOF
<1>1. ConnTypeOK'
  BY ConnectionsAssumption DEF ConnInv, ConnTypeOK, Registered, Ordered, Socket, Die, Fault, podVars, rowVars
<1>2. Accepting'
  BY ConnectionsAssumption DEF ConnInv, ConnTypeOK, Accepting, Registered, Ordered, Socket, Die, Fault, podVars, rowVars
<1>3. Registered'
  BY ConnectionsAssumption DEF ConnInv, ConnTypeOK, Accepting, Registered, Socket, Die, Fault, podVars, rowVars
<1>4. Ordered'
  BY ConnectionsAssumption DEF ConnInv, ConnTypeOK, Accepting, Ordered, Recording, Socket, Die, Fault, podVars, rowVars
<1>5. Generations'
  BY ConnectionsAssumption DEF ConnInv, ConnTypeOK, Accepting, Generations, GenerationsDiffer, Socket, Die, Fault, podVars, rowVars
<1>6. ConnectedIsFenced'
  BY ConnectionsAssumption DEF ConnInv, ConnTypeOK, Accepting, Registered, Ordered, Recording, Generations, ConnectedIsFenced, Socket, Die, Fault, podVars, rowVars
<1>7. RefreshIsAlive'
  <2>1. ASSUME NEW i \in Socket, timer'[i]
        PROVE  sock'[i] = "open" /\ opening'[i] = "done" /\ current'[host'[i]] = i
    <3>1. timer[i] /\ host[i] # p
      BY <2>1 DEF Die
    <3>2. sock[i] = "open" /\ opening[i] = "done" /\ current[host[i]] = i
      BY <3>1 DEF ConnInv, RefreshIsAlive
    <3>3. host[i] \in Pod
      BY <3>1 DEF ConnInv, ConnTypeOK, Accepting
    <3> QED  BY <3>1, <3>2, <3>3 DEF ConnInv, ConnTypeOK, Die
  <2> QED  BY <2>1 DEF RefreshIsAlive
<1>8. QED  BY <1>1, <1>2, <1>3, <1>4, <1>5, <1>6, <1>7 DEF ConnInv

LEMMA RestartKeeps ==
  ASSUME ConnInv, NEW p \in Pod, Restart(p)
  PROVE  ConnInv'
PROOF
<1>1. ConnTypeOK'
  BY ConnectionsAssumption DEF ConnInv, ConnTypeOK, Registered, Ordered, Socket, Restart, podVars, rowVars
<1>2. Accepting'
  BY ConnectionsAssumption DEF ConnInv, ConnTypeOK, Accepting, Registered, Ordered, Socket, Restart, podVars, rowVars
<1>3. Registered'
  BY ConnectionsAssumption DEF ConnInv, ConnTypeOK, Accepting, Registered, Socket, Restart, podVars, rowVars
<1>4. Ordered'
  BY ConnectionsAssumption DEF ConnInv, ConnTypeOK, Accepting, Ordered, Recording, Socket, Restart, podVars, rowVars
<1>5. Generations'
  BY ConnectionsAssumption DEF ConnInv, ConnTypeOK, Accepting, Generations, GenerationsDiffer, Socket, Restart, podVars, rowVars
<1>6. ConnectedIsFenced'
  BY ConnectionsAssumption DEF ConnInv, ConnTypeOK, Accepting, Registered, Ordered, Recording, Generations, ConnectedIsFenced, Socket, Restart, podVars, rowVars
<1>7. RefreshIsAlive'
  BY ConnectionsAssumption DEF ConnInv, ConnTypeOK, Accepting, Registered, RefreshIsAlive, Socket, Restart, podVars, rowVars
<1>8. QED  BY <1>1, <1>2, <1>3, <1>4, <1>5, <1>6, <1>7 DEF ConnInv
(* Before anything happens.                                                *)
LEMMA ConnInitial ==
  ASSUME ConnInit
  PROVE  ConnInv
PROOF
<1>1. ConnTypeOK
  BY ConnectionsAssumption DEF ConnInit, ConnTypeOK, Socket
<1>2. Accepting /\ Registered /\ Ordered
  BY ConnectionsAssumption DEF ConnInit, Accepting, Registered, Ordered, Recording, Socket
<1>3. Generations
  BY ConnectionsAssumption DEF ConnInit, Generations, GenerationsDiffer, Socket
<1>4. ConnectedIsFenced /\ RefreshIsAlive
  BY ConnectionsAssumption DEF ConnInit, ConnectedIsFenced, RefreshIsAlive, Socket
<1> QED  BY <1>1, <1>2, <1>3, <1>4 DEF ConnInv

LEMMA ConnStays ==
  ASSUME ConnInv, UNCHANGED connVars
  PROVE  ConnInv'
PROOF
BY DEF connVars, podVars, rowVars, ConnInv, ConnTypeOK, Accepting, Registered, Ordered, Recording,
   Generations, GenerationsDiffer, ConnectedIsFenced, RefreshIsAlive

(* A step of a connection keeps the invariant.                             *)
LEMMA ConnKeeps ==
  ASSUME ConnInv, ConnStep
  PROVE  ConnInv'
PROOF
BY ConnectKeeps, OpenRowKeeps, OpenRowFailsKeeps, ReadEntryKeeps, WriteEntryKeeps, PublishEvictionKeeps,
   DirectoryFailsKeeps, ClosedKeeps, CloseRowKeeps, CloseRowFailsKeeps, UnregisterKeeps,
   UnregisterFailsKeeps, EvictKeeps, EvictionIsLostKeeps, ExpireKeeps, DrainKeeps, RestartKeeps
   DEF ConnStep, OpenStep, CloseStep, FailStep, EvictionStep

(* A socket stays with its pod, and a closed one stays closed.             *)
LEMMA SocketsStay ==
  ASSUME ConnInv, ConnNext, NEW k \in Socket
  PROVE  /\ host[k] # None => host'[k] = host[k]
         /\ sock[k] = "closed" => sock'[k] = "closed"
PROOF
BY DEF ConnInv, ConnTypeOK, Accepting, ConnNext, ConnStep, OpenStep, CloseStep, FailStep, EvictionStep, Connect, OpenRow, OpenRowFails,
   ReadEntry, WriteEntry, PublishEviction, DirectoryFails, Closed, Closes, CloseRow, CloseRowFails, Unregister,
   UnregisterFails, Evict, EvictionIsLost, Expire, Drain, Die, Restart, podVars

-----------------------------------------------------------------------------
LEMMA FaultsMayRise ==
  ASSUME ConnInv, faults' = faults + 1,
         UNCHANGED <<podVars, host, sock, opening, closing, gen, prevPod, timer, rowVars, entry, evicting>>
  PROVE  ConnInv'
PROOF
BY DEF podVars, rowVars, ConnInv, ConnTypeOK, Accepting, Registered, Ordered, Recording,
   Generations, GenerationsDiffer, ConnectedIsFenced, RefreshIsAlive

-----------------------------------------------------------------------------
(* The verdicts, once and for all.                                         *)
LEMMA OutcomesAre ==
  /\ Outcomes = {"Accepted", "Rejected", "UNAVAILABLE", "NOT_CONNECTED", "TIMEOUT", "CALL_ERROR", "QUEUE_FULL"}
  /\ None \notin Outcomes
PROOF
BY NoneIsNoOutcome DEF Outcomes, Errors, Retryable, WasSent

LEMMA CallsOf ==
  ASSUME CommandTypeOK, NEW c \in Command
  PROVE  /\ <<c, 1>> \in Call /\ <<c, 2>> \in Call /\ Now(c) \in Call
         /\ tries[c] = 1 => Now(c) = <<c, 1>>
         /\ tries[c] # 1 => Now(c) = <<c, 2>> /\ tries[c] = 2
         /\ \A d \in Command : d # c => Now(c) # <<d, 1>> /\ Now(c) # <<d, 2>> /\ Now(c) # Now(d)
PROOF
BY DEF CommandTypeOK, Call, Attempt, Now

(* What happens to a call in flight is no matter to send().                *)
LEMMA FlightsMatterNot ==
  ASSUME Inv, UNCHANGED commandVars,
         \A a \in Call : call[a] \notin InFlight => call'[a] = call[a]
  PROVE  Sending'
PROOF
<1> SUFFICES ASSUME NEW c \in Command
             PROVE  SendingOf(c)'
  BY DEF Sending
<1>1. SendingOf(c) /\ <<c, 2>> \in Call /\ Now(c) \in Call /\ Now(c)' = Now(c)
  BY CallsOf DEF Inv, Sending, Now, commandVars
<1>2. outcome[c] \in Outcomes \cup {None}
  BY DEF Inv, CommandTypeOK
<1>3. call[Now(c)] \in {"none"} \cup Outcomes => call'[Now(c)] = call[Now(c)]
  BY <1>1, OutcomesAre DEF InFlight
<1>4. call[<<c, 2>>] = "none" => call'[<<c, 2>>] = "none"
  BY <1>1 DEF InFlight
<1> QED  BY <1>1, <1>2, <1>3, <1>4, OutcomesAre DEF SendingOf, WasSent, commandVars

(* The step of one command is no matter to another.                        *)
LEMMA OthersSend ==
  ASSUME Inv, NEW c \in Command, NEW d \in Command, d # c,
         cState'[d] = cState[d], cPc'[d] = cPc[d], tries'[d] = tries[d], outcome'[d] = outcome[d],
         \A a \in Call : a # Now(c) => call'[a] = call[a]
  PROVE  SendingOf(d)'
PROOF
<1>1. Now(d)' = Now(d)
  BY DEF Now
<1>2. call'[<<d, 2>>] = call[<<d, 2>>] /\ call'[Now(d)] = call[Now(d)]
  BY CallsOf DEF Inv
<1> QED  BY <1>1, <1>2 DEF Inv, Sending, SendingOf

-----------------------------------------------------------------------------
(* The queues.                                                             *)
LEMMA WaitingIsFinite ==
  ASSUME NEW k \in Socket
  PROVE  IsFiniteSet(WaitingOn(k)) /\ Cardinality(WaitingOn(k)) \in Nat
PROOF
<1>1. IsFiniteSet(Attempt)
  <2>1. IsFiniteSet({1})
    BY FS_Singleton
  <2>2. IsFiniteSet({1} \cup {2})
    BY <2>1, FS_AddElement
  <2> QED  BY <2>2 DEF Attempt
<1>2. IsFiniteSet(Call)
  BY <1>1, CommandsAssumption, FS_Product DEF Call
<1> QED  BY <1>2, FS_Subset, FS_CardinalityType DEF WaitingOn

LEMMA CountStays ==
  ASSUME Inv, pending' = pending,
         \A a \in Call : /\ call'[a] \in Waiting <=> call[a] \in Waiting
                         /\ call[a] \in Waiting => via'[a] = via[a]
  PROVE  Counted'
PROOF
<1>1. \A k \in Socket : WaitingOn(k)' = WaitingOn(k)
  BY DEF WaitingOn
<1> QED  BY <1>1 DEF Inv, Counted

LEMMA CountGrows ==
  ASSUME Inv, NEW a \in Call, NEW k \in Socket, call[a] \notin Waiting, pending[k] < QueueMax,
         call' = [call EXCEPT ![a] = "queued"], via' = [via EXCEPT ![a] = k],
         pending' = [pending EXCEPT ![k] = @ + 1]
  PROVE  Counted' /\ pending' \in [Socket -> 0 .. QueueMax]
PROOF
<1>1. WaitingOn(k)' = WaitingOn(k) \cup {a} /\ a \notin WaitingOn(k)
  BY DEF Inv, CommandTypeOK, WaitingOn, Waiting
<1>2. \A j \in Socket \ {k} : WaitingOn(j)' = WaitingOn(j)
  BY DEF Inv, CommandTypeOK, WaitingOn, Waiting
<1>3. Cardinality(WaitingOn(k)') = Cardinality(WaitingOn(k)) + 1
  BY <1>1, WaitingIsFinite, FS_AddElement
<1> QED  BY <1>2, <1>3, CommandsAssumption DEF Inv, CommandTypeOK, Counted

LEMMA CountFalls ==
  ASSUME Inv, NEW a \in Call, NEW o, call[a] \in Waiting, o \notin Waiting,
         call' = [call EXCEPT ![a] = o], via' = via, Release(a)
  PROVE  Counted' /\ pending' \in [Socket -> 0 .. QueueMax]
PROOF
<1> DEFINE k == via[a]
<1>0. k \in Socket
  BY DEF Inv, Placed
<1>1. WaitingOn(k)' = WaitingOn(k) \ {a} /\ a \in WaitingOn(k)
  BY DEF Inv, CommandTypeOK, WaitingOn, Waiting
<1>2. \A j \in Socket \ {k} : WaitingOn(j)' = WaitingOn(j)
  BY DEF Inv, CommandTypeOK, WaitingOn, Waiting
<1>3. Cardinality(WaitingOn(k)') = Cardinality(WaitingOn(k)) - 1 /\ Cardinality(WaitingOn(k)) # 0
  <2>1. IsFiniteSet(WaitingOn(k))
    BY <1>0, WaitingIsFinite
  <2>2. Cardinality(WaitingOn(k) \ {a}) = Cardinality(WaitingOn(k)) - 1
    BY <1>1, <2>1, FS_RemoveElement
  <2>3. Cardinality(WaitingOn(k)) # 0
    BY <1>1, <2>1, FS_EmptySet
  <2> QED  BY <1>1, <2>2, <2>3
<1>4. pending[k] = Cardinality(WaitingOn(k)) /\ pending[k] \in 0 .. QueueMax
  BY <1>0 DEF Inv, CommandTypeOK, Counted
<1> QED  BY <1>0, <1>2, <1>3, <1>4, CommandsAssumption DEF Inv, CommandTypeOK, Counted, Release

-----------------------------------------------------------------------------
(* What the steps of a connection and of a pod leave of the rest.          *)
LEMMA StaysNamed ==
  ASSUME ConnInv, Named, ConnNext
  PROVE  Named'
PROOF
<1>1. entry' \in {entry, None} \/ \E k \in Socket : entry' = k /\ opening[k] = "set"
  BY DEF ConnNext, ConnStep, OpenStep, CloseStep, FailStep, EvictionStep, Connect, OpenRow, OpenRowFails,
     ReadEntry, WriteEntry, PublishEviction, DirectoryFails, Closed, CloseRow, CloseRowFails, Unregister,
     UnregisterFails, Evict, EvictionIsLost, Expire, Drain, Die, Restart
<1>2. CASE entry' = None
  BY <1>2 DEF Named
<1>3. CASE entry' # None
  <2>1. entry' \in Socket /\ host[entry'] # None
    BY <1>1, <1>3, ConnectionsAssumption DEF ConnInv, ConnTypeOK, Accepting, Named
  <2> QED  BY <2>1, SocketsStay DEF Named
<1> QED  BY <1>2, <1>3

LEMMA CallsStay ==
  ASSUME Inv, UNCHANGED <<connVars, callVars>>
  PROVE  ConnInv' /\ Named' /\ Placed' /\ Wired' /\ Counted'
PROOF
<1>1. ConnInv'
  BY ConnStays DEF Inv
<1>2. Named' /\ Placed' /\ Wired'
  BY DEF Inv, Named, Placed, Wired, connVars, callVars
<1>3. Counted'
  BY CountStays DEF callVars
<1> QED  BY <1>1, <1>2, <1>3

LEMMA ConnectionMoves ==
  ASSUME Inv, ConnStep, UNCHANGED <<commandVars, callVars>>
  PROVE  Inv'
PROOF
<1>1. ConnInv' /\ Named'
  BY ConnKeeps, StaysNamed DEF Inv, ConnNext
<1>2. CommandTypeOK' /\ Repeating'
  BY DEF Inv, CommandTypeOK, Repeating, RepeatingOf, commandVars, callVars
<1>3. Placed'
  <2>1. \A k \in Socket : host[k] # None => host'[k] = host[k]
    BY SocketsStay DEF Inv, ConnNext
  <2>2. \A q \in Pod : q # None
    BY ConnectionsAssumption
  <2> QED  BY <2>1, <2>2 DEF Inv, Placed, InFlight, Waiting, callVars
<1>4. Wired'
  BY SocketsStay DEF Inv, Wired, ConnNext, callVars
<1>5. Sending'
  BY FlightsMatterNot DEF callVars
<1>6. Counted'
  BY CountStays DEF callVars
<1> QED  BY <1>1, <1>2, <1>3, <1>4, <1>5, <1>6 DEF Inv

LEMMA PodDies ==
  ASSUME Inv, NEW p \in Pod, Die(p), CallsDie(p)
  PROVE  Inv'
PROOF
<1>1. ConnInv' /\ Named'
  BY DieKeeps, StaysNamed DEF Inv, ConnNext
<1>2. UNCHANGED <<host, asked, via, onWire, commandVars>>
  BY DEF Die, CallsDie
<1>3. \A a \in Call : /\ call'[a] # call[a] => call[a] \in InFlight /\ asked[a] = p /\ call'[a] = "UNAVAILABLE"
                      /\ call'[a] \in InFlight => call'[a] = call[a] /\ asked[a] # p
  BY DEF CallsDie, InFlight
<1>4. CommandTypeOK'
  <2>1. call' \in [Call -> {"none"} \cup InFlight \cup Outcomes]
    BY OutcomesAre DEF Inv, CommandTypeOK, CallsDie
  <2>2. pending' \in [Socket -> 0 .. QueueMax]
    BY CommandsAssumption DEF Inv, CommandTypeOK, CallsDie
  <2> QED  BY <1>2, <2>1, <2>2 DEF Inv, CommandTypeOK, commandVars
<1>5. Placed'
  BY <1>2, <1>3 DEF Inv, Placed, Waiting, InFlight
<1>6. Wired'
  <2>1. \A k \in Socket : host[k] = p \/ sock[k] = "closed" => sock'[k] = "closed"
    BY DEF Die
  <2>2. ASSUME NEW a \in Call, a \in onWire, call'[a] \in Retryable
        PROVE  sock'[via[a]] = "closed"
    <3>1. via[a] \in Socket
      BY <2>2 DEF Inv, Wired
    <3>2. CASE call'[a] = call[a]
      BY <2>1, <2>2, <3>1, <3>2 DEF Inv, Wired
    <3>3. CASE call'[a] # call[a]
      <4>1. call[a] = "sent" /\ asked[a] = p
        BY <1>3, <2>2, <3>3 DEF Inv, Wired, InFlight
      <4>2. host[via[a]] = p
        BY <4>1 DEF Inv, Placed, Waiting
      <4> QED  BY <2>1, <3>1, <4>2
    <3> QED  BY <3>2, <3>3
  <2>3. ASSUME NEW a \in Call
        PROVE  /\ call'[a] \in {"none", "asked", "queued"} => a \notin onWire
               /\ call'[a] \in {"sent", "Accepted", "Rejected"} \cup WasSent => a \in onWire
               /\ a \in onWire => via[a] \in Socket
    BY <1>3 DEF Inv, Wired, WasSent
  <2> QED  BY <1>2, <2>2, <2>3 DEF Wired
<1>7. Sending'
  BY <1>2, <1>3, FlightsMatterNot
<1>8. Repeating'
  <2> SUFFICES ASSUME NEW c \in Command
               PROVE  RepeatingOf(c)'
    BY DEF Repeating
  <2>1. <<c, 1>> \in Call /\ <<c, 2>> \in Call /\ RepeatingOf(c)
    BY CallsOf DEF Inv, Repeating
  <2> QED  BY <1>2, <1>3, <2>1 DEF RepeatingOf, InFlight, Waiting, Retryable, commandVars
<1>9. Counted'
  <2> SUFFICES ASSUME NEW k \in Socket
               PROVE  pending'[k] = Cardinality(WaitingOn(k)') /\ pending'[k] <= QueueMax
    BY DEF Counted
  <2>1. CASE host[k] = p
    <3>1. WaitingOn(k)' = {}
      BY <1>2, <1>3, <2>1 DEF Inv, Placed, WaitingOn, Waiting, InFlight
    <3> QED  BY <2>1, <3>1, FS_EmptySet, CommandsAssumption DEF CallsDie
  <2>2. CASE host[k] # p
    <3>1. WaitingOn(k)' = WaitingOn(k)
      BY <1>2, <1>3, <2>2 DEF Inv, Placed, WaitingOn, Waiting, InFlight
    <3> QED  BY <2>2, <3>1 DEF Inv, Counted, CallsDie
  <2> QED  BY <2>1, <2>2
<1> QED  BY <1>1, <1>4, <1>5, <1>6, <1>7, <1>8, <1>9 DEF Inv

-----------------------------------------------------------------------------
(* The steps of a call.                                                    *)
LEMMA CallRepeats ==
  ASSUME Inv, NEW a \in Call, NEW c \in Command, ~ MayAbort, tries[c] = 2, call[a] \in InFlight
  PROVE  a # <<c, 1>>
PROOF
<1>1. call[<<c, 1>>] \notin InFlight
  BY DEF Inv, Repeating, RepeatingOf, Retryable, InFlight
<1> QED  BY <1>1

LEMMA ArriveKeeps ==
  ASSUME Inv, NEW a \in Call, Arrive(a)
  PROVE  Inv'
PROOF
<1> DEFINE k == current[asked[a]]
<1>1. ConnInv' /\ Named' /\ asked[a] \in Pod /\ call[a] = "asked" /\ a \notin onWire
  BY ConnStays DEF Inv, Named, Placed, Wired, InFlight, Arrive, connVars
<1>2. /\ UNCHANGED <<connVars, commandVars, asked, onWire>>
      /\ call[a] \notin Waiting
  BY <1>1 DEF Arrive, Waiting
<1>3. \A b \in Call : b # a => call'[b] = call[b] /\ via'[b] = via[b]
  BY DEF Inv, CommandTypeOK, Arrive
<1>4. Sending'
  BY <1>1, <1>2, <1>3, FlightsMatterNot DEF InFlight
<1>5. CASE k # None /\ HasRoom(k)
  <2>1. /\ call' = [call EXCEPT ![a] = "queued"]
        /\ via' = [via EXCEPT ![a] = k]
        /\ pending' = [pending EXCEPT ![k] = @ + 1]
    BY <1>5 DEF Arrive
  <2>2. k \in Socket /\ host[k] = asked[a] /\ sock[k] = "open" /\ pending[k] < QueueMax
    BY <1>1, <1>5 DEF Inv, ConnInv, ConnTypeOK, Registered, HasRoom
  <2>3. Counted' /\ pending' \in [Socket -> 0 .. QueueMax]
    BY <1>2, <2>1, <2>2, CountGrows
  <2>4. CommandTypeOK'
    BY <1>2, <2>1, <2>2, <2>3 DEF Inv, CommandTypeOK, InFlight, commandVars
  <2>5. Placed'
    BY <1>1, <1>2, <2>1, <2>2 DEF Inv, CommandTypeOK, Placed, InFlight, Waiting, connVars
  <2>6. Wired'
    BY <1>1, <1>2, <2>1, <2>2 DEF Inv, CommandTypeOK, Wired, WasSent, Retryable, connVars
  <2>7. Repeating'
    <3> SUFFICES ASSUME NEW c \in Command, ~ MayAbort, tries[c] = 2
                 PROVE  /\ call'[<<c, 1>>] \in {"none"} \cup Retryable
                        /\ <<c, 1>> \in onWire /\ (call'[<<c, 2>>] \in Waiting \/ <<c, 2>> \in onWire)
                             => via'[<<c, 1>>] # via'[<<c, 2>>]
      BY <1>2 DEF Repeating, RepeatingOf, commandVars
    <3>1. a # <<c, 1>> /\ <<c, 1>> \in Call /\ <<c, 2>> \in Call
      BY <1>1, CallRepeats, CallsOf DEF Inv, InFlight
    <3>2. /\ call[<<c, 1>>] \in {"none"} \cup Retryable
          /\ <<c, 1>> \in onWire /\ (call[<<c, 2>>] \in Waiting \/ <<c, 2>> \in onWire)
               => via[<<c, 1>>] # via[<<c, 2>>]
      BY DEF Inv, Repeating, RepeatingOf
    <3>3. <<c, 1>> \in onWire => sock[via[<<c, 1>>]] = "closed"
      BY <3>1, <3>2 DEF Inv, Wired
    <3>4. a = <<c, 2>> => via'[<<c, 2>>] = k
      BY <2>1 DEF Inv, CommandTypeOK
    <3> QED  BY <1>3, <2>2, <3>1, <3>2, <3>3, <3>4
  <2> QED  BY <1>1, <1>4, <2>3, <2>4, <2>5, <2>6, <2>7 DEF Inv
<1>6. CASE ~ (k # None /\ HasRoom(k))
  <2>1. PICK o \in {"NOT_CONNECTED", "QUEUE_FULL"} :
          call' = [call EXCEPT ![a] = o] /\ UNCHANGED <<via, pending>>
    BY <1>6 DEF Arrive
  <2>2. call'[a] = o /\ o \in Outcomes /\ o \notin InFlight /\ o \notin Waiting
    BY <2>1, OutcomesAre DEF Inv, CommandTypeOK, InFlight, Waiting
  <2>3. CommandTypeOK'
    BY <1>2, <2>1, <2>2 DEF Inv, CommandTypeOK, commandVars
  <2>4. Placed'
    BY <1>2, <1>3, <2>1, <2>2 DEF Inv, Placed, connVars
  <2>5. Wired'
    BY <1>1, <1>2, <1>3, <2>1, <2>2 DEF Inv, Wired, WasSent, connVars
  <2>6. Repeating'
    <3> SUFFICES ASSUME NEW c \in Command, ~ MayAbort, tries[c] = 2
                 PROVE  RepeatingOf(c)'
      BY <1>2 DEF Repeating, RepeatingOf, commandVars
    <3>1. a # <<c, 1>> /\ <<c, 1>> \in Call /\ <<c, 2>> \in Call /\ RepeatingOf(c)
      BY <1>1, CallRepeats, CallsOf DEF Inv, Repeating, InFlight
    <3> QED  BY <1>1, <1>2, <1>3, <2>1, <2>2, <3>1 DEF RepeatingOf, commandVars
  <2>7. Counted'
    BY <1>2, <1>3, <2>1, <2>2, CountStays
  <2> QED  BY <1>1, <1>4, <2>3, <2>4, <2>5, <2>6, <2>7 DEF Inv
<1> QED  BY <1>5, <1>6

LEMMA GoesOutKeeps ==
  ASSUME Inv, NEW a \in Call, GoesOut(a)
  PROVE  Inv'
PROOF
<1>1. ConnInv' /\ Named' /\ call[a] = "queued" /\ via[a] \in Socket
  BY ConnStays DEF Inv, Named, Placed, Waiting, GoesOut, connVars
<1>2. /\ UNCHANGED <<connVars, commandVars, asked, via, pending>>
      /\ call' = [call EXCEPT ![a] = "sent"] /\ onWire' = onWire \cup {a}
  BY DEF GoesOut
<1>3. call'[a] = "sent" /\ \A b \in Call : b # a => call'[b] = call[b]
  BY <1>2 DEF Inv, CommandTypeOK
<1>4. CommandTypeOK'
  BY <1>2 DEF Inv, CommandTypeOK, InFlight, commandVars
<1>5. Placed'
  BY <1>1, <1>2, <1>3 DEF Inv, Placed, InFlight, Waiting, connVars
<1>6. Wired'
  BY <1>1, <1>2, <1>3 DEF Inv, Wired, Retryable, connVars
<1>7. Sending'
  BY <1>1, <1>2, <1>3, FlightsMatterNot DEF InFlight
<1>8. Repeating'
  <2> SUFFICES ASSUME NEW c \in Command, ~ MayAbort, tries[c] = 2
               PROVE  RepeatingOf(c)'
    BY <1>2 DEF Repeating, RepeatingOf, commandVars
  <2>1. a # <<c, 1>> /\ <<c, 1>> \in Call /\ <<c, 2>> \in Call /\ RepeatingOf(c)
    BY <1>1, CallRepeats, CallsOf DEF Inv, Repeating, InFlight
  <2> QED  BY <1>1, <1>2, <1>3, <2>1 DEF RepeatingOf, Waiting, commandVars
<1>9. Counted'
  BY <1>1, <1>2, <1>3, CountStays DEF Waiting
<1> QED  BY <1>1, <1>4, <1>5, <1>6, <1>7, <1>8, <1>9 DEF Inv

(* A call that waits is over, with a verdict or for the loss of its        *)
(* connection.                                                             *)
LEMMA IsOver ==
  ASSUME Inv, NEW a \in Call, NEW o \in Outcomes, call[a] \in Waiting,
         call' = [call EXCEPT ![a] = o], Release(a),
         o \in {"Accepted", "Rejected"} \cup WasSent => call[a] = "sent",
         o \in Retryable => sock[via[a]] = "closed",
         UNCHANGED <<connVars, commandVars, asked, via, onWire>>
  PROVE  Inv'
PROOF
<1>1. ConnInv' /\ Named' /\ via[a] \in Socket
  BY ConnStays DEF Inv, Named, Placed, connVars
<1>2. o \notin InFlight /\ o \notin Waiting /\ o # "none"
  BY OutcomesAre DEF InFlight, Waiting
<1>3. call'[a] = o /\ \A b \in Call : b # a => call'[b] = call[b]
  BY DEF Inv, CommandTypeOK
<1>4. Counted' /\ pending' \in [Socket -> 0 .. QueueMax]
  BY <1>2, CountFalls
<1>5. CommandTypeOK'
  BY <1>4 DEF Inv, CommandTypeOK, commandVars
<1>6. Placed'
  BY <1>2, <1>3 DEF Inv, Placed, connVars
<1>7. Wired'
  BY <1>1, <1>2, <1>3 DEF Inv, Wired, InFlight, connVars
<1>8. Sending'
  BY <1>3, FlightsMatterNot DEF InFlight, Waiting
<1>9. Repeating'
  <2> SUFFICES ASSUME NEW c \in Command, ~ MayAbort, tries[c] = 2
               PROVE  RepeatingOf(c)'
    BY DEF Repeating, RepeatingOf, commandVars
  <2>1. a # <<c, 1>> /\ <<c, 1>> \in Call /\ <<c, 2>> \in Call /\ RepeatingOf(c)
    BY CallRepeats, CallsOf DEF Inv, Repeating, InFlight, Waiting
  <2> QED  BY <1>2, <1>3, <2>1 DEF RepeatingOf, commandVars
<1> QED  BY <1>1, <1>4, <1>5, <1>6, <1>7, <1>8, <1>9 DEF Inv

LEMMA CallKeeps ==
  ASSUME Inv, NEW a \in Call, CallStep(a)
  PROVE  Inv'
PROOF
<1>1. CASE BreaksOff(a)
  <2>1. "NOT_CONNECTED" \in Outcomes /\ "NOT_CONNECTED" \notin {"Accepted", "Rejected"} \cup WasSent
    BY OutcomesAre DEF WasSent
  <2> QED  BY <1>1, <2>1, IsOver DEF BreaksOff, Waiting
<1>2. ASSUME NEW o \in Outcomes, Answer(a, o)
      PROVE  Inv'
  <2>1. o \notin Retryable
    BY <1>2 DEF Answer, WasSent, Retryable
  <2> QED  BY <1>2, <2>1, IsOver DEF Answer, Waiting
<1> QED  BY <1>1, <1>2, ArriveKeeps, GoesOutKeeps DEF CallStep

-----------------------------------------------------------------------------
(* The steps of send().                                                    *)

(* A step of one command that sends nothing has only its own place to keep. *)
LEMMA OwnPlace ==
  ASSUME Inv, NEW c \in Command, UNCHANGED callVars, tries' = tries,
         \E s, q, o : /\ cState' = [cState EXCEPT ![c] = s]
                      /\ cPc' = [cPc EXCEPT ![c] = q]
                      /\ outcome' = [outcome EXCEPT ![c] = o],
         SendingOf(c)'
  PROVE  Sending' /\ Repeating'
PROOF
<1>1. ASSUME NEW d \in Command, d # c
      PROVE  cState'[d] = cState[d] /\ cPc'[d] = cPc[d] /\ outcome'[d] = outcome[d]
  BY <1>1 DEF Inv, CommandTypeOK
<1>2. ASSUME NEW d \in Command, d # c
      PROVE  SendingOf(d)'
  BY <1>1, <1>2, OthersSend DEF callVars
<1>3. Sending'
  BY <1>2 DEF Sending
<1>4. Repeating'
  BY DEF Inv, Repeating, RepeatingOf, callVars
<1> QED  BY <1>3, <1>4

LEMMA SendKeeps ==
  ASSUME Inv, NEW c \in Command, Send(c)
  PROVE  Inv'
PROOF
<1>1. ConnInv' /\ Named' /\ Placed' /\ Wired' /\ Counted'
  BY CallsStay DEF Send
<1>2. CommandTypeOK'
  BY DEF Inv, CommandTypeOK, Send, callVars
<1>3. SendingOf(c)'
  BY DEF Inv, CommandTypeOK, Sending, SendingOf, Now, Send, callVars
<1>4. \E s, q, o : /\ cState' = [cState EXCEPT ![c] = s]
                   /\ cPc' = [cPc EXCEPT ![c] = q]
                   /\ outcome' = [outcome EXCEPT ![c] = o]
  BY DEF Inv, CommandTypeOK, Send
<1>5. Sending' /\ Repeating'
  BY <1>3, <1>4, OwnPlace DEF Send
<1> QED  BY <1>1, <1>2, <1>5 DEF Inv

LEMMA GetsKeeps ==
  ASSUME Inv, NEW c \in Command, NEW o \in Outcomes, Gets(c, o),
         o # call[Now(c)] => MayAbort /\ o = "UNAVAILABLE"
  PROVE  Inv'
PROOF
<1>1. ConnInv' /\ Named' /\ Placed' /\ Wired' /\ Counted'
  BY CallsStay DEF Gets
<1>2. CommandTypeOK'
  BY DEF Inv, CommandTypeOK, Gets, callVars
<1>3. SendingOf(c)'
  BY OutcomesAre DEF Inv, CommandTypeOK, Sending, SendingOf, Now, WasSent, Gets, callVars
<1>4. \E s, q, p : /\ cState' = [cState EXCEPT ![c] = s]
                   /\ cPc' = [cPc EXCEPT ![c] = q]
                   /\ outcome' = [outcome EXCEPT ![c] = p]
  BY DEF Inv, CommandTypeOK, Gets
<1>5. Sending' /\ Repeating'
  BY <1>3, <1>4, OwnPlace DEF Gets
<1> QED  BY <1>1, <1>2, <1>5 DEF Inv

LEMMA FinishKeeps ==
  ASSUME Inv, NEW c \in Command, Finish(c)
  PROVE  Inv'
PROOF
<1>1. ConnInv' /\ Named' /\ Placed' /\ Wired' /\ Counted'
  BY CallsStay DEF Finish
<1>2. FinalState(outcome[c]) \in {"ACCEPTED", "REJECTED", "ERROR", "TIMEOUT", "CANCELLED"}
  BY DEF FinalState
<1>3. CommandTypeOK'
  BY <1>2 DEF Inv, CommandTypeOK, Finish, callVars
<1>4. SendingOf(c)'
  BY DEF Inv, CommandTypeOK, Sending, SendingOf, Now, Finish, callVars
<1>5. \E s, q, o : /\ cState' = [cState EXCEPT ![c] = s]
                   /\ cPc' = [cPc EXCEPT ![c] = q]
                   /\ outcome' = [outcome EXCEPT ![c] = o]
  BY DEF Inv, CommandTypeOK, Finish
<1>6. Sending' /\ Repeating'
  BY <1>4, <1>5, OwnPlace DEF Finish
<1> QED  BY <1>1, <1>3, <1>6 DEF Inv

LEMMA SenderDiesKeeps ==
  ASSUME Inv, NEW c \in Command, SenderDies(c)
  PROVE  Inv'
PROOF
<1>1. ConnInv' /\ Named'
  BY FaultsMayRise DEF Inv, Named, SenderDies, Fault
<1>2. Placed' /\ Wired'
  BY DEF Inv, Placed, Wired, SenderDies, callVars
<1>3. Counted'
  BY CountStays DEF SenderDies, callVars
<1>4. CommandTypeOK'
  BY DEF Inv, CommandTypeOK, SenderDies, callVars
<1>5. SendingOf(c)'
  BY DEF Inv, CommandTypeOK, Sending, SendingOf, Now, SenderDies, callVars
<1>6. \E s, q, o : /\ cState' = [cState EXCEPT ![c] = s]
                   /\ cPc' = [cPc EXCEPT ![c] = q]
                   /\ outcome' = [outcome EXCEPT ![c] = o]
  <2>1. cState' = [cState EXCEPT ![c] = cState[c]] /\ outcome' = [outcome EXCEPT ![c] = outcome[c]]
    BY DEF Inv, CommandTypeOK, SenderDies
  <2> QED  BY <2>1 DEF SenderDies
<1>7. Sending' /\ Repeating'
  BY <1>5, <1>6, OwnPlace DEF SenderDies
<1> QED  BY <1>1, <1>2, <1>3, <1>4, <1>7 DEF Inv

LEMMA RepeatKeeps ==
  ASSUME Inv, NEW c \in Command, Repeat(c)
  PROVE  Inv'
PROOF
<1>1. ConnInv' /\ Named' /\ Placed' /\ Wired' /\ Counted'
  BY CallsStay DEF Repeat
<1>2. CommandTypeOK'
  BY DEF Inv, CommandTypeOK, Attempt, Repeat, callVars
<1>3. /\ tries[c] = 1 /\ cPc[c] = "has" /\ outcome[c] \in Retryable
      /\ Now(c) = <<c, 1>> /\ call[<<c, 2>>] = "none" /\ <<c, 2>> \notin onWire
  BY CallsOf DEF Inv, Sending, SendingOf, Wired, Repeat, MayRepeat
<1>4. /\ tries'[c] = 2 /\ cPc'[c] = "lookup" /\ outcome'[c] = None
      /\ UNCHANGED <<cState, call, via, onWire>>
      /\ \A d \in Command : d # c => cPc'[d] = cPc[d] /\ tries'[d] = tries[d] /\ outcome'[d] = outcome[d]
  BY DEF Inv, CommandTypeOK, Repeat, callVars
<1>5. SendingOf(c)'
  BY <1>3, <1>4 DEF Inv, Sending, SendingOf, Now
<1>6. Sending'
  BY <1>4, <1>5, OthersSend DEF Sending
<1>7. Repeating'
  <2>1. RepeatingOf(c)'
    BY <1>3, <1>4 DEF Inv, Sending, SendingOf, RepeatingOf, Waiting
  <2>2. \A d \in Command : d # c => RepeatingOf(d)'
    BY <1>4 DEF Inv, Repeating, RepeatingOf
  <2> QED  BY <2>1, <2>2 DEF Repeating
<1> QED  BY <1>1, <1>2, <1>6, <1>7 DEF Inv

LEMMA LookupKeeps ==
  ASSUME Inv, NEW c \in Command, Lookup(c)
  PROVE  Inv'
PROOF
<1>1. ConnInv' /\ Named' /\ Now(c) \in Call /\ call[Now(c)] = "none" /\ Now(c) \notin onWire
  BY ConnStays, CallsOf DEF Inv, Named, Sending, SendingOf, Wired, Lookup, connVars
<1>2. CASE entry # None /\ pod[host[entry]] # "down"
  <2> DEFINE a == Now(c)
  <2>1. /\ call' = [call EXCEPT ![a] = "asked"] /\ asked' = [asked EXCEPT ![a] = host[entry]]
        /\ cPc' = [cPc EXCEPT ![c] = "waits"]
        /\ UNCHANGED <<connVars, cState, outcome, tries, via, pending, onWire>>
    BY <1>2 DEF Lookup
  <2>2. host[entry] \in Pod
    BY <1>2 DEF Inv, ConnInv, ConnTypeOK, Named
  <2>3. CommandTypeOK'
    BY <1>1, <2>1, <2>2 DEF Inv, CommandTypeOK, InFlight
  <2>4. call'[a] = "asked" /\ asked'[a] \in Pod
        /\ \A b \in Call : b # a => call'[b] = call[b] /\ asked'[b] = asked[b]
    BY <1>1, <2>1, <2>2 DEF Inv, CommandTypeOK
  <2>5. Placed'
    BY <2>1, <2>4 DEF Inv, Placed, Waiting, connVars
  <2>6. Wired'
    BY <1>1, <2>1, <2>4 DEF Inv, Wired, WasSent, Retryable, connVars
  <2>7. SendingOf(c)'
    <3>1. cPc'[c] = "waits" /\ outcome'[c] = None /\ cState'[c] \in {"none", "PENDING"}
      BY <2>1 DEF Inv, CommandTypeOK, Sending, SendingOf, Lookup
    <3>2. tries'[c] = 1 => call'[<<c, 2>>] = "none"
      <4>1. tries' = tries /\ SendingOf(c) /\ (tries[c] = 1 => a = <<c, 1>>) /\ <<c, 2>> \in Call
        BY <2>1, CallsOf DEF Inv, Sending
      <4>2. tries[c] = 1 => call'[<<c, 2>>] = call[<<c, 2>>]
        BY <2>4, <4>1
      <4> QED  BY <4>1, <4>2 DEF SendingOf
    <3> QED  BY <3>1, <3>2 DEF SendingOf
  <2>8. Sending'
    <3>1. \A d \in Command : d # c => cPc'[d] = cPc[d]
      BY <2>1 DEF Inv, CommandTypeOK
    <3> QED  BY <2>1, <2>4, <2>7, <3>1, OthersSend DEF Sending
  <2>9. Repeating'
    <3> SUFFICES ASSUME NEW d \in Command, ~ MayAbort, tries[d] = 2
                 PROVE  RepeatingOf(d)'
      BY <2>1 DEF Repeating, RepeatingOf
    <3>1. a # <<d, 1>> /\ <<d, 1>> \in Call /\ <<d, 2>> \in Call /\ RepeatingOf(d)
      BY CallsOf DEF Inv, Repeating, Now
    <3> QED  BY <1>1, <2>1, <2>4, <3>1 DEF RepeatingOf, Waiting
  <2>10. Counted'
    BY <1>1, <2>1, <2>4, CountStays DEF Waiting
  <2> QED  BY <1>1, <2>3, <2>5, <2>6, <2>8, <2>9, <2>10 DEF Inv
<1>3. CASE ~ (entry # None /\ pod[host[entry]] # "down")
  <2>1. PICK o \in Retryable :
          /\ outcome' = [outcome EXCEPT ![c] = o] /\ cPc' = [cPc EXCEPT ![c] = "has"]
          /\ UNCHANGED <<connVars, cState, tries, callVars>>
    BY <1>3 DEF Lookup, Retryable, callVars
  <2>2. o \in Outcomes /\ o # None /\ o \notin {"Accepted", "Rejected"} \cup WasSent
    BY OutcomesAre DEF Retryable, WasSent
  <2>3. Placed' /\ Wired' /\ Counted'
    BY <2>1, CallsStay
  <2>4. CommandTypeOK'
    BY <2>1, <2>2 DEF Inv, CommandTypeOK, callVars
  <2>5. SendingOf(c)'
    BY <1>1, <2>1, <2>2 DEF Inv, CommandTypeOK, Sending, SendingOf, Now, Lookup, callVars
  <2>6. \E s, q, p : /\ cState' = [cState EXCEPT ![c] = s]
                     /\ cPc' = [cPc EXCEPT ![c] = q]
                     /\ outcome' = [outcome EXCEPT ![c] = p]
    BY <2>1 DEF Inv, CommandTypeOK
  <2>7. Sending' /\ Repeating'
    BY <2>1, <2>5, <2>6, OwnPlace
  <2> QED  BY <1>1, <2>3, <2>4, <2>7 DEF Inv
<1> QED  BY <1>2, <1>3

LEMMA ServiceKeeps ==
  ASSUME Inv, NEW c \in Command, ServiceStep(c)
  PROVE  Inv'
PROOF
<1>1. CASE Response(c)
  <2> DEFINE o == call[Now(c)]
  <2>1. o \in Outcomes /\ Gets(c, o)
    BY <1>1 DEF Response
  <2>2. o = call[Now(c)]
    OBVIOUS
  <2> HIDE DEF o
  <2> QED  BY <2>1, <2>2, GetsKeeps
<1>2. CASE Abort(c)
  <2>1. "UNAVAILABLE" \in Outcomes
    BY OutcomesAre
  <2> QED  BY <1>2, <2>1, GetsKeeps DEF Abort
<1> QED  BY <1>1, <1>2, SendKeeps, LookupKeeps, RepeatKeeps, FinishKeeps, SenderDiesKeeps DEF ServiceStep

-----------------------------------------------------------------------------
LEMMA Initially ==
  ASSUME Init
  PROVE  Inv
PROOF
<1>1. ConnInv /\ Named
  BY ConnInitial DEF Init, ConnInit, Named
<1>2. CommandTypeOK /\ Placed /\ Wired
  BY CommandsAssumption, OutcomesAre DEF Init, CommandTypeOK, Attempt, Placed, Wired, InFlight, Waiting, Retryable, WasSent
<1>3. Sending /\ Repeating
  BY DEF Init, Sending, SendingOf, Repeating, RepeatingOf, Now, Call, Attempt
<1>4. Counted
  <2>1. \A k \in Socket : WaitingOn(k) = {}
    BY DEF Init, WaitingOn, Waiting
  <2> QED  BY <2>1, FS_EmptySet, CommandsAssumption DEF Init, Counted
<1> QED  BY <1>1, <1>2, <1>3, <1>4 DEF Inv

LEMMA Stutters ==
  ASSUME Inv, UNCHANGED vars
  PROVE  Inv'
PROOF
<1>1. ConnInv' /\ Named' /\ Placed' /\ Wired' /\ Counted'
  BY CallsStay DEF vars
<1>2. CommandTypeOK' /\ Sending' /\ Repeating'
  BY DEF Inv, CommandTypeOK, Sending, SendingOf, Now, Repeating, RepeatingOf, vars, commandVars, callVars
<1> QED  BY <1>1, <1>2 DEF Inv

(* The inductive invariant, from every step of Next.                       *)
THEOREM GatewayInvariant == Spec => []Inv
PROOF
<1>1. Init => Inv
  BY Initially
<1>2. Inv /\ [Next]_vars => Inv'
  BY ConnectionMoves, PodDies, ServiceKeeps, CallKeeps, Stutters DEF Next
<1> QED  BY <1>1, <1>2, PTL DEF Spec

-----------------------------------------------------------------------------
(* Every variable of the gateway and of the commands stays in its type.    *)
THEOREM GatewayTypes == Spec => []TypeOK
PROOF
<1>1. Inv => TypeOK
  BY DEF Inv, ConnInv, CommandTypeOK, TypeOK
<1> QED  BY <1>1, GatewayInvariant, PTL

(* However many pods, sockets and lost statements there are, the row says  *)
(* connected until the close of the connection whose generation it has.    *)
THEOREM RowIsFenced == Spec => []ConnectedIsFenced
PROOF
<1>1. Inv => ConnectedIsFenced
  BY DEF Inv, ConnInv
<1> QED  BY <1>1, GatewayInvariant, PTL

(* An entry is only kept alive for a connection its pod answers for.       *)
THEOREM RefreshesAreAlive == Spec => []RefreshIsAlive
PROOF
<1>1. Inv => RefreshIsAlive
  BY DEF Inv, ConnInv
<1> QED  BY <1>1, GatewayInvariant, PTL

(* No generation is given to two connections.                              *)
THEOREM GenerationsAreDifferent == Spec => []GenerationsDiffer
PROOF
<1>1. Inv => GenerationsDiffer
  BY DEF Inv, ConnInv, Generations
<1> QED  BY <1>1, GatewayInvariant, PTL

(* The counter of a connection is the number of calls that wait on it.     *)
THEOREM QueuesAreCounted == Spec => []QueueIsCounted
PROOF
<1>1. Inv => QueueIsCounted
  BY DEF Inv, Counted, WaitingOn, Waiting, QueueIsCounted
<1> QED  BY <1>1, GatewayInvariant, PTL

(* What the row of a command says of the charger is so.                    *)
THEOREM VerdictsAreReal == Spec => []VerdictIsReal
PROOF
<1>1. Inv => VerdictIsReal
  <2> SUFFICES ASSUME Inv, NEW c \in Command, cState[c] \in {"ACCEPTED", "REJECTED", "ERROR", "TIMEOUT"}
               PROVE  /\ Now(c) \in onWire
                      /\ cState[c] = "ACCEPTED" => call[Now(c)] = "Accepted"
    BY DEF VerdictIsReal
  <2>1. SendingOf(c) /\ Now(c) \in Call
    BY CallsOf DEF Inv, Sending
  <2>2. cPc[c] = "done" /\ cState[c] = FinalState(outcome[c]) /\ outcome[c] \in Outcomes
    BY <2>1 DEF SendingOf, Inv, CommandTypeOK
  <2>3. CASE outcome[c] \in {"Accepted", "Rejected", "TIMEOUT", "CALL_ERROR"}
    <3>1. call[Now(c)] = outcome[c]
      BY <2>1, <2>2, <2>3 DEF SendingOf, WasSent
    <3>2. Now(c) \in onWire
      BY <2>1, <2>3, <3>1 DEF Inv, Wired, WasSent
    <3>3. cState[c] = "ACCEPTED" => outcome[c] = "Accepted"
      BY <2>2, <2>3 DEF FinalState, WasSent
    <3> QED  BY <3>1, <3>2, <3>3
  <2>4. CASE outcome[c] \in {"UNAVAILABLE", "NOT_CONNECTED", "QUEUE_FULL"}
    <3>1. FinalState(outcome[c]) = "CANCELLED"
      BY <2>4 DEF FinalState, WasSent
    <3> QED  BY <2>2, <3>1
  <2> QED  BY <2>2, <2>3, <2>4, OutcomesAre
<1> QED  BY <1>1, GatewayInvariant, PTL

(* Unless the client gave up on a request, a command that went out twice   *)
(* went over two connections, whatever its sender, the pods and the        *)
(* charger did meanwhile.                                                  *)
THEOREM RepeatsChangeConnection == Spec => []RepeatChangesConnection
PROOF
<1>1. Inv => RepeatChangesConnection
  <2> SUFFICES ASSUME Inv, NEW c \in Command, ~ MayAbort, <<c, 1>> \in onWire, <<c, 2>> \in onWire
               PROVE  via[<<c, 1>>] # via[<<c, 2>>]
    BY DEF RepeatChangesConnection
  <2>1. <<c, 2>> \in Call /\ call[<<c, 2>>] # "none"
    BY CallsOf DEF Inv, Wired
  <2>2. tries[c] = 2
    BY <2>1 DEF Inv, CommandTypeOK, Attempt, Sending, SendingOf
  <2> QED  BY <2>2 DEF Inv, Repeating, RepeatingOf
<1> QED  BY <1>1, GatewayInvariant, PTL

================================================================================
