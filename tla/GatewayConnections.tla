------------------------- MODULE GatewayConnections -------------------------
(***************************************************************************)
(* The connections of one charge point to the pods of the OCPP gateway     *)
(* (apps/ocpp-gateway): the registry of each pod, the row of the charge    *)
(* point with its generation, the shared directory and the evictions.      *)
(*                                                                         *)
(* A socket is a number, in the order in which the pods accepted them.     *)
(* openInPersistence and closeInPersistence are split at every await: what *)
(* happens between two of their steps may be anything.                     *)
(***************************************************************************)
EXTENDS Naturals, FiniteSets

CONSTANTS
  Pod,         \* the gateway pods
  MaxSocket,   \* how many times the charger may connect
  MaxFaults,   \* how many statements or Redis commands may fail, messages be
               \* lost and processes die in a behaviour
  None

ASSUME ConnectionsAssumption ==
  /\ MaxSocket \in Nat /\ MaxFaults \in Nat
  /\ None \notin Pod /\ None \notin Nat

Socket == 1 .. MaxSocket

VARIABLES
  pod,         \* [Pod -> {"up", "draining", "down"}]
  current,     \* [Pod -> Socket or None]: ConnectionRegistry of the pod
  host,        \* [Socket -> Pod or None]: the pod that accepted the socket
  sock,        \* [Socket -> {"new", "open", "closed"}] as its pod knows it
  opening,     \* [Socket -> where openInPersistence is]
  closing,     \* [Socket -> where closeInPersistence is]
  gen,         \* [Socket -> Nat]: LiveConnection.generation
  prevPod,     \* [Socket -> Pod or None]: the pod the directory named before
  timer,       \* [Socket -> BOOLEAN]: is its refresh timer running?
  rowGen,      \* charge_point.connection_generation
  connected,   \* charge_point.connected
  holder,      \* the socket whose UPDATE gave rowGen
  entry,       \* the socket that wrote the directory's entry, or None
  evicting,    \* the sockets whose eviction message is on its way to prevPod
  faults       \* how much has gone wrong so far

rowVars == <<rowGen, connected, holder>>
podVars == <<pod, current>>
connVars == <<podVars, host, sock, opening, closing, gen, prevPod, timer, rowVars, entry, evicting, faults>>

Accepted == {k \in Socket : host[k] # None}

ConnInit ==
  /\ pod = [p \in Pod |-> "up"]
  /\ current = [p \in Pod |-> None]
  /\ host = [k \in Socket |-> None]
  /\ sock = [k \in Socket |-> "new"]
  /\ opening = [k \in Socket |-> "no"]
  /\ closing = [k \in Socket |-> "no"]
  /\ gen = [k \in Socket |-> 0]
  /\ prevPod = [k \in Socket |-> None]
  /\ timer = [k \in Socket |-> FALSE]
  /\ rowGen = 0 /\ connected = FALSE /\ holder = None
  /\ entry = None
  /\ evicting = {}
  /\ faults = 0

Fault == faults < MaxFaults /\ faults' = faults + 1

-----------------------------------------------------------------------------
(* onClient: the pod accepts a socket, while it may not have noticed that  *)
(* the charger has left an earlier one.  A predecessor on the same pod is  *)
(* closed; its close event will find another client in the registry.       *)
Connect(k, p) ==
  LET left == {current[p]} \ {None} IN
  /\ host[k] = None
  /\ \A j \in Socket : j < k => host[j] # None
  /\ pod[p] = "up"
  /\ host' = [host EXCEPT ![k] = p]
  /\ opening' = [opening EXCEPT ![k] = "row"]
  /\ current' = [current EXCEPT ![p] = k]
  /\ sock' = [j \in Socket |-> IF j = k THEN "open" ELSE IF j \in left THEN "closed" ELSE sock[j]]
  /\ timer' = [j \in Socket |-> timer[j] /\ j \notin left]
  /\ closing' = [j \in Socket |-> IF j \in left THEN "replaced" ELSE closing[j]]
  /\ UNCHANGED <<pod, gen, prevPod, rowVars, entry, evicting, faults>>

(* connectionOpened: the UPDATE numbers the connection.                    *)
OpenRow(k) ==
  /\ opening[k] = "row"
  /\ rowGen' = rowGen + 1 /\ connected' = TRUE /\ holder' = k
  /\ gen' = [gen EXCEPT ![k] = rowGen + 1]
  /\ opening' = [opening EXCEPT ![k] = "get"]
  /\ UNCHANGED <<podVars, host, sock, closing, prevPod, timer, entry, evicting, faults>>

(* It throws, before or after the UPDATE: the connection keeps number 0.   *)
OpenRowFails(k) ==
  /\ Fault
  /\ opening[k] = "row"
  /\ opening' = [opening EXCEPT ![k] = "get"]
  /\ \/ rowGen' = rowGen + 1 /\ connected' = TRUE /\ holder' = k
     \/ UNCHANGED rowVars
  /\ UNCHANGED <<podVars, host, sock, closing, gen, prevPod, timer, entry, evicting>>

(* directory.register reads the entry ...                                  *)
ReadEntry(k) ==
  /\ opening[k] = "get"
  /\ prevPod' = [prevPod EXCEPT
       ![k] = IF entry # None /\ host[entry] # host[k] THEN host[entry] ELSE None]
  /\ opening' = [opening EXCEPT ![k] = "set"]
  /\ UNCHANGED <<podVars, host, sock, closing, gen, timer, rowVars, entry, evicting, faults>>

(* Mutant: the refresh starts whatever became of the connection.           *)
StartsTimerAlways(k) == TRUE

(* The refresh of the entry starts if the connection is still the one of   *)
(* its pod.                                                                *)
StartsTimer(k) == current[host[k]] = k

(* ... writes its own, and publishes the eviction of another pod.          *)
WriteEntry(k) ==
  /\ opening[k] = "set"
  /\ entry' = k
  /\ opening' = [opening EXCEPT ![k] = IF prevPod[k] = None THEN "done" ELSE "evict"]
  /\ timer' = [timer EXCEPT ![k] = prevPod[k] = None /\ StartsTimer(k)]
  /\ UNCHANGED <<podVars, host, sock, closing, gen, prevPod, rowVars, evicting, faults>>

PublishEviction(k) ==
  /\ opening[k] = "evict"
  /\ evicting' = evicting \cup {k}
  /\ opening' = [opening EXCEPT ![k] = "done"]
  /\ timer' = [timer EXCEPT ![k] = StartsTimer(k)]
  /\ UNCHANGED <<podVars, host, sock, closing, gen, prevPod, rowVars, entry, faults>>

(* A Redis command fails: no entry, or one that nobody refreshes.          *)
DirectoryFails(k) ==
  /\ Fault
  /\ opening[k] \in {"get", "set", "evict"}
  /\ opening' = [opening EXCEPT ![k] = "done"]
  /\ UNCHANGED <<podVars, host, sock, closing, gen, prevPod, timer, rowVars, entry, evicting>>

-----------------------------------------------------------------------------
(* The close event of the connection its pod has: the charger or the       *)
(* network went, the ping timed out, an operator or a drain closed it.     *)
Closes(k) ==
  /\ sock' = [sock EXCEPT ![k] = "closed"]
  /\ current' = [current EXCEPT ![host[k]] = None]
  /\ timer' = [timer EXCEPT ![k] = FALSE]
  /\ closing' = [closing EXCEPT ![k] = "closed"]

Closed(k) ==
  /\ sock[k] = "open" /\ current[host[k]] = k
  /\ Closes(k)
  /\ UNCHANGED <<pod, host, opening, gen, prevPod, rowVars, entry, evicting, faults>>

(* Mutant: the row is written whatever its generation.                     *)
IsFencedNot(k) == TRUE

(* The row is only written by the connection of its generation.            *)
IsFenced(k) == gen[k] = rowGen

(* Mutant: the close does not wait for the opening.                        *)
MayRecordEarly(k) == closing[k] \in {"replaced", "closed"}

(* closeInPersistence awaits connection.opened.                            *)
MayRecord(k) == closing[k] \in {"replaced", "closed"} /\ opening[k] = "done"

AfterRow(k) == IF closing[k] = "closed" THEN "unregister" ELSE "done"

CloseRow(k) ==
  /\ MayRecord(k)
  /\ connected' = (connected /\ ~IsFenced(k))
  /\ closing' = [closing EXCEPT ![k] = AfterRow(k)]
  /\ UNCHANGED <<podVars, host, sock, opening, gen, prevPod, timer, rowGen, holder, entry, evicting, faults>>

(* The error is logged, and that is all.                                   *)
CloseRowFails(k) ==
  /\ Fault
  /\ MayRecord(k)
  /\ closing' = [closing EXCEPT ![k] = IF @ = "closed" THEN "unrecorded" ELSE "lost"]
  /\ UNCHANGED <<podVars, host, sock, opening, gen, prevPod, timer, rowVars, entry, evicting>>

UnregisterEnds(k) ==
  /\ closing[k] \in {"unregister", "unrecorded"}
  /\ closing' = [closing EXCEPT ![k] = IF @ = "unregister" THEN "done" ELSE "lost"]

(* directory.unregister: compare-and-delete, by the pod.                   *)
Unregister(k) ==
  /\ UnregisterEnds(k)
  /\ entry' = IF entry # None /\ host[entry] = host[k] THEN None ELSE entry
  /\ UNCHANGED <<podVars, host, sock, opening, gen, prevPod, timer, rowVars, evicting, faults>>

UnregisterFails(k) ==
  /\ Fault
  /\ UnregisterEnds(k)
  /\ UNCHANGED <<podVars, host, sock, opening, gen, prevPod, timer, rowVars, entry, evicting>>

-----------------------------------------------------------------------------
(* An eviction closes whatever connection its pod has for the charger;     *)
(* Redis forgets a message nobody is there to hear.                        *)
Evict(k) ==
  /\ k \in evicting
  /\ evicting' = evicting \ {k}
  /\ prevPod' = [prevPod EXCEPT ![k] = None]
  /\ current[prevPod[k]] # None
  /\ Closes(current[prevPod[k]])
  /\ UNCHANGED <<pod, host, opening, gen, rowVars, entry, faults>>

EvictionIsLost(k) ==
  /\ k \in evicting
  /\ Fault \/ (current[prevPod[k]] = None /\ UNCHANGED faults)
  /\ evicting' = evicting \ {k}
  /\ prevPod' = [prevPod EXCEPT ![k] = None]
  /\ UNCHANGED <<podVars, host, sock, opening, closing, gen, timer, rowVars, entry>>

(* Mutant: the entry has no time to live.                                  *)
StaleNever == FALSE

(* Nobody on the entry's pod refreshes it (refresh compares the pod).      *)
Stale == entry # None /\ \A j \in Socket : timer[j] => host[j] # host[entry]

Expire ==
  /\ Stale
  /\ entry' = None
  /\ UNCHANGED <<podVars, host, sock, opening, closing, gen, prevPod, timer, rowVars, evicting, faults>>

-----------------------------------------------------------------------------
(* stop(): no handshake is accepted any more and the refreshes stop; the   *)
(* sockets close one after another (Closed).                               *)
Drain(p) ==
  /\ pod[p] = "up"
  /\ pod' = [pod EXCEPT ![p] = "draining"]
  /\ timer' = [j \in Socket |-> timer[j] /\ current[p] # j]
  /\ UNCHANGED <<current, host, sock, opening, closing, gen, prevPod, rowVars, entry, evicting, faults>>

(* The process ends, drained or not: what its closes had still to write is *)
(* not written.                                                            *)
Die(p) ==
  LET ours == {k \in Socket : host[k] = p} IN
  /\ Fault
  /\ pod[p] # "down"
  /\ pod' = [pod EXCEPT ![p] = "down"]
  /\ current' = [current EXCEPT ![p] = None]
  /\ sock' = [k \in Socket |-> IF k \in ours THEN "closed" ELSE sock[k]]
  /\ opening' = [k \in Socket |-> IF k \in ours THEN "done" ELSE opening[k]]
  /\ closing' = [k \in Socket |->
       IF k \notin ours THEN closing[k]
       ELSE IF closing[k] \in {"unregister", "done"} THEN "done" ELSE "lost"]
  /\ timer' = [k \in Socket |-> timer[k] /\ k \notin ours]
  /\ UNCHANGED <<host, gen, prevPod, rowVars, entry, evicting>>

Restart(p) ==
  /\ pod[p] = "down"
  /\ pod' = [pod EXCEPT ![p] = "up"]
  /\ UNCHANGED <<current, host, sock, opening, closing, gen, prevPod, timer, rowVars, entry, evicting, faults>>

-----------------------------------------------------------------------------
OpenStep(k) == OpenRow(k) \/ ReadEntry(k) \/ WriteEntry(k) \/ PublishEviction(k)
CloseStep(k) == CloseRow(k) \/ Unregister(k)
FailStep(k) == OpenRowFails(k) \/ DirectoryFails(k) \/ CloseRowFails(k) \/ UnregisterFails(k)
EvictionStep(k) == Evict(k) \/ EvictionIsLost(k)

ConnStep ==
  \/ \E k \in Socket :
       \/ \E p \in Pod : Connect(k, p)
       \/ OpenStep(k) \/ Closed(k) \/ CloseStep(k) \/ FailStep(k) \/ EvictionStep(k)
  \/ Expire
  \/ \E p \in Pod : Drain(p) \/ Restart(p)

ConnNext == ConnStep \/ \E p \in Pod : Die(p)

ConnSpec == ConnInit /\ [][ConnNext]_connVars

-----------------------------------------------------------------------------
ConnTypeOK ==
  /\ pod \in [Pod -> {"up", "draining", "down"}]
  /\ current \in [Pod -> Socket \cup {None}]
  /\ host \in [Socket -> Pod \cup {None}]
  /\ sock \in [Socket -> {"new", "open", "closed"}]
  /\ opening \in [Socket -> {"no", "row", "get", "set", "evict", "done"}]
  /\ closing \in [Socket -> {"no", "replaced", "closed", "unregister", "unrecorded", "done", "lost"}]
  /\ gen \in [Socket -> Nat]
  /\ prevPod \in [Socket -> Pod \cup {None}]
  /\ timer \in [Socket -> BOOLEAN]
  /\ rowGen \in Nat /\ connected \in BOOLEAN
  /\ holder \in Socket \cup {None}
  /\ entry \in Socket \cup {None}
  /\ evicting \subseteq Socket
  /\ faults \in Nat

(* Fencing (DAT 5.11): the row says connected from the moment the latest   *)
(* generation is given until the close of that very connection is          *)
(* recorded, however late its predecessors' closes are, whichever pods     *)
(* they are on, and nobody's close but its own takes the mark away.        *)
ConnectedIsFenced ==
  holder # None /\ gen[holder] = rowGen =>
    connected = (closing[holder] \notin {"unregister", "done"})

(* The refresh that keeps an entry alive belongs to an open connection     *)
(* that its pod answers for: an entry nobody answers for runs out.         *)
RefreshIsAlive ==
  \A k \in Socket : timer[k] =>
    sock[k] = "open" /\ opening[k] = "done" /\ current[host[k]] = k

(* Of two connections, the same generation is never given to both.         *)
GenerationsDiffer ==
  \A j, k \in Socket : j # k /\ gen[j] = gen[k] => gen[j] = 0

(* ADR 0013 point 2: closing a connection deletes its own directory entry, *)
(* so that a charger whose last connection is open can be found.           *)
LastIsFound ==
  \A k \in Accepted :
    /\ \A j \in Socket : j > k => host[j] = None
    /\ timer[k] /\ evicting = {}
    => entry # None

(* An entry that names a pod without the connection does not stay.         *)
StaleEntryExpires ==
  \A p \in Pod :
    entry # None /\ host[entry] = p /\ current[p] = None
      ~> ~(entry # None /\ host[entry] = p) \/ current[p] # None

(* Unless a pod dies or the database fails, a charger that is gone is      *)
(* shown as disconnected in the end.                                       *)
DisconnectIsRecorded ==
  (\A k \in Socket : sock[k] # "open") ~> (~connected \/ \E k \in Socket : sock[k] = "open")

=============================================================================
