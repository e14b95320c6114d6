---------------------------- MODULE Tariffs_proofs ----------------------------
(***************************************************************************)
(* The catalog of tariffs, for any number of tariffs, versions, calls and  *)
(* instants: a tariff has one price at a time, what is published is fixed, *)
(* and publishing takes no price away.  And of its use, for any number of  *)
(* assignments and sessions: who starts pays what he saw.                  *)
(***************************************************************************)
EXTENDS Tariffs, TLAPS

(* A call knows its version and began before now.  One that found the      *)
(* published versions holds its draft alone.                               *)
Calls ==
  /\ \A c \in Call : call[c].at \in {"called", "found"} => call[c].version \in Version /\ call[c].now <= clock
  /\ \A c \in Retirement : call[c].at # "found"

Drafting ==
  \A c \in Publisher : call[c].at = "found" =>
    /\ version[call[c].version].status = "DRAFT"
    /\ others[c] \subseteq Siblings(call[c].version)
    /\ \A d \in Publisher : d # c /\ call[d].at = "found" => call[d].version # call[c].version

Inv == CatalogTypeOK /\ Calls /\ Drafting /\ OneInForce

LEMMA InitInv == ASSUME CatalogAssumption, Init PROVE Inv
<1>1. CatalogTypeOK
  BY DEF CatalogAssumption, Init, CatalogInit, CatalogTypeOK, Row, InForceAlready, Absent, NotCalled, Call
<1>2. Calls /\ Drafting
  BY DEF Init, CatalogInit, Calls, Drafting, NotCalled, Call
<1>3. OneInForce
  BY DEF CatalogAssumption, Init, CatalogInit, OneInForce, Siblings, Published, Absent, InForceAlready
<1>. QED BY <1>1, <1>2, <1>3 DEF Inv

-----------------------------------------------------------------------------
(* Validities that only become shorter do not overlap.                     *)
LEMMA ShorterAlone ==
  ASSUME CatalogTypeOK, CatalogTypeOK', OneInForce,
         \A v \in Version : Published(version'[v]) =>
           /\ Published(version[v]) /\ version'[v].from = version[v].from
           /\ version'[v].to <= version[v].to
  PROVE  OneInForce'
<1> SUFFICES ASSUME NEW v \in Version, NEW w \in Siblings(v),
                    Published(version'[v]), Published(version'[w])
             PROVE  ~Overlap(version'[v], version'[w])
  BY DEF OneInForce, Siblings
<1>1. w \in Version
  BY DEF Siblings
<1>2. ~Overlap(version[v], version[w])
  BY <1>1 DEF OneInForce
<1>3. /\ version[v] \in Row /\ version[w] \in Row
      /\ version'[v] \in Row /\ version'[w] \in Row
  BY <1>1 DEF CatalogTypeOK
<1>. QED BY <1>1, <1>2, <1>3 DEF Overlap, Row

(* The calls other than the one that moves keep what they know when no     *)
(* draft of theirs moves.                                                  *)
LEMMA CallsKeep ==
  ASSUME Calls, Drafting, clock' >= clock, CatalogTypeOK, clock' \in Nat,
         NEW c \in Call,
         \A d \in Call \ {c} : call'[d] = call[d],
         call'[c].at \in {"idle", "done"}
           \/ (call'[c].at = "called" /\ call'[c].version \in Version /\ call'[c].now <= clock'),
         \A d \in Publisher \ {c} : others'[d] = others[d],
         \A v \in Version : version[v].status = "DRAFT" =>
           version'[v].status = "DRAFT" \/ (c \in Publisher /\ call[c].at = "found" /\ v = call[c].version)
  PROVE  Calls' /\ Drafting'
<1>1. Calls'
  <2>1. ASSUME NEW d \in Call, call'[d].at \in {"called", "found"}
        PROVE  call'[d].version \in Version /\ call'[d].now <= clock'
    <3>1. CASE d = c
      BY <2>1, <3>1
    <3>2. CASE d # c
      <4>1. call'[d] = call[d] /\ call[d].now \in Nat
        BY <3>2 DEF CatalogTypeOK
      <4>. QED BY <2>1, <4>1 DEF Calls, CatalogTypeOK
    <3>. QED BY <3>1, <3>2
  <2>2. ASSUME NEW d \in Retirement PROVE call'[d].at # "found"
    BY DEF Calls, Call
  <2>. QED BY <2>1, <2>2 DEF Calls
<1>2. Drafting'
  <2> SUFFICES ASSUME NEW d \in Publisher, call'[d].at = "found"
               PROVE  /\ version'[call'[d].version].status = "DRAFT"
                      /\ others'[d] \subseteq Siblings(call'[d].version)
                      /\ \A e \in Publisher : e # d /\ call'[e].at = "found" => call'[e].version # call'[d].version
    BY DEF Drafting, Siblings
  <2>1. d # c /\ d \in Call /\ call'[d] = call[d] /\ others'[d] = others[d]
    BY DEF Call
  <2>2. call[d].version \in Version
    BY <2>1 DEF Calls
  <2>3. version[call[d].version].status = "DRAFT" /\ others[d] \subseteq Siblings(call[d].version)
    BY <2>1 DEF Drafting
  <2>4. version'[call[d].version].status = "DRAFT"
    BY <2>1, <2>2, <2>3 DEF Drafting
  <2>5. ASSUME NEW e \in Publisher, e # d, call'[e].at = "found"
        PROVE  call'[e].version # call'[d].version
    BY <2>1, <2>5 DEF Drafting, Call
  <2>. QED BY <2>1, <2>3, <2>4, <2>5
<1>. QED BY <1>1, <1>2

-----------------------------------------------------------------------------
LEMMA CreateInv ==
  ASSUME CatalogAssumption, Inv, NEW v \in Version, CreateVersion(v), UNCHANGED clock
  PROVE  Inv'
<1>1. version' = [version EXCEPT ![v].status = "DRAFT"] /\ version[v].status = "ABSENT"
  BY DEF CreateVersion
<1>2. CatalogTypeOK'
  BY <1>1 DEF Inv, CatalogTypeOK, CreateVersion, Row
<1>3. \A w \in Version : Published(version'[w]) => version'[w] = version[w]
  BY <1>1 DEF Inv, CatalogTypeOK, Published, Row
<1>4. OneInForce'
  <2>1. \A w \in Version : version[w].to \in Nat
    BY DEF Inv, CatalogTypeOK, Row
  <2>. QED BY <1>2, <1>3, <2>1, ShorterAlone DEF Inv
<1>5. Calls'
  BY DEF Inv, Calls, CreateVersion
<1>6. Drafting'
  <2>1. \A w \in Version : version[w].status = "DRAFT" => version'[w].status = "DRAFT"
    BY <1>1 DEF Inv, CatalogTypeOK, Row
  <2>. QED BY <2>1 DEF Inv, Calls, Drafting, CreateVersion, Call, Siblings
<1>. QED BY <1>2, <1>4, <1>5, <1>6 DEF Inv

(* A call that begins, or returns without writing.                         *)
LEMMA SameVersions ==
  ASSUME Inv, UNCHANGED <<version, clock>>, CatalogTypeOK'
  PROVE  OneInForce'
BY DEF Inv, OneInForce, Siblings

LEMMA CallPublishInv ==
  ASSUME CatalogAssumption, Inv, NEW c \in Publisher, NEW v \in Version, NEW from \in Instant,
         NEW to \in Instant \cup {Never}, CallPublish(c, v, from, to), UNCHANGED clock
  PROVE  Inv'
<1>1. from \in Nat /\ to \in Nat
  BY DEF CatalogAssumption, Instant
<1>2. CatalogTypeOK'
  BY <1>1 DEF Inv, CatalogTypeOK, CallPublish
<1>3. call'[c] = [at |-> "called", version |-> v, from |-> from, to |-> to, now |-> clock]
  BY DEF Inv, CatalogTypeOK, CallPublish, Call
<1>4. Calls' /\ Drafting'
  <2>1. c \in Call /\ clock \in Nat
    BY DEF Call, Inv, CatalogTypeOK
  <2>2. \A d \in Call \ {c} : call'[d] = call[d]
    BY DEF Inv, CatalogTypeOK, CallPublish
  <2>. QED BY <1>3, <2>1, <2>2, CallsKeep DEF Inv, CallPublish
<1>. QED BY <1>2, <1>4, SameVersions DEF Inv, CallPublish

LEMMA CallRetireInv ==
  ASSUME CatalogAssumption, Inv, NEW c \in Retirement, NEW v \in Version, CallRetire(c, v), UNCHANGED clock
  PROVE  Inv'
<1>1. CatalogTypeOK'
  BY DEF Inv, CatalogTypeOK, CallRetire
<1>2. call'[c] = [at |-> "called", version |-> v, from |-> 0, to |-> 0, now |-> clock]
  BY DEF Inv, CatalogTypeOK, CallRetire, Call
<1>3. Calls' /\ Drafting'
  <2>1. c \in Call /\ clock \in Nat
    BY DEF Call, Inv, CatalogTypeOK
  <2>2. \A d \in Call \ {c} : call'[d] = call[d]
    BY DEF Inv, CatalogTypeOK, CallRetire
  <2>. QED BY <1>2, <2>1, <2>2, CallsKeep DEF Inv, CallRetire
<1>. QED BY <1>1, <1>3, SameVersions DEF Inv, CallRetire

LEMMA FindOthersInv ==
  ASSUME CatalogAssumption, Inv, NEW c \in Publisher, FindOthers(c), UNCHANGED clock
  PROVE  Inv'
<1>. DEFINE v == call[c].version
<1>0. c \in Call /\ clock \in Nat /\ clock >= clock /\ v \in Version /\ UNCHANGED version
  BY DEF Call, Inv, CatalogTypeOK, Calls, FindOthers
<1>1. CASE IsDraft(v)
  <2>1. /\ others' = [others EXCEPT ![c] = {w \in Siblings(v) : Published(version[w])}]
        /\ call' = [call EXCEPT ![c].at = "found"]
    BY <1>1 DEF FindOthers
  <2>2. CatalogTypeOK'
    BY <1>0, <2>1 DEF Inv, CatalogTypeOK, FindOthers, Siblings
  <2>3. Calls'
    BY <1>0, <2>1 DEF Inv, CatalogTypeOK, Calls, FindOthers, Call, CatalogAssumption
  <2>4. Drafting'
    <3>1. others'[c] \subseteq Siblings(v) /\ call'[c].version = v /\ call'[c].at = "found"
      BY <1>0, <2>1 DEF Inv, CatalogTypeOK
    <3>2. \A d \in Publisher \ {c} : call'[d] = call[d] /\ others'[d] = others[d]
      BY <2>1 DEF Inv, CatalogTypeOK
    <3>3. \A d \in Publisher : call[d].at = "found" => call[d].version # v
      BY DEF FindOthers, Locked
    <3>4. version'[v].status = "DRAFT"
      BY <1>0, <1>1 DEF IsDraft
    <3>. QED BY <1>0, <3>1, <3>2, <3>3, <3>4 DEF Inv, Drafting, Siblings
  <2>. QED BY <1>0, <2>2, <2>3, <2>4, SameVersions DEF Inv
<1>2. CASE ~IsDraft(v)
  <2>1. call' = [call EXCEPT ![c] = [NotCalled EXCEPT !.at = "done"]] /\ UNCHANGED others
    BY <1>2 DEF FindOthers, Returns
  <2>2. CatalogTypeOK'
    BY <1>0, <2>1 DEF Inv, CatalogTypeOK, FindOthers, NotCalled
  <2>3. call'[c].at = "done" /\ \A d \in Call \ {c} : call'[d] = call[d]
    BY <1>0, <2>1 DEF Inv, CatalogTypeOK, NotCalled
  <2>4. Calls' /\ Drafting'
    <3>1. \A d \in Publisher \ {c} : others'[d] = others[d]
      BY <2>1
    <3>2. \A w \in Version : version[w].status = "DRAFT" => version'[w].status = "DRAFT"
      BY <1>0
    <3>3. Calls /\ Drafting /\ CatalogTypeOK /\ clock' >= clock /\ clock' \in Nat
      BY <1>0 DEF Inv
    <3>. QED BY <1>0, <2>3, <3>1, <3>2, <3>3, CallsKeep
  <2>. QED BY <1>0, <2>2, <2>4, SameVersions DEF Inv
<1>. QED BY <1>1, <1>2

LEMMA WriteRetiredInv ==
  ASSUME CatalogAssumption, Inv, NEW c \in Retirement, WriteRetired(c), UNCHANGED clock
  PROVE  Inv'
<1>. DEFINE v == call[c].version
<1>0. /\ c \in Call /\ clock \in Nat /\ v \in Version /\ UNCHANGED others
      /\ call' = [call EXCEPT ![c] = [NotCalled EXCEPT !.at = "done"]]
  BY DEF Call, Inv, CatalogTypeOK, Calls, WriteRetired, Returns
<1>1. \/ version' = version
      \/ /\ Published(version[v]) /\ version[v].from < call[c].now
         /\ version' = [version EXCEPT ![v].status = "RETIRED", ![v].to = call[c].now]
  <2>1. CASE Published(version[v]) /\ version[v].from < call[c].now
    BY <2>1 DEF WriteRetired
  <2>2. CASE ~(Published(version[v]) /\ version[v].from < call[c].now)
    <3>1. UNCHANGED version
      BY <2>2 DEF WriteRetired
    <3>. QED BY <3>1
  <2>. QED BY <2>1, <2>2
<1>2. CatalogTypeOK'
  <2>1. call[c].now \in Nat /\ version[v] \in Row
    BY <1>0 DEF Inv, CatalogTypeOK
  <2>2. version' \in [Version -> Row]
    BY <1>0, <1>1, <2>1 DEF Inv, CatalogTypeOK, Row
  <2>. QED BY <1>0, <2>2 DEF Inv, CatalogTypeOK, WriteRetired, NotCalled
<1>3. call'[c].at = "done" /\ \A d \in Call \ {c} : call'[d] = call[d]
  BY <1>0 DEF Inv, CatalogTypeOK, NotCalled
<1>4. Calls' /\ Drafting'
  <2>1. \A w \in Version : version[w].status = "DRAFT" => version'[w].status = "DRAFT"
    BY <1>1 DEF Inv, CatalogTypeOK, Published
  <2>2. \A d \in Publisher \ {c} : others'[d] = others[d]
    BY <1>0
  <2>3. Calls /\ Drafting /\ CatalogTypeOK /\ clock' >= clock /\ clock' \in Nat
    BY <1>0 DEF Inv
  <2>. QED BY <1>0, <1>3, <2>1, <2>2, <2>3, CallsKeep
<1>5. OneInForce'
  <2>1. \A w \in Version : Published(version'[w]) => version'[w] = version[w]
    BY <1>1 DEF Inv, CatalogTypeOK, Published, Row
  <2>2. \A w \in Version : version[w].to \in Nat
    BY DEF Inv, CatalogTypeOK, Row
  <2>. QED BY <1>2, <2>1, <2>2, ShorterAlone DEF Inv
<1>. QED BY <1>2, <1>4, <1>5 DEF Inv

(* The draft is published when the versions in force have been shortened:  *)
(* it overlaps none of them, found or not.                                 *)
LEMMA EndedRows ==
  ASSUME CatalogAssumption, Inv, NEW c \in Publisher, call[c].at = "found", ~Refused(c), NEW w \in Version
  PROVE  /\ Ended(c)[w] \in Row
         /\ w = call[c].version => Ended(c)[w] = version[w]
         /\ version[w].status = "DRAFT" => Ended(c)[w] = version[w]
         /\ Published(Ended(c)[w]) =>
              Published(version[w]) /\ Ended(c)[w].from = version[w].from /\ Ended(c)[w].to <= version[w].to
<1>. DEFINE v == call[c].version
<1>1. /\ version[w] \in Row /\ call[c].from \in Nat /\ call[c].to \in Nat /\ c \in Call
      /\ Ended(c)[w] = IF w \in Overlapping(c) THEN EndedBy(version[w], call[c]) ELSE version[w]
  BY DEF Inv, CatalogTypeOK, Call, Ended
<1>2. CASE w \in Overlapping(c)
  <2>1. /\ w \in others[c] /\ Published(version[w]) /\ Overlap(version[w], call[c])
    BY <1>2 DEF Overlapping, StillPublished
  <2>2. w # v
    BY <2>1 DEF Inv, Drafting, Siblings
  <2>3. Ended(c)[w] = [version[w] EXCEPT !.to = call[c].from,
                         !.status = IF Retires(version[w], call[c]) THEN "RETIRED" ELSE version[w].status]
    BY <1>1, <1>2 DEF EndedBy
  <2>4. version[w].status # "DRAFT" /\ call[c].from <= version[w].to
    BY <1>1, <2>1 DEF Published, Overlap, Row
  <2>. QED BY <1>1, <2>1, <2>2, <2>3, <2>4 DEF Published, Row
<1>3. CASE w \notin Overlapping(c)
  BY <1>1, <1>3 DEF Row
<1>. QED BY <1>2, <1>3

LEMMA WritePublishedInv ==
  ASSUME CatalogAssumption, Inv, NEW c \in Publisher, WritePublished(c), UNCHANGED clock
  PROVE  Inv'
<1>. DEFINE v == call[c].version
            row == NewRow(call[c])
<1>0. /\ c \in Call /\ clock \in Nat /\ v \in Version /\ call[c].at = "found" /\ UNCHANGED sweep
      /\ call' = [call EXCEPT ![c] = [NotCalled EXCEPT !.at = "done"]]
      /\ others' = [others EXCEPT ![c] = {}]
  BY DEF Call, Inv, CatalogTypeOK, Calls, WritePublished, Returns
<1>1. call'[c].at = "done" /\ \A d \in Call \ {c} : call'[d] = call[d]
  BY <1>0 DEF Inv, CatalogTypeOK, NotCalled
<1>2. \A d \in Publisher \ {c} : others'[d] = others[d]
  BY <1>0 DEF Inv, CatalogTypeOK
<1>3. Calls /\ Drafting /\ CatalogTypeOK /\ clock' >= clock /\ clock' \in Nat
  BY <1>0 DEF Inv
<1>4. ASSUME version' \in [Version -> Row] PROVE CatalogTypeOK'
  BY <1>0, <1>4 DEF Inv, CatalogTypeOK, NotCalled
<1>5. CASE Refused(c)
  <2>1. version' = version
    BY <1>5 DEF WritePublished
  <2>2. CatalogTypeOK'
    BY <1>4, <2>1 DEF Inv, CatalogTypeOK
  <2>3. \A w \in Version : version[w].status = "DRAFT" => version'[w].status = "DRAFT"
    BY <2>1
  <2>4. Calls' /\ Drafting'
    BY <1>0, <1>1, <1>2, <1>3, <2>3, CallsKeep
  <2>. QED BY <2>1, <2>2, <2>4, SameVersions DEF Inv
<1>6. CASE ~Refused(c)
  <2>1. version' = [Ended(c) EXCEPT ![v] = row]
    BY <1>6 DEF WritePublished
  <2>2. /\ row \in Row /\ Published(row) /\ row.from = call[c].from /\ row.to = call[c].to
    BY <1>0 DEF Inv, CatalogTypeOK, NewRow, Row, Published
  <2>3. /\ version'[v] = row
        /\ \A w \in Version \ {v} : version'[w] = Ended(c)[w]
        /\ version' \in [Version -> Row]
    <3>1. DOMAIN Ended(c) = Version /\ \A w \in Version : Ended(c)[w] \in Row
      BY <1>0, <1>6, EndedRows DEF Ended
    <3>2. Ended(c) \in [Version -> Row]
      <4>1. Ended(c) = [w \in Version |-> Ended(c)[w]]
        BY DEF Ended
      <4>. QED BY <3>1, <4>1
    <3>. QED BY <1>0, <2>1, <2>2, <3>2
  <2>4. CatalogTypeOK'
    BY <1>4, <2>3
  <2>5. Calls' /\ Drafting'
    <3>1. \A w \in Version : version[w].status = "DRAFT" =>
            version'[w].status = "DRAFT" \/ (c \in Publisher /\ call[c].at = "found" /\ w = call[c].version)
      BY <1>0, <1>6, <2>3, EndedRows
    <3>. QED BY <1>0, <1>1, <1>2, <1>3, <3>1, CallsKeep
  <2>6. OneInForce'
    <3> SUFFICES ASSUME NEW x \in Version, NEW y \in Siblings(x), Published(version'[x]), Published(version'[y])
                 PROVE  ~Overlap(version'[x], version'[y])
      BY DEF OneInForce, Siblings
    <3>0. y \in Version /\ y # x /\ x \in Siblings(y)
      BY DEF Siblings
    <3>1. \A w \in Siblings(v) : Published(Ended(c)[w]) => ~Overlap(Ended(c)[w], row)
      BY <1>6 DEF Refused, Excluded
    <3>2. CASE x = v
      <4>1. y \in Siblings(v) /\ version'[y] = Ended(c)[y]
        BY <2>3, <3>0, <3>2 DEF Siblings
      <4>2. ~Overlap(version'[y], version'[v])
        BY <2>3, <3>1, <4>1
      <4>. QED BY <3>2, <4>2 DEF Overlap
    <3>3. CASE y = v
      <4>1. x \in Siblings(v) /\ version'[x] = Ended(c)[x]
        BY <2>3, <3>0, <3>3 DEF Siblings
      <4>. QED BY <2>3, <3>1, <3>3, <4>1
    <3>4. CASE x # v /\ y # v
      <4>1. version'[x] = Ended(c)[x] /\ version'[y] = Ended(c)[y]
        BY <2>3, <3>0, <3>4
      <4>2. /\ Published(version[x]) /\ version'[x].from = version[x].from /\ version'[x].to <= version[x].to
            /\ Published(version[y]) /\ version'[y].from = version[y].from /\ version'[y].to <= version[y].to
        BY <1>0, <1>6, <3>0, <4>1, EndedRows
      <4>3. ~Overlap(version[x], version[y])
        BY <3>0, <4>2 DEF Inv, OneInForce
      <4>4. /\ version[x] \in Row /\ version[y] \in Row
            /\ version'[x] \in Row /\ version'[y] \in Row
        BY <2>3, <3>0 DEF Inv, CatalogTypeOK
      <4>. QED BY <4>2, <4>3, <4>4 DEF Overlap, Row
    <3>. QED BY <3>2, <3>3, <3>4
  <2>. QED BY <2>4, <2>5, <2>6 DEF Inv
<1>. QED BY <1>5, <1>6

-----------------------------------------------------------------------------
LEMMA SweepInv == ASSUME CatalogAssumption, Inv, Sweep, UNCHANGED clock PROVE Inv'
<1>1. UNCHANGED <<call, others>>
  BY DEF Sweep, StartSweep, Activate, RetireEnded
<1>2. \A w \in Version :
        /\ version'[w] \in Row
        /\ version[w].status = "DRAFT" => version'[w].status = "DRAFT"
        /\ Published(version'[w]) => Published(version[w]) /\ version'[w].from = version[w].from
                                     /\ version'[w].to = version[w].to
  <2> TAKE w \in Version
  <2>1. version[w] \in Row
    BY DEF Inv, CatalogTypeOK
  <2>2. CASE StartSweep
    BY <2>1, <2>2 DEF StartSweep
  <2>3. CASE Activate
    <3>1. version'[w] = version[w]
          \/ (version[w].status = "SCHEDULED" /\ version'[w] = [version[w] EXCEPT !.status = "ACTIVE"])
      BY <2>3 DEF Activate
    <3>. QED BY <2>1, <3>1 DEF Row, Published
  <2>4. CASE RetireEnded
    <3>1. version'[w] = version[w]
          \/ (Published(version[w]) /\ version'[w] = [version[w] EXCEPT !.status = "RETIRED"])
      BY <2>4 DEF RetireEnded, IsOver
    <3>. QED BY <2>1, <3>1 DEF Row, Published
  <2>. QED BY <2>2, <2>3, <2>4 DEF Sweep
<1>3. version' \in [Version -> Row] /\ sweep' \in [next : {"start", "activate", "retire"}, now : Nat]
  <2>1. CASE StartSweep
    BY <2>1 DEF StartSweep, Inv, CatalogTypeOK
  <2>2. CASE Activate
    <3>1. sweep' \in [next : {"start", "activate", "retire"}, now : Nat]
      BY <2>2 DEF Activate, Inv, CatalogTypeOK
    <3>2. version' = [w \in Version |-> version'[w]]
      BY <2>2 DEF Activate
    <3>. QED BY <1>2, <3>1, <3>2
  <2>3. CASE RetireEnded
    <3>1. sweep' \in [next : {"start", "activate", "retire"}, now : Nat]
      BY <2>3 DEF RetireEnded
    <3>2. version' = [w \in Version |-> version'[w]]
      BY <2>3 DEF RetireEnded
    <3>. QED BY <1>2, <3>1, <3>2
  <2>. QED BY <2>1, <2>2, <2>3 DEF Sweep
<1>4. CatalogTypeOK'
  BY <1>1, <1>3 DEF Inv, CatalogTypeOK
<1>5. Calls' /\ Drafting'
  <2>1. Calls'
    BY <1>1 DEF Inv, Calls
  <2>2. \A d \in Publisher : call[d].at = "found" => call[d].version \in Version
    BY DEF Inv, Calls, Call
  <2>. QED BY <1>1, <1>2, <2>1, <2>2 DEF Inv, Drafting, Siblings
<1>6. OneInForce'
  <2>1. \A w \in Version : version[w].to \in Nat
    BY DEF Inv, CatalogTypeOK, Row
  <2>2. \A w \in Version : Published(version'[w]) =>
          Published(version[w]) /\ version'[w].from = version[w].from /\ version'[w].to <= version[w].to
    BY <1>2, <2>1
  <2>. QED BY <1>4, <2>2, ShorterAlone DEF Inv
<1>. QED BY <1>4, <1>5, <1>6 DEF Inv

LEMMA TickInv == ASSUME CatalogAssumption, Inv, Tick PROVE Inv'
<1>1. UNCHANGED <<version, call, others, sweep>> /\ clock' = clock + 1 /\ clock \in Nat
  BY DEF Tick, catalogVars, Inv, CatalogTypeOK
<1>2. CatalogTypeOK' /\ Drafting' /\ OneInForce'
  BY <1>1 DEF Inv, CatalogTypeOK, Drafting, OneInForce, Siblings
<1>3. Calls'
  <2> SUFFICES ASSUME NEW c \in Call PROVE call[c].at \in {"called", "found"} =>
                                              call[c].version \in Version /\ call[c].now <= clock + 1
    BY <1>1 DEF Inv, Calls
  <2>1. call[c].now \in Nat
    BY DEF Inv, CatalogTypeOK
  <2>. QED BY <1>1, <2>1 DEF Inv, Calls
<1>. QED BY <1>2, <1>3 DEF Inv

LEMMA InvStep == ASSUME CatalogAssumption, Inv, [Next]_vars PROVE Inv'
<1>1. CASE Tick
  BY <1>1, TickInv
<1>2. CASE CatalogStep /\ UNCHANGED clock
  BY <1>2, CreateInv, CallPublishInv, FindOthersInv, WritePublishedInv, CallRetireInv, WriteRetiredInv, SweepInv
     DEF CatalogStep
<1>3. CASE UNCHANGED <<clock, catalogVars>>
  BY <1>3 DEF catalogVars, Inv, CatalogTypeOK, Calls, Drafting, OneInForce, Siblings
<1>. QED BY <1>1, <1>2, <1>3 DEF Next, vars

-----------------------------------------------------------------------------
LEMMA Invariance == ASSUME CatalogAssumption PROVE Spec => []Inv
BY CatalogAssumption, InitInv, InvStep, PTL DEF Spec

(* The rows of the catalog, its calls and its job have their types.        *)
THEOREM CatalogTypes == ASSUME CatalogAssumption PROVE Spec => []CatalogTypeOK
<1>1. Inv => CatalogTypeOK
  BY DEF Inv
<1>. QED BY <1>1, Invariance, PTL

(* A tariff has one price at a time, whatever calls publish and retire at  *)
(* once and wherever the worker's job stands (publishTariffVersion).       *)
THEOREM OnePriceAtATime == ASSUME CatalogAssumption PROVE Spec => []OneInForce
<1>1. Inv => OneInForce
  BY DEF Inv
<1>. QED BY <1>1, Invariance, PTL

-----------------------------------------------------------------------------
LEMMA FixedStep ==
  ASSUME CatalogAssumption, Inv, [Next]_vars, NEW v \in Version
  PROVE  /\ version[v].status = "RETIRED" => version'[v] = version[v]
         /\ Published(version[v]) => version'[v].from = version[v].from
                                     /\ version'[v].status \notin {"ABSENT", "DRAFT"}
<1>0. version[v] \in Row
  BY DEF Inv, CatalogTypeOK
<1>1. CASE UNCHANGED version
  BY <1>1 DEF Published
<1>2. ASSUME NEW w \in Version, CreateVersion(w)
      PROVE  version[v].status # "ABSENT" => version'[v] = version[v]
  BY <1>2 DEF CreateVersion, Inv, CatalogTypeOK
<1>3. ASSUME NEW c \in Retirement, WriteRetired(c)
      PROVE  \/ version'[v] = version[v]
             \/ /\ Published(version[v])
                /\ version'[v].status = "RETIRED" /\ version'[v].from = version[v].from
  <2>1. CASE UNCHANGED version
    BY <2>1
  <2>2. CASE ~UNCHANGED version
    <3>1. /\ Published(version[call[c].version])
          /\ version' = [version EXCEPT ![call[c].version].status = "RETIRED", ![call[c].version].to = call[c].now]
      BY <1>3, <2>2 DEF WriteRetired
    <3>. QED BY <1>0, <3>1 DEF Inv, CatalogTypeOK, Row
  <2>. QED BY <2>1, <2>2
<1>4. ASSUME NEW c \in Publisher, WritePublished(c), version[v].status # "DRAFT"
      PROVE  \/ version'[v] = version[v]
             \/ Published(version[v]) /\ version'[v] = EndedBy(version[v], call[c])
  <2>1. v # call[c].version /\ call[c].version \in Version
    BY <1>4 DEF WritePublished, Inv, Drafting, Calls, Call
  <2>2. version' = version \/ version'[v] = Ended(c)[v]
    BY <1>4, <2>1 DEF WritePublished, Ended
  <2>3. Ended(c)[v] = IF v \in Overlapping(c) THEN EndedBy(version[v], call[c]) ELSE version[v]
    BY DEF Ended
  <2>. QED BY <2>2, <2>3 DEF Overlapping, StillPublished
<1>5. ASSUME Sweep
      PROVE  \/ version'[v] = version[v]
             \/ version[v].status = "SCHEDULED" /\ version'[v] = [version[v] EXCEPT !.status = "ACTIVE"]
             \/ Published(version[v]) /\ version'[v] = [version[v] EXCEPT !.status = "RETIRED"]
  BY <1>5 DEF Sweep, StartSweep, Activate, RetireEnded, IsOver
<1>6. CASE CatalogStep
  <2>1. ASSUME NEW w \in Version, CreateVersion(w) PROVE version[v].status # "ABSENT" => version'[v] = version[v]
    BY <1>2, <2>1
  <2>2. CASE \E w \in Version : CreateVersion(w)
    BY <1>0, <2>1, <2>2 DEF Published
  <2>3. CASE \E c \in Publisher : WritePublished(c)
    <3>1. CASE version[v].status = "DRAFT"
      BY <3>1 DEF Published
    <3>2. CASE version[v].status # "DRAFT"
      <4>1. PICK c \in Publisher : WritePublished(c)
        BY <2>3
      <4>2. version'[v] = version[v] \/ (Published(version[v]) /\ version'[v] = EndedBy(version[v], call[c]))
        BY <1>4, <3>2, <4>1
      <4>3. EndedBy(version[v], call[c]).from = version[v].from
        BY <1>0 DEF EndedBy, Row
      <4>4. EndedBy(version[v], call[c]).status \in {"RETIRED", version[v].status}
        BY <1>0 DEF EndedBy, Row
      <4>. QED BY <4>2, <4>3, <4>4 DEF Published
    <3>. QED BY <3>1, <3>2
  <2>4. CASE \E c \in Retirement : WriteRetired(c)
    <3>1. PICK c \in Retirement : WriteRetired(c)
      BY <2>4
    <3>2. \/ version'[v] = version[v]
          \/ /\ Published(version[v])
             /\ version'[v].status = "RETIRED" /\ version'[v].from = version[v].from
      BY <1>3, <3>1
    <3>. QED BY <3>2 DEF Published
  <2>5. CASE Sweep
    BY <1>0, <1>5, <2>5 DEF Published, Row
  <2>. QED BY <1>1, <1>6, <2>2, <2>3, <2>4, <2>5 DEF CatalogStep, CallPublish, FindOthers, CallRetire
<1>. QED BY <1>1, <1>6 DEF Next, Tick, catalogVars, vars

(* What a session was priced by can be looked up: a retired version stays  *)
(* as it is, and a published one never begins at another time.             *)
THEOREM PublishedVersionsAreFixed == ASSUME CatalogAssumption PROVE Spec => PublishedIsFixed
<1>1. Inv /\ [Next]_vars =>
        [\A v \in Version :
          /\ version[v].status = "RETIRED" => version'[v] = version[v]
          /\ Published(version[v]) => version'[v].from = version[v].from
                                      /\ version'[v].status \notin {"ABSENT", "DRAFT"}]_vars
  BY CatalogAssumption, FixedStep
<1>. QED BY <1>1, Invariance, PTL DEF Spec, PublishedIsFixed

-----------------------------------------------------------------------------
(* The step of a call that returns is its own.                             *)
LEMMA ReturnsByWriting ==
  ASSUME CatalogAssumption, Inv, [Next]_vars, NEW c \in Publisher, call[c].at = "found", call'[c].at = "done"
  PROVE  WritePublished(c) /\ UNCHANGED clock
<1>0. c \in Call /\ c \notin Retirement
  BY DEF Call, CatalogAssumption
<1>1. call' # call
  OBVIOUS
<1>2. CatalogStep /\ UNCHANGED clock
  BY <1>1 DEF Next, Tick, vars, catalogVars
<1>3. ~\E v \in Version : CreateVersion(v)
  BY <1>1 DEF CreateVersion
<1>4. ASSUME NEW d \in Call, d # c, NEW x, call' = [call EXCEPT ![d] = x] PROVE FALSE
  BY <1>0, <1>4 DEF Inv, CatalogTypeOK
<1>5. ASSUME NEW d \in Publisher, FindOthers(d) \/ WritePublished(d) PROVE d = c /\ WritePublished(c)
  <2>1. d \in Call
    BY DEF Call
  <2>2. \/ call' = [call EXCEPT ![d] = [NotCalled EXCEPT !.at = "done"]]
        \/ call' = [call EXCEPT ![d] = [call[d] EXCEPT !.at = "found"]]
    BY <1>5 DEF FindOthers, WritePublished, Returns
  <2>3. d = c
    BY <1>4, <2>1, <2>2
  <2>. QED BY <1>5, <2>3 DEF FindOthers
<1>6. ASSUME NEW d \in Retirement, NEW x, call' = [call EXCEPT ![d] = x] PROVE FALSE
  BY <1>0, <1>4, <1>6 DEF Call
<1>7. ASSUME NEW d \in Publisher, NEW v \in Version, NEW from \in Instant, NEW to \in Instant \cup {Never},
             CallPublish(d, v, from, to)
      PROVE  FALSE
  <2>1. d # c /\ d \in Call
    BY <1>7 DEF CallPublish, Call
  <2>. QED BY <1>4, <1>7, <2>1 DEF CallPublish
<1>8. ~Sweep
  BY <1>1 DEF Sweep, StartSweep, Activate, RetireEnded
<1>9. ~\E d \in Retirement, v \in Version : CallRetire(d, v)
  BY <1>6 DEF CallRetire
<1>10. ~\E d \in Retirement : WriteRetired(d)
  BY <1>6 DEF WriteRetired, Returns
<1>. QED BY <1>2, <1>3, <1>5, <1>7, <1>8, <1>9, <1>10 DEF CatalogStep

LEMMA KeepsStep ==
  ASSUME CatalogAssumption, Inv, NEW c \in Publisher, call[c].at = "found", call[c].to = Never,
         WritePublished(c), UNCHANGED clock, NEW tariff \in Tariff
  PROVE  Priced(tariff) \subseteq Priced(tariff)'
<1>. DEFINE v == call[c].version
            row == NewRow(call[c])
<1> SUFFICES ASSUME NEW t \in Instant, clock <= t, NEW w \in InForce(tariff, t)
             PROVE  \E u \in Version : /\ TariffOf[u] = tariff
                                       /\ Published(version'[u]) /\ Covers(version'[u], t)
  BY DEF Priced, InForce, Instant
<1>0. /\ w \in Version /\ TariffOf[w] = tariff /\ Published(version[w]) /\ Covers(version[w], t)
      /\ version[w] \in Row /\ t \in Nat /\ t < Never /\ clock \in Nat
  BY DEF InForce, Inv, CatalogTypeOK, Instant, CatalogAssumption
<1>1. CASE Refused(c)
  BY <1>0, <1>1 DEF WritePublished
<1>2. CASE ~Refused(c)
  <2>1. /\ c \in Call /\ v \in Version /\ call[c].now <= clock
        /\ call[c].from \in Nat /\ call[c].now \in Nat
    BY DEF Call, Inv, CatalogTypeOK, Calls
  <2>2. version'[v] = row /\ \A u \in Version \ {v} : version'[u] = Ended(c)[u]
    BY <1>2, <2>1 DEF WritePublished, Ended
  <2>3. w # v
    BY <1>0 DEF Inv, Drafting, Published
  <2>4. Ended(c)[w] = IF w \in Overlapping(c) THEN EndedBy(version[w], call[c]) ELSE version[w]
    BY <1>0 DEF Ended
  <2>5. CASE w \notin Overlapping(c)
    BY <1>0, <2>2, <2>3, <2>4, <2>5
  <2>6. CASE w \in Overlapping(c) /\ t < call[c].from
    <3>1. ~Retires(version[w], call[c])
      BY <1>0, <2>1, <2>6 DEF Retires
    <3>2. Ended(c)[w] = [version[w] EXCEPT !.to = call[c].from, !.status = version[w].status]
      BY <2>4, <2>6, <3>1 DEF EndedBy
    <3>3. version'[w] = Ended(c)[w]
      BY <1>0, <2>2, <2>3
    <3>4. version[w] \in Row
      BY <1>0
    <3>5. /\ version'[w].status = version[w].status /\ version'[w].from = version[w].from
          /\ version'[w].to = call[c].from
      BY <3>2, <3>3, <3>4 DEF Row
    <3>. QED BY <1>0, <2>6, <3>5 DEF Published, Covers
  <2>7. CASE w \in Overlapping(c) /\ call[c].from <= t
    <3>1. TariffOf[v] = tariff
      BY <1>0, <2>7 DEF Overlapping, StillPublished, Inv, Drafting, Siblings
    <3>2. Published(row) /\ Covers(row, t)
      BY <1>0, <2>1, <2>7 DEF NewRow, Published, Covers
    <3>. QED BY <2>1, <2>2, <3>1, <3>2
  <2>. QED BY <1>0, <2>1, <2>5, <2>6, <2>7
<1>. QED BY <1>1, <1>2

(* Publishing a version without an end takes no price away: every instant  *)
(* from now on that had a version in force still has one.                  *)
THEOREM PublishingTakesNoPriceAway == ASSUME CatalogAssumption PROVE Spec => PublishingKeepsPrices
<1>1. Inv /\ [Next]_vars =>
        [\A c \in Publisher :
          call[c].at = "found" /\ call'[c].at = "done" /\ call[c].to = Never
            => \A tariff \in Tariff : Priced(tariff) \subseteq Priced(tariff)']_vars
  BY CatalogAssumption, ReturnsByWriting, KeepsStep
<1>. QED BY <1>1, Invariance, PTL DEF Spec, PublishingKeepsPrices

-----------------------------------------------------------------------------
(* A price belongs to a version that was published and begins by t.        *)
Begun(price, t) ==
  price.version # None => version[price.version].status \notin {"ABSENT", "DRAFT"}
                          /\ version[price.version].from <= t

(* What a driver is quoted, and what his session is priced by, had begun   *)
(* when he asked to start.                                                 *)
PricesHaveBegun ==
  \A s \in Session :
    /\ start[s].at = "idle" => Begun(quote[s].price, clock)
    /\ start[s].at # "idle" => Begun(quote[s].price, start[s].time)
    /\ start[s].at = "frozen" => Begun(start[s].price, start[s].time)

QuotesArePublic == \A s \in Session : quote[s].price.segment = "PUBLIC"

(* Nothing is free but what is internal.                                   *)
OnlyInternalIsFree ==
  \A s \in Session :
    /\ quote[s].price.version = None => quote[s].price = NoPrice
    /\ start[s].at = "frozen" /\ start[s].price.version = None => start[s].segment = "INTERNAL"

PriceInv == Inv /\ TypeOK /\ PricesHaveBegun /\ QuotesArePublic /\ OnlyInternalIsFree

LEMMA PriceInit == ASSUME CatalogAssumption, ResolutionAssumption, Init PROVE PriceInv
<1>1. Inv
  BY InitInv
<1>2. TypeOK
  BY <1>1 DEF Inv, TypeOK, Init, ResolutionInit, NoPrice, ResolutionAssumption, CatalogAssumption
<1>3. PricesHaveBegun /\ QuotesArePublic /\ OnlyInternalIsFree
  BY DEF PricesHaveBegun, QuotesArePublic, OnlyInternalIsFree, Begun, Init, ResolutionInit, NoPrice
<1>. QED BY <1>1, <1>2, <1>3 DEF PriceInv

(* What is resolved is in force, for the segment of its assignment.        *)
LEMMA ResolvedIsInForce ==
  ASSUME CatalogAssumption, ResolutionAssumption, CatalogTypeOK,
         NEW segment, NEW t \in Nat, NEW price \in Resolutions(segment, t)
  PROVE  /\ price \in [version : Version, segment : Segment]
         /\ Begun(price, t)
         /\ \E tariff \in Tariff : price.version \in InForce(tariff, t)
         /\ segment = "PUBLIC" => price.segment = "PUBLIC"
<1>0. PICK a \in Candidates(segment, t) :
        price \in {[version |-> v, segment |-> Assigned[a].segment] : v \in InForce(Assigned[a].tariff, t)}
  BY DEF Resolutions
<1>1. PICK v \in InForce(Assigned[a].tariff, t) : price = [version |-> v, segment |-> Assigned[a].segment]
  BY <1>0
<1>2. a \in Assignment /\ (Assigned[a].segment = segment \/ Assigned[a].segment = "PUBLIC")
  BY DEF Candidates
<1>3. Assigned[a].tariff \in Tariff /\ Assigned[a].segment \in Segment
  BY <1>2 DEF ResolutionAssumption
<1>4. v \in Version /\ Published(version[v]) /\ version[v].from <= t
  BY DEF InForce, Covers
<1>5. version[v].status \notin {"ABSENT", "DRAFT"}
  BY <1>4 DEF Published
<1>. QED BY <1>1, <1>2, <1>3, <1>4, <1>5 DEF Begun

(* A version that has begun has begun later on too.                        *)
LEMMA BegunStays ==
  ASSUME CatalogAssumption, Inv, [Next]_vars, NEW price, price.version \in Version \cup {None},
         NEW t \in Nat, NEW u \in Nat, t <= u, Begun(price, t)
  PROVE  Begun(price, u)'
<1> SUFFICES ASSUME price.version # None
             PROVE  version'[price.version].status \notin {"ABSENT", "DRAFT"} /\ version'[price.version].from <= u
  BY DEF Begun
<1>1. /\ version[price.version] \in Row
      /\ version[price.version].status \notin {"ABSENT", "DRAFT"} /\ version[price.version].from <= t
  BY DEF Begun, Inv, CatalogTypeOK
<1>2. Published(version[price.version]) \/ version[price.version].status = "RETIRED"
  BY <1>1 DEF Published, Row
<1>3. version'[price.version].status \notin {"ABSENT", "DRAFT"} /\ version'[price.version].from = version[price.version].from
  BY <1>1, <1>2, FixedStep
<1>4. version[price.version].from \in Nat
  BY <1>1 DEF Row
<1>. QED BY <1>1, <1>3, <1>4

(* The steps of a request to start, one session at a time.                 *)
LEMMA FreezeStep ==
  ASSUME CatalogAssumption, ResolutionAssumption, PriceInv, NEW s \in Session,
         FreezeQuote(s) \/ FreezeResolved(s) \/ FreezeInternal(s)
  PROVE  \E price \in [version : Version \cup {None}, segment : Segment] :
           /\ Freezes(s, price) /\ Begun(price, start[s].time) /\ start[s].at = "authorizing"
           /\ price.version = None => start[s].segment = "INTERNAL"
           /\ IF QuoteIsValid(s) THEN price = quote[s].price
              ELSE start[s].segment # "INTERNAL" =>
                     \E tariff \in Tariff : price.version \in InForce(tariff, start[s].time)
<1>0. /\ start[s].time \in Nat /\ start[s].segment \in Segment
      /\ quote[s].price \in [version : Version \cup {None}, segment : Segment]
  BY DEF PriceInv, TypeOK
<1>1. CASE FreezeQuote(s)
  BY <1>0, <1>1 DEF FreezeQuote, QuoteIsValid, PriceInv, PricesHaveBegun, OnlyInternalIsFree
<1>2. CASE FreezeResolved(s)
  <2>1. PICK price \in Resolutions(start[s].segment, start[s].time) : Freezes(s, price)
    BY <1>2 DEF FreezeResolved, Resolved
  <2>2. CatalogTypeOK
    BY DEF PriceInv, TypeOK
  <2>3. price \in [version : Version, segment : Segment] /\ Begun(price, start[s].time)
        /\ \E tariff \in Tariff : price.version \in InForce(tariff, start[s].time)
    BY <1>0, <2>2, ResolvedIsInForce
  <2>4. price.version # None
    BY <2>3 DEF CatalogAssumption
  <2>. QED BY <1>2, <2>1, <2>3, <2>4 DEF FreezeResolved
<1>3. CASE FreezeInternal(s)
  <2>1. Begun([version |-> None, segment |-> "INTERNAL"], start[s].time)
    BY DEF Begun
  <2>. QED BY <1>0, <1>3, <2>1 DEF FreezeInternal
<1>. QED BY <1>1, <1>2, <1>3

LEMMA AssignmentTypes ==
  ASSUME CatalogAssumption, TypeOK, ResolutionStep, UNCHANGED <<quote, start>>
  PROVE  assignment' \in [Assignment -> [from : Nat, to : Nat, created : Nat]]
<1>0. Instant \subseteq Nat /\ Never \in Nat /\ clock \in Nat
  BY DEF Instant, CatalogAssumption, TypeOK, CatalogTypeOK
<1>1. ASSUME NEW a \in Assignment, NEW from \in Instant, NEW to \in Instant \cup {Never},
             CreateAssignment(a, from, to)
      PROVE  assignment' \in [Assignment -> [from : Nat, to : Nat, created : Nat]]
  BY <1>0, <1>1 DEF CreateAssignment, TypeOK
<1>2. ASSUME NEW a \in Assignment, EndAssignment(a)
      PROVE  assignment' \in [Assignment -> [from : Nat, to : Nat, created : Nat]]
  BY <1>0, <1>2 DEF EndAssignment, TypeOK
<1>3. CASE UNCHANGED assignment
  BY <1>3 DEF TypeOK
<1>. QED BY <1>1, <1>2, <1>3 DEF ResolutionStep, Quote, FreezeQuote, FreezeResolved, FreezeInternal, Freezes,
                                 NoTariff, RequestStart

LEMMA PriceStep == ASSUME CatalogAssumption, ResolutionAssumption, PriceInv, [Next]_vars PROVE PriceInv'
<1>0. Inv' /\ CatalogTypeOK' /\ Inv /\ TypeOK
  BY InvStep DEF PriceInv, Inv
<1>1. CASE UNCHANGED resolutionVars
  <2>1. TypeOK' /\ QuotesArePublic' /\ OnlyInternalIsFree'
    BY <1>0, <1>1 DEF PriceInv, TypeOK, QuotesArePublic, OnlyInternalIsFree, resolutionVars
  <2>2. clock' \in Nat /\ clock \in Nat /\ clock <= clock'
    BY <1>0, <1>1 DEF Next, Tick, vars, TypeOK, CatalogTypeOK, CatalogStep
  <2>3. PricesHaveBegun'
    <3> SUFFICES ASSUME NEW s \in Session
                 PROVE  (/\ start[s].at = "idle" => Begun(quote[s].price, clock)
                         /\ start[s].at # "idle" => Begun(quote[s].price, start[s].time)
                         /\ start[s].at = "frozen" => Begun(start[s].price, start[s].time))'
      BY DEF PricesHaveBegun
    <3>0. quote' = quote /\ start' = start
      BY <1>1 DEF resolutionVars
    <3>1. /\ quote[s].price.version \in Version \cup {None} /\ start[s].price.version \in Version \cup {None}
          /\ start[s].time \in Nat
      BY <1>0 DEF TypeOK
    <3>2. /\ start[s].at = "idle" => Begun(quote[s].price, clock)
          /\ start[s].at # "idle" => Begun(quote[s].price, start[s].time)
          /\ start[s].at = "frozen" => Begun(start[s].price, start[s].time)
      BY DEF PriceInv, PricesHaveBegun
    <3>3. ASSUME NEW price, price.version \in Version \cup {None}, NEW t \in Nat, NEW u \in Nat, t <= u,
                 Begun(price, t)
          PROVE  price.version # None => version'[price.version].status \notin {"ABSENT", "DRAFT"}
                                         /\ version'[price.version].from <= u
      BY <1>0, <3>3, BegunStays DEF Begun
    <3>4. CASE start[s].at = "idle"
      BY <2>2, <3>0, <3>1, <3>2, <3>3, <3>4 DEF Begun
    <3>5. CASE start[s].at # "idle"
      BY <2>2, <3>0, <3>1, <3>2, <3>3, <3>5 DEF Begun
    <3>. QED BY <3>4, <3>5
  <2>. QED BY <1>0, <2>1, <2>3 DEF PriceInv
<1>2. CASE ResolutionStep /\ UNCHANGED <<clock, catalogVars>>
  <2>0. /\ clock \in Nat /\ clock' = clock /\ version' = version
        /\ \A price, t : Begun(price, t)' = Begun(price, t)
    BY <1>0, <1>2 DEF Begun, catalogVars, TypeOK, CatalogTypeOK
  <2>1. CASE UNCHANGED <<quote, start>>
    <3>1. assignment' \in [Assignment -> [from : Nat, to : Nat, created : Nat]]
      BY <1>0, <1>2, <2>0, <2>1, AssignmentTypes
    <3>. QED BY <1>0, <2>0, <2>1, <3>1 DEF PriceInv, TypeOK, PricesHaveBegun, QuotesArePublic, OnlyInternalIsFree, Begun
  <2>2. ASSUME NEW s \in Session, Quote(s)
        PROVE  PriceInv'
    <3>1. PICK price \in Resolutions("PUBLIC", clock) :
            quote' = [quote EXCEPT ![s] = [price |-> price, until |-> clock + QuoteValidity]]
      BY <2>2 DEF Quote
    <3>2. /\ price \in [version : Version, segment : Segment]
          /\ Begun(price, clock) /\ price.segment = "PUBLIC"
      BY <1>0, <2>0, ResolvedIsInForce DEF TypeOK
    <3>3. start[s].at = "idle" /\ assignment' = assignment /\ start' = start
      BY <2>2 DEF Quote
    <3>4. TypeOK'
      BY <1>0, <2>0, <3>1, <3>2, <3>3 DEF TypeOK, ResolutionAssumption
    <3>5. QuotesArePublic' /\ OnlyInternalIsFree'
      BY <3>1, <3>2, <3>3 DEF PriceInv, TypeOK, QuotesArePublic, OnlyInternalIsFree, CatalogAssumption
    <3>6. PricesHaveBegun'
      BY <1>0, <2>0, <3>1, <3>2, <3>3 DEF PriceInv, TypeOK, PricesHaveBegun, Begun
    <3>. QED BY <1>0, <3>4, <3>5, <3>6 DEF PriceInv
  <2>3. ASSUME NEW s \in Session, NEW segment \in Segment, RequestStart(s, segment)
        PROVE  PriceInv'
    <3>1. TypeOK'
      BY <1>0, <2>0, <2>3 DEF TypeOK, RequestStart, NoPrice, ResolutionAssumption
    <3>2. QuotesArePublic' /\ OnlyInternalIsFree'
      BY <2>3 DEF PriceInv, TypeOK, QuotesArePublic, OnlyInternalIsFree, RequestStart
    <3>3. PricesHaveBegun'
      BY <1>0, <2>0, <2>3 DEF PriceInv, TypeOK, PricesHaveBegun, RequestStart, Begun
    <3>. QED BY <1>0, <3>1, <3>2, <3>3 DEF PriceInv
  <2>4. ASSUME NEW s \in Session, NoTariff(s)
        PROVE  PriceInv'
    <3>1. TypeOK' /\ QuotesArePublic' /\ OnlyInternalIsFree'
      BY <1>0, <2>0, <2>4 DEF PriceInv, TypeOK, QuotesArePublic, OnlyInternalIsFree, NoTariff
    <3>2. PricesHaveBegun'
      BY <1>0, <2>0, <2>4 DEF PriceInv, TypeOK, PricesHaveBegun, NoTariff, Begun
    <3>. QED BY <1>0, <3>1, <3>2 DEF PriceInv
  <2>5. ASSUME NEW s \in Session, FreezeQuote(s) \/ FreezeResolved(s) \/ FreezeInternal(s)
        PROVE  PriceInv'
    <3>1. PICK price \in [version : Version \cup {None}, segment : Segment] :
            /\ Freezes(s, price) /\ Begun(price, start[s].time) /\ start[s].at = "authorizing"
            /\ price.version = None => start[s].segment = "INTERNAL"
      BY <2>5, FreezeStep
    <3>2. TypeOK'
      <4>1. /\ start' = [start EXCEPT ![s] = [start[s] EXCEPT !.at = "frozen", !.price = price]]
            /\ assignment' = assignment /\ quote' = quote
        BY <1>0, <3>1 DEF Freezes, TypeOK
      <4>2. [start[s] EXCEPT !.at = "frozen", !.price = price] \in
              [at : {"idle", "authorizing", "frozen", "refused"}, time : Nat, segment : Segment,
               price : [version : Version \cup {None}, segment : Segment]]
        <5>1. start[s] \in [at : {"idle", "authorizing", "frozen", "refused"}, time : Nat, segment : Segment,
                            price : [version : Version \cup {None}, segment : Segment]]
          BY <1>0 DEF TypeOK
        <5>. QED BY <5>1
      <4>. QED BY <1>0, <4>1, <4>2 DEF TypeOK
    <3>4. QuotesArePublic' /\ OnlyInternalIsFree'
      BY <3>1 DEF PriceInv, TypeOK, QuotesArePublic, OnlyInternalIsFree, Freezes
    <3>3. PricesHaveBegun'
      BY <1>0, <2>0, <3>1 DEF PriceInv, TypeOK, PricesHaveBegun, Freezes, Begun
    <3>. QED BY <1>0, <3>2, <3>3, <3>4 DEF PriceInv
  <2>. QED BY <1>2, <2>1, <2>2, <2>3, <2>4, <2>5 DEF ResolutionStep, CreateAssignment, EndAssignment
<1>. QED BY <1>1, <1>2 DEF Next, vars, Tick

LEMMA PriceInvariance == ASSUME CatalogAssumption, ResolutionAssumption PROVE Spec => []PriceInv
BY PriceInit, PriceStep, PTL DEF Spec

(* Catalog, assignments, quotes and requests have their types.             *)
THEOREM TariffTypes == ASSUME CatalogAssumption, ResolutionAssumption PROVE Spec => []TypeOK
<1>1. PriceInv => TypeOK
  BY DEF PriceInv
<1>. QED BY <1>1, PriceInvariance, PTL

(* What a session is priced by was published, and had begun when its       *)
(* driver asked to start, whatever became of it since (freezeSession-      *)
(* Snapshot prices with the time of the request).                          *)
THEOREM NobodyPaysAheadOfTime ==
  ASSUME CatalogAssumption, ResolutionAssumption PROVE Spec => []PricesHaveBegun
<1>1. PriceInv => PricesHaveBegun
  BY DEF PriceInv
<1>. QED BY <1>1, PriceInvariance, PTL

(* A session without a tariff is an internal one (snapshot.ts: "null para  *)
(* el segmento INTERNAL"); a quote of nothing is never taken for a price.   *)
THEOREM NothingElseIsFree ==
  ASSUME CatalogAssumption, ResolutionAssumption PROVE Spec => []OnlyInternalIsFree
<1>1. PriceInv => OnlyInternalIsFree
  BY DEF PriceInv
<1>. QED BY <1>1, PriceInvariance, PTL

-----------------------------------------------------------------------------
(* The step that answers a request to start is its own.                    *)
LEMMA AnsweredByItself ==
  ASSUME PriceInv, [Next]_vars, NEW s \in Session, start[s].at = "authorizing", start'[s].at # "authorizing"
  PROVE  FreezeQuote(s) \/ FreezeResolved(s) \/ FreezeInternal(s) \/ NoTariff(s)
<1>1. start' # start
  OBVIOUS
<1>2. ResolutionStep
  BY <1>1 DEF Next, Tick, vars, resolutionVars
<1>3. ASSUME NEW r \in Session, r # s, NEW x, start' = [start EXCEPT ![r] = x] PROVE FALSE
  BY <1>3 DEF PriceInv, TypeOK
<1>4. PICK r \in Session :
        FreezeQuote(r) \/ FreezeResolved(r) \/ FreezeInternal(r) \/ NoTariff(r)
        \/ \E segment \in Segment : RequestStart(r, segment)
  BY <1>1, <1>2 DEF ResolutionStep, CreateAssignment, EndAssignment, Quote
<1>5. \E x : start' = [start EXCEPT ![r] = x]
  BY <1>4 DEF FreezeQuote, FreezeResolved, FreezeInternal, NoTariff, RequestStart, Freezes, PriceInv, TypeOK
<1>6. r = s
  BY <1>3, <1>5
<1>. QED BY <1>4, <1>6 DEF RequestStart

LEMMA ShownOrCurrentStep ==
  ASSUME CatalogAssumption, ResolutionAssumption, PriceInv, [Next]_vars, NEW s \in Session,
         start[s].at = "authorizing", start'[s].at # "authorizing", start[s].segment = "PUBLIC"
  PROVE  IF quote[s].price # NoPrice /\ start[s].time <= quote[s].until
           THEN start'[s].at = "frozen" /\ start'[s].price = quote[s].price
           ELSE start'[s].at = "frozen" =>
                  \E tariff \in Tariff : start'[s].price.version \in InForce(tariff, start[s].time)
<1>1. QuoteIsValid(s) <=> quote[s].price # NoPrice /\ start[s].time <= quote[s].until
  BY DEF QuoteIsValid, PriceInv, QuotesArePublic
<1>2. CASE NoTariff(s)
  BY <1>1, <1>2 DEF NoTariff, PriceInv, TypeOK
<1>3. CASE FreezeQuote(s) \/ FreezeResolved(s) \/ FreezeInternal(s)
  <2>1. PICK price \in [version : Version \cup {None}, segment : Segment] :
          /\ Freezes(s, price)
          /\ IF QuoteIsValid(s) THEN price = quote[s].price
             ELSE start[s].segment # "INTERNAL" =>
                    \E tariff \in Tariff : price.version \in InForce(tariff, start[s].time)
    BY <1>3, FreezeStep
  <2>2. start' = [start EXCEPT ![s] = [start[s] EXCEPT !.at = "frozen", !.price = price]]
    BY <2>1 DEF Freezes, PriceInv, TypeOK
  <2>3. start'[s].at = "frozen" /\ start'[s].price = price
    BY <2>2 DEF PriceInv, TypeOK
  <2>. QED BY <1>1, <2>1, <2>3
<1>. QED BY <1>2, <1>3, AnsweredByItself

(* Somebody who starts while the quote he saw is valid starts, and pays    *)
(* what it says, whatever is published, retired or reassigned in between;  *)
(* otherwise, what was in force when he asked (freezeSessionSnapshot).     *)
THEOREM DriversPayWhatTheySaw ==
  ASSUME CatalogAssumption, ResolutionAssumption PROVE Spec => PriceIsShownOrCurrent
<1>1. PriceInv /\ [Next]_vars =>
        [\A s \in Session :
           start[s].at = "authorizing" /\ start'[s].at # "authorizing" /\ start[s].segment = "PUBLIC" =>
             IF quote[s].price # NoPrice /\ start[s].time <= quote[s].until
               THEN start'[s].at = "frozen" /\ start'[s].price = quote[s].price
               ELSE start'[s].at = "frozen" =>
                      \E tariff \in Tariff : start'[s].price.version \in InForce(tariff, start[s].time)]_vars
  BY CatalogAssumption, ResolutionAssumption, ShownOrCurrentStep
<1>. QED BY <1>1, PriceInvariance, PTL DEF Spec, PriceIsShownOrCurrent
=============================================================================
