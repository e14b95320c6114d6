---------------------------- MODULE TariffCatalog ----------------------------
(***************************************************************************)
(* The versions of the tariffs (packages/csms/src/pricing/tariffs.ts):     *)
(* publishing and retiring them, and the worker's job that follows their   *)
(* validity.  A call reads the time when it begins, locks its version and  *)
(* the published ones, and writes.                                         *)
(***************************************************************************)
EXTENDS Naturals

CONSTANTS
  Tariff, Version, \* tariffs and their versions
  TariffOf,        \* [Version -> Tariff]
  Base,            \* the versions that ensureBaseTariff published
  Publisher,       \* calls of publishTariffVersion
  Retirement,      \* calls of retireTariffVersion
  MaxTime,         \* the last instant
  Never,           \* the end of a validity that has none
  None

ASSUME CatalogAssumption ==
  /\ TariffOf \in [Version -> Tariff]
  /\ Base \subseteq Version /\ \A v, w \in Base : TariffOf[v] = TariffOf[w] => v = w
  /\ MaxTime \in Nat /\ Never \in Nat /\ MaxTime < Never
  /\ None \notin Version /\ Publisher \cap Retirement = {}

Instant == 0 .. MaxTime
Call == Publisher \cup Retirement

VARIABLES
  clock,
  version,   \* [Version -> row]: status, valid_from and valid_to
  call,      \* [Call -> what it was asked and when, and the step it is at]
  others,    \* [Publisher -> the published versions it found]
  sweep      \* the worker's job: what it does next and the time it read

catalogVars == <<version, call, others, sweep>>

(* The rest of the time of a tariff that was in force before the model.    *)
InForceAlready == [status |-> "ACTIVE", from |-> 0, to |-> Never]
Absent == [status |-> "ABSENT", from |-> Never, to |-> Never]
NotCalled == [at |-> "idle", version |-> None, from |-> 0, to |-> 0, now |-> 0]

CatalogInit ==
  /\ version = [v \in Version |-> IF v \in Base THEN InForceAlready ELSE Absent]
  /\ call = [c \in Call |-> NotCalled]
  /\ others = [c \in Publisher |-> {}]
  /\ sweep = [next |-> "start", now |-> 0]

Published(row) == row.status \in {"ACTIVE", "SCHEDULED"}
Covers(row, t) == row.from <= t /\ t < row.to
Overlap(r, s) == r.from < s.to /\ s.from < r.to

(* findEffectiveVersion: the version in force at an instant.               *)
InForce(tariff, t) == {v \in Version : TariffOf[v] = tariff /\ Published(version[v]) /\ Covers(version[v], t)}

Siblings(v) == {w \in Version \ {v} : TariffOf[w] = TariffOf[v]}

Returns(c) == call' = [call EXCEPT ![c] = [NotCalled EXCEPT !.at = "done"]]

(* createTariffVersion.                                                    *)
CreateVersion(v) ==
  /\ version[v].status = "ABSENT"
  /\ version' = [version EXCEPT ![v].status = "DRAFT"]
  /\ UNCHANGED <<call, others, sweep>>

-----------------------------------------------------------------------------
(* publishTariffVersion reads the time and checks the dates.               *)
CallPublish(c, v, from, to) ==
  /\ call[c].at = "idle" /\ from < to
  /\ call' = [call EXCEPT ![c] = [at |-> "called", version |-> v, from |-> from, to |-> to, now |-> clock]]
  /\ UNCHANGED <<version, others, sweep>>

(* The draft that a call is publishing.                                    *)
Locked(v) == \E c \in Publisher : call[c].at = "found" /\ call[c].version = v

(* Mutant: the status was checked before the lock.                         *)
IsDraftAlways(v) == TRUE

IsDraft(v) == version[v].status = "DRAFT"

(* SELECT ... FOR UPDATE of the version, and of the published ones.  The   *)
(* statement finds these when it begins, and then waits for their locks.   *)
FindOthers(c) ==
  LET v == call[c].version IN
  /\ call[c].at = "called" /\ ~Locked(v)
  /\ IF IsDraft(v)
       THEN /\ others' = [others EXCEPT ![c] = {w \in Siblings(v) : Published(version[w])}]
            /\ call' = [call EXCEPT ![c].at = "found"]
       ELSE Returns(c) /\ UNCHANGED others
  /\ UNCHANGED <<version, sweep>>

(* A row that changed while its lock was waited for is checked again.      *)
StillPublished(c) == {w \in others[c] : Published(version[w])}

(* Mutant: whatever the date.                                              *)
RetiresAnyway(row, asked) == row.status = "ACTIVE"

(* The version that another follows at once is retired at once.            *)
Retires(row, asked) == asked.from <= asked.now /\ row.status = "ACTIVE"

EndedBy(row, asked) ==
  [row EXCEPT !.to = asked.from, !.status = IF Retires(row, asked) THEN "RETIRED" ELSE row.status]

Overlapping(c) == {w \in StillPublished(c) : Overlap(version[w], call[c])}

(* The versions in force end where the new one begins.                     *)
Ended(c) ==
  [w \in Version |-> IF w \in Overlapping(c) THEN EndedBy(version[w], call[c]) ELSE version[w]]

NewRow(asked) ==
  [status |-> IF asked.from > asked.now THEN "SCHEDULED" ELSE "ACTIVE", from |-> asked.from, to |-> asked.to]

(* Mutant: no exclusion constraint.                                        *)
ExcludedNot(rows, v, row) == FALSE

(* tariff_version_no_overlap, which also sees the versions that were not   *)
(* found.                                                                  *)
Excluded(rows, v, row) == \E w \in Siblings(v) : Published(rows[w]) /\ Overlap(rows[w], row)

(* One of the versions in force begins later, or the constraint refuses.   *)
Refused(c) ==
  \/ \E w \in Overlapping(c) : version[w].from >= call[c].from
  \/ Excluded(Ended(c), call[c].version, NewRow(call[c]))

WritePublished(c) ==
  /\ call[c].at = "found"
  /\ version' = IF Refused(c) THEN version ELSE [Ended(c) EXCEPT ![call[c].version] = NewRow(call[c])]
  /\ Returns(c)
  /\ others' = [others EXCEPT ![c] = {}]
  /\ UNCHANGED sweep

-----------------------------------------------------------------------------
CallRetire(c, v) ==
  /\ call[c].at = "idle"
  /\ call' = [call EXCEPT ![c] = [at |-> "called", version |-> v, from |-> 0, to |-> 0, now |-> clock]]
  /\ UNCHANGED <<version, others, sweep>>

(* The CHECK on valid_to refuses a version that has not begun.             *)
WriteRetired(c) ==
  LET v == call[c].version IN
  /\ call[c].at = "called" /\ ~Locked(v)
  /\ IF Published(version[v]) /\ version[v].from < call[c].now
       THEN version' = [version EXCEPT ![v].status = "RETIRED", ![v].to = call[c].now]
       ELSE UNCHANGED version
  /\ Returns(c)
  /\ UNCHANGED <<others, sweep>>

-----------------------------------------------------------------------------
(* activateScheduledVersions: two statements with the time of the first.   *)
StartSweep ==
  /\ sweep.next = "start"
  /\ sweep' = [next |-> "activate", now |-> clock]
  /\ UNCHANGED <<version, call, others>>

Activate ==
  LET due(row) == row.status = "SCHEDULED" /\ Covers(row, sweep.now) IN
  /\ sweep.next = "activate"
  /\ version' = [v \in Version |->
                   IF due(version[v]) THEN [version[v] EXCEPT !.status = "ACTIVE"] ELSE version[v]]
  /\ sweep' = [sweep EXCEPT !.next = "retire"]
  /\ UNCHANGED <<call, others>>

IsOver(row, now) == Published(row) /\ row.to <= now

RetireEnded ==
  /\ sweep.next = "retire"
  /\ version' = [v \in Version |->
                   IF IsOver(version[v], sweep.now) THEN [version[v] EXCEPT !.status = "RETIRED"]
                   ELSE version[v]]
  /\ sweep' = [next |-> "start", now |-> 0]
  /\ UNCHANGED <<call, others>>

Sweep == StartSweep \/ Activate \/ RetireEnded

CatalogStep ==
  \/ \E v \in Version : CreateVersion(v)
  \/ \E c \in Publisher, v \in Version, from \in Instant, to \in Instant \cup {Never} :
       version[v].status = "DRAFT" /\ CallPublish(c, v, from, to)
  \/ \E c \in Publisher : FindOthers(c) \/ WritePublished(c)
  \/ \E c \in Retirement, v \in Version : Published(version[v]) /\ CallRetire(c, v)
  \/ \E c \in Retirement : WriteRetired(c)
  \/ Sweep

Row == [status : {"ABSENT", "DRAFT", "SCHEDULED", "ACTIVE", "RETIRED"}, from : Nat, to : Nat]

CatalogTypeOK ==
  /\ clock \in Nat
  /\ version \in [Version -> Row]
  /\ call \in [Call -> [at : {"idle", "called", "found", "done"}, version : Version \cup {None},
                        from : Nat, to : Nat, now : Nat]]
  /\ others \in [Publisher -> SUBSET Version]
  /\ sweep \in [next : {"start", "activate", "retire"}, now : Nat]
=============================================================================
