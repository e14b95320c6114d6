----------------------------- MODULE Onboarding -----------------------------
(***************************************************************************)
(* One charge point from the inventory to the app: its row                 *)
(* (csms/lifecycle.ts), its credential (csms/credentials.ts), its login    *)
(* (apps/ocpp-gateway/db-registry.ts), its BootNotification                *)
(* (apps/ocpp-gateway/persistence.ts), the staff, and the worker's watch   *)
(* over its connection (apps/worker/jobs/connection-watch.ts).             *)
(*                                                                         *)
(* A handler is split where it awaits the database, so that what it read   *)
(* may be old when it writes.  The connections themselves are those of     *)
(* GatewayConnections; here a charger has one or none.                     *)
(***************************************************************************)
EXTENDS Naturals, PointLifecycle

CONSTANTS
  Boot,        \* handlers of BootNotification that may be running
  Bound,       \* how often, in a behaviour, the staff issue a key, act on the
               \* point or its alarms, and begin an operation on its
               \* configuration, and how often a process or a connection dies
  None

ASSUME OnboardingAssumption ==
  /\ Bound \in [issues : Nat, moves : Nat, ops : Nat, faults : Nat]
  /\ None \notin Lifecycle /\ None \notin {"WARNING", "CRITICAL"} /\ None \notin Nat

VARIABLES
  point,    \* the row of assets.charge_point
  cred,     \* the key of its row of assets.charge_point_credential, or None
  alarm,    \* severity of its open alarm of each kind, or None
  charger,  \* [key, wrong]: the key it was loaded with, and whether its vendor
            \* or model differ from the inventory
  conn,     \* connection.chargePoint.lifecycle of its connection, or None
  login,    \* the lifecycle read by an authentication under way, or None
  issue,    \* [pc, life, key]: issueCredential
  boot,     \* [Boot -> [pc, life, mismatch, live]]: bootNotification
  watch,    \* [pc, offline, open]: watchConnections
  spent     \* what has been spent of Bound

rowVars == <<point, cred, alarm>>
onboardingVars == <<rowVars, charger, conn, login, issue, boot, watch, spent>>

Severity == {"WARNING", "CRITICAL"}
AlarmKind == {"mismatch", "offline", "drift"}

IdleBoot == [pc |-> "idle", life |-> None, mismatch |-> FALSE, live |-> FALSE]
IdleIssue == [pc |-> "idle", life |-> None, key |-> None]
IdleWatch == [pc |-> "idle", offline |-> FALSE, open |-> FALSE]

OnboardingInit ==
  /\ point = [life |-> "INVENTORIED", visible |-> FALSE, connected |-> FALSE, quiet |-> FALSE]
  /\ cred = None
  /\ alarm = [k \in AlarmKind |-> None]
  /\ charger \in [key : {None}, wrong : BOOLEAN]
  /\ conn = None
  /\ login = None
  /\ issue = IdleIssue
  /\ boot = [b \in Boot |-> IdleBoot]
  /\ watch = IdleWatch
  /\ spent = [b \in DOMAIN Bound |-> 0]

Spend(what) == spent[what] < Bound[what] /\ spent' = [spent EXCEPT ![what] = @ + 1]

-----------------------------------------------------------------------------
(* transitionLifecycle: one transaction with the row locked.               *)

CanMove(to) == to \in Transitions(point.life)

(* Mutant: only a rejected point is taken out of the app.                  *)
HidesRejected(to) == to = "REJECTED"

Hides(to) == to \in {"MAINTENANCE", "REJECTED", "DECOMMISSIONED"}

Moved(to) ==
  [point EXCEPT !.life = to, !.quiet = FALSE,
     !.visible = (to = "OPERATIONAL") \/ (@ /\ ~ Hides(to))]

(* It succeeds: at once when the point is there already.                   *)
MovesTo(to) ==
  \/ point.life = to /\ UNCHANGED <<point, cred>>
  \/ /\ CanMove(to)
     /\ point' = Moved(to)
     /\ cred' = IF to = "DECOMMISSIONED" THEN None ELSE cred

(* It throws a ConflictError.                                              *)
Conflicts(to) == point.life # to /\ ~ CanMove(to)

(* raiseAlarm overwrites the severity of the alarm that is open.           *)
Raise(kind, severity) == alarm' = [alarm EXCEPT ![kind] = severity]
Resolve(kind) == alarm' = [alarm EXCEPT ![kind] = None]

-----------------------------------------------------------------------------
(* issueCredential reads the point ...                                     *)
IssueReads ==
  /\ issue.pc = "idle"
  /\ Spend("issues")
  /\ point.life # "DECOMMISSIONED"
  /\ issue' = [pc |-> "write", life |-> point.life, key |-> spent.issues + 1]
  /\ UNCHANGED <<rowVars, charger, conn, login, boot, watch>>

(* ... writes the row of the credential, the point unlocked ...            *)
IssueWrites ==
  /\ issue.pc = "write"
  /\ cred' = issue.key
  /\ IF issue.life \in {"INVENTORIED", "REJECTED"}
     THEN issue' = [issue EXCEPT !.pc = "move"] /\ UNCHANGED charger
     ELSE issue' = IdleIssue /\ charger' = [charger EXCEPT !.key = issue.key]
  /\ UNCHANGED <<point, alarm, conn, login, boot, watch, spent>>

(* ... and provisions the point it read INVENTORIED or REJECTED.  If the   *)
(* point has moved the call fails and the key is never shown, but it is    *)
(* stored.                                                                 *)
IssueMoves ==
  /\ issue.pc = "move"
  /\ \/ MovesTo("PROVISIONED") /\ charger' = [charger EXCEPT !.key = issue.key]
     \/ Conflicts("PROVISIONED") /\ UNCHANGED <<point, cred, charger>>
  /\ issue' = IdleIssue
  /\ UNCHANGED <<alarm, conn, login, boot, watch, spent>>

(* The installation is corrected: the charger of the inventory is put up.  *)
ChargerIsReplaced ==
  /\ charger.wrong
  /\ charger' = [charger EXCEPT !.wrong = FALSE]
  /\ UNCHANGED <<rowVars, conn, login, issue, boot, watch, spent>>

-----------------------------------------------------------------------------
(* authenticate reads the point with its credential, and verifies the key. *)
MayLogin ==
  /\ cred # None
  /\ point.life \notin {"DECOMMISSIONED", "INVENTORIED"}
  /\ cred = charger.key

LoginReads ==
  /\ conn = None /\ login = None
  /\ MayLogin
  /\ login' = point.life
  /\ UNCHANGED <<rowVars, charger, conn, issue, boot, watch, spent>>

(* The connection opens with the lifecycle that was read, whatever has     *)
(* become of the point and its key.                                        *)
LoginSucceeds ==
  /\ login # None
  /\ point' = [point EXCEPT !.connected = TRUE, !.quiet = FALSE]
  /\ conn' = login
  /\ login' = None
  /\ UNCHANGED <<cred, alarm, charger, issue, boot, watch, spent>>

(* The connection is lost and its close recorded.  A handler that is       *)
(* running goes on, without the connection it came from.                   *)
Lost ==
  /\ conn' = None
  /\ boot' = [b \in Boot |-> [boot[b] EXCEPT !.live = FALSE]]
  /\ point' = [point EXCEPT !.connected = FALSE, !.quiet = FALSE]

Drop ==
  /\ conn # None
  /\ Spend("faults")
  /\ Lost
  /\ UNCHANGED <<cred, alarm, charger, login, issue, watch>>

(* The pod dies: nobody records the end of its connection.                 *)
GatewayDies ==
  /\ conn # None \/ login # None
  /\ Spend("faults")
  /\ conn' = None /\ login' = None
  /\ boot' = [b \in Boot |-> IdleBoot]
  /\ UNCHANGED <<rowVars, charger, issue, watch>>

-----------------------------------------------------------------------------
(* bootNotification                                                        *)

(* What follows once the point is known to have been provisioned.          *)
Verdict(life, mismatch) ==
  IF ~ mismatch THEN "answer" ELSE IF life = "CONNECTED_PENDING" THEN "reject" ELSE "warn"

(* It reads the point without a lock, and writes what the charger said of  *)
(* itself.                                                                 *)
BootReads(b) ==
  LET life == point.life IN
  /\ conn # None /\ boot[b].pc = "idle"
  /\ \A c \in Boot : ~ boot[c].live
  /\ boot' = [boot EXCEPT ![b] =
       [pc |-> IF life = "PROVISIONED" THEN "provision" ELSE Verdict(life, charger.wrong),
        life |-> life, mismatch |-> charger.wrong, live |-> TRUE]]
  /\ point' = [point EXCEPT !.quiet = FALSE]
  /\ UNCHANGED <<cred, alarm, charger, conn, login, issue, watch, spent>>

BootMoves(b, from, to, next) ==
  /\ boot[b].pc = from
  /\ \/ MovesTo(to) /\ boot' = [boot EXCEPT ![b] = [@ EXCEPT !.life = to, !.pc = next]]
     \/ Conflicts(to) /\ boot' = [boot EXCEPT ![b] = IdleBoot] /\ UNCHANGED <<point, cred>>
  /\ UNCHANGED <<alarm, charger, conn, login, issue, watch, spent>>

BootProvisions(b) ==
  BootMoves(b, "provision", "CONNECTED_PENDING", Verdict("CONNECTED_PENDING", boot[b].mismatch))

BootRejects(b) == BootMoves(b, "reject", "REJECTED", "alarm")

BootRaises(b) ==
  /\ boot[b].pc \in {"alarm", "warn"}
  /\ Raise("mismatch", IF boot[b].pc = "alarm" THEN "CRITICAL" ELSE "WARNING")
  /\ boot' = [boot EXCEPT ![b].pc = "answer"]
  /\ UNCHANGED <<point, cred, charger, conn, login, issue, watch, spent>>

(* The answer, with the same lifecycle the row's registration_status is    *)
(* given (nobody reads it), and that the connection goes by from now on.   *)
BootAnswers(b) ==
  /\ boot[b].pc = "answer"
  /\ conn' = IF boot[b].live THEN boot[b].life ELSE conn
  /\ boot' = [boot EXCEPT ![b] = IdleBoot]
  /\ UNCHANGED <<rowVars, charger, login, issue, watch, spent>>

BootStep(b) ==
  \/ BootReads(b) \/ BootProvisions(b) \/ BootRejects(b)
  \/ BootRaises(b) \/ BootAnswers(b)

(* stopTransaction ends a test session: the connection's lifecycle decides *)
(* whether to try, and a conflict is only logged.                          *)
TestSessionEnds ==
  /\ conn = "CONFIGURED"
  /\ MovesTo("TESTED")
  /\ UNCHANGED <<alarm, charger, conn, login, issue, boot, watch, spent>>

-----------------------------------------------------------------------------
(* The back office: any transition of the table, and the end of an alarm.  *)
StaffMoves(to) ==
  /\ CanMove(to)
  /\ Spend("moves")
  /\ MovesTo(to)
  /\ UNCHANGED <<alarm, charger, conn, login, issue, boot, watch>>

StaffResolves(kind) ==
  /\ alarm[kind] # None
  /\ Spend("moves")
  /\ Resolve(kind)
  /\ UNCHANGED <<point, cred, charger, conn, login, issue, boot, watch>>

-----------------------------------------------------------------------------
(* watchConnections.  The grace has passed since anything last touched the *)
(* row of an operational point (becoming operational touches it).          *)
GraceEnds ==
  /\ point.life = "OPERATIONAL" /\ ~ point.connected /\ ~ point.quiet
  /\ point' = [point EXCEPT !.quiet = TRUE]
  /\ UNCHANGED <<cred, alarm, charger, conn, login, issue, boot, watch, spent>>

(* It reads the operational points and the open alarms ...                 *)
WatchReads ==
  /\ watch.pc = "idle" /\ point.life = "OPERATIONAL"
  /\ watch' = [pc |-> "act", offline |-> ~ point.connected /\ point.quiet, open |-> alarm["offline"] # None]
  /\ UNCHANGED <<rowVars, charger, conn, login, issue, boot, spent>>

(* Mutant: an alarm that has become critical stays until somebody acts.    *)
EndsAlarmUnlessCritical == ~ watch.offline /\ watch.open /\ alarm["offline"] # "CRITICAL"

EndsAlarm == ~ watch.offline /\ watch.open

(* ... and raises or resolves by what it read.  The severity depends on    *)
(* the other points of the site.                                           *)
WatchActs ==
  /\ watch.pc = "act"
  /\ \/ watch.offline /\ \E s \in Severity : Raise("offline", s)
     \/ EndsAlarm /\ Resolve("offline")
     \/ ~ watch.offline /\ ~ EndsAlarm /\ UNCHANGED alarm
  /\ watch' = IdleWatch
  /\ UNCHANGED <<point, cred, charger, conn, login, issue, boot, spent>>

WatchStep == WatchReads \/ WatchActs

-----------------------------------------------------------------------------
OnboardingTypeOK ==
  /\ point \in [life : Lifecycle, visible : BOOLEAN, connected : BOOLEAN, quiet : BOOLEAN]
  /\ cred \in {None} \cup (1 .. Bound.issues)
  /\ alarm \in [AlarmKind -> Severity \cup {None}]
  /\ charger \in [key : (1 .. Bound.issues) \cup {None}, wrong : BOOLEAN]
  /\ conn \in Lifecycle \cup {None}
  /\ login \in Lifecycle \cup {None}
  /\ issue \in [pc : {"idle", "write", "move"}, life : Lifecycle \cup {None},
               key : (1 .. Bound.issues) \cup {None}]
  /\ boot \in [Boot -> [pc : {"idle", "provision", "reject", "alarm", "warn", "answer"},
                        life : Lifecycle \cup {None}, mismatch : BOOLEAN, live : BOOLEAN]]
  /\ watch \in [pc : {"idle", "act"}, offline : BOOLEAN, open : BOOLEAN]
  /\ spent \in [DOMAIN Bound -> Nat] /\ \A b \in DOMAIN Bound : spent[b] <= Bound[b]

(* The app shows a point only while it is in operation: not while it is    *)
(* out for maintenance, whatever order boots, tests and staff come in      *)
(* (visible_in_app, written by transitionLifecycle alone).                 *)
VisibleIsOperational == point.visible => point.life = "OPERATIONAL"

(* A connection that would let a driver charge belongs to a point that was *)
(* approved, and that has not left since but by its end: neither a login   *)
(* nor a boot that read the row long ago lets an unapproved one charge.    *)
BillsOnlyIfApproved == conn \in Billable => point.life \in Billable \cup {"DECOMMISSIONED"}

ApprovedOnly == VisibleIsOperational /\ BillsOnlyIfApproved

(* What docs/07 says at line 52: only an operational point (or one in      *)
(* maintenance) starts transactions that drivers pay for.  Not so: its     *)
(* connection goes by the lifecycle of its last boot.                      *)
OnlyOperationalBills == conn \in Billable => point.life \in Billable

(* The two are in step again after the next boot or connection; an         *)
(* approved point must not refuse drivers meanwhile.  Not so either.       *)
ApprovedIsServed == point.life \in Billable /\ conn # None => conn \in Billable

(* A key is revoked with its point.  Not so: issueCredential writes it     *)
(* without a lock on the point.                                            *)
DecommissionedHasNoKey == point.life = "DECOMMISSIONED" => cred = None

(* A charger that is not the one of the inventory is rejected by its boot, *)
(* with a critical alarm.  Not so: the next boot makes it a warning.       *)
RejectedIsCritical ==
  \A b \in Boot : point.life = "REJECTED" /\ boot[b].pc = "answer" /\ boot[b].mismatch
    => alarm["mismatch"] = "CRITICAL"

=============================================================================
