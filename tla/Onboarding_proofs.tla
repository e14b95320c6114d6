-------------------------- MODULE Onboarding_proofs --------------------------
(***************************************************************************)
(* A charge point, for any number of boot handlers, operations, keys and   *)
(* values: its state is well typed, only an approved point is shown or     *)
(* lets drivers charge, and, while operations are not mixed, CONFIGURED    *)
(* agrees with the last answer of the charger.                             *)
(***************************************************************************)
EXTENDS Commissioning, TLAPS

Approved == Billable \cup {"DECOMMISSIONED"}

(* Whoever holds, or is about to use, a lifecycle that lets drivers charge *)
(* holds it of a point that has been approved since.                       *)
NoneBillsBefore ==
  conn \in Billable \/ login \in Billable \/ (\E b \in Boot : boot[b].life \in Billable)
    => point.life \in Approved

OnboardingInv ==
  /\ OnboardingTypeOK
  /\ VisibleIsOperational
  /\ NoneBillsBefore

Point == [life : Lifecycle, visible : BOOLEAN, connected : BOOLEAN, quiet : BOOLEAN]
BootRec == [pc : {"idle", "provision", "reject", "alarm", "warn", "answer"},
            life : Lifecycle \cup {None}, mismatch : BOOLEAN, live : BOOLEAN]

-----------------------------------------------------------------------------
(* Approval is not lost along the table, but by the end of the point.      *)
LEMMA ApprovedIsClosed ==
  ASSUME NEW from \in Approved, NEW to \in Transitions(from)
  PROVE  to \in Approved
BY DEF Approved, Billable, Transitions

LEMMA TransitionsAreStates ==
  ASSUME NEW from \in Lifecycle
  PROVE  Transitions(from) \subseteq Lifecycle
BY DEF Lifecycle, Transitions

LEMMA MovesKeep ==
  ASSUME OnboardingAssumption, OnboardingInv, NEW to \in Lifecycle, MovesTo(to)
  PROVE  /\ point' \in Point /\ point'.life = to
         /\ cred' \in {None} \cup (1 .. Bound.issues)
         /\ point'.visible => point'.life = "OPERATIONAL"
         /\ point.life \in Approved => point'.life \in Approved
<1> USE OnboardingAssumption DEF OnboardingInv, OnboardingTypeOK, VisibleIsOperational, Point
<1>1. CASE point.life = to /\ UNCHANGED <<point, cred>>
  BY <1>1
<1>2. CASE CanMove(to) /\ point' = Moved(to) /\ cred' = IF to = "DECOMMISSIONED" THEN None ELSE cred
  <2>1. to \in Transitions(point.life)
    BY <1>2 DEF CanMove
  <2>2. /\ point' \in Point /\ point'.life = to
        /\ point'.visible = ((to = "OPERATIONAL") \/ (point.visible /\ ~ Hides(to)))
    BY <1>2 DEF Moved
  <2>3. point.visible => Hides(to)
    BY <2>1 DEF Transitions, Hides
  <2>4. point.life \in Approved => to \in Approved
    BY <2>1, ApprovedIsClosed
  <2> QED BY <1>2, <2>2, <2>3, <2>4
<1> QED BY <1>1, <1>2 DEF MovesTo

LEMMA OnboardingInitially == ASSUME OnboardingAssumption, OnboardingInit PROVE OnboardingInv
<1> USE OnboardingAssumption DEF OnboardingInit, Lifecycle, Billable
<1>1. OnboardingTypeOK
  BY DEF OnboardingTypeOK, IdleBoot, IdleIssue, IdleWatch, AlarmKind, Severity
<1>2. VisibleIsOperational /\ NoneBillsBefore
  BY DEF VisibleIsOperational, NoneBillsBefore, IdleBoot
<1> QED BY <1>1, <1>2 DEF OnboardingInv

-----------------------------------------------------------------------------
(* Keys, alarms and the watch: the point, its connection and its boots are *)
(* left alone.                                                             *)
LEMMA AsideKeeps ==
  ASSUME OnboardingAssumption, OnboardingInv,
         IssueReads \/ IssueWrites \/ ChargerIsReplaced \/ WatchStep
           \/ (\E k \in AlarmKind : StaffResolves(k))
  PROVE  OnboardingInv'
<1> USE OnboardingAssumption DEF OnboardingInv, OnboardingTypeOK, rowVars, Spend, AlarmKind, Severity
<1>1. UNCHANGED <<point, conn, login, boot>>
  BY DEF IssueReads, IssueWrites, ChargerIsReplaced, WatchStep, WatchReads, WatchActs, StaffResolves
<1>2. VisibleIsOperational' /\ NoneBillsBefore'
  BY <1>1 DEF VisibleIsOperational, NoneBillsBefore
<1>3. CASE IssueReads
  BY <1>2, <1>3 DEF IssueReads
<1>4. CASE IssueWrites
  BY <1>2, <1>4 DEF IssueWrites, IdleIssue
<1>5. CASE ChargerIsReplaced
  <2>1. charger' \in [key : (1 .. Bound.issues) \cup {None}, wrong : BOOLEAN]
    BY <1>5 DEF ChargerIsReplaced
  <2> QED BY <1>2, <1>5, <2>1 DEF ChargerIsReplaced
<1>6. CASE WatchReads
  BY <1>2, <1>6 DEF WatchReads
<1>7. CASE WatchActs
  BY <1>2, <1>7 DEF WatchActs, IdleWatch, Raise, Resolve
<1>8. ASSUME NEW k \in AlarmKind, StaffResolves(k)
      PROVE  OnboardingInv'
  BY <1>2, <1>8 DEF StaffResolves, Resolve
<1> QED BY <1>3, <1>4, <1>5, <1>6, <1>7, <1>8 DEF WatchStep

LEMMA TransitionKeeps ==
  ASSUME OnboardingAssumption, OnboardingInv,
         \/ IssueMoves
         \/ TestSessionEnds
         \/ \E l \in Lifecycle : StaffMoves(l)
  PROVE  OnboardingInv'
<1> USE OnboardingAssumption DEF Spend, Point
<1>a. OnboardingTypeOK /\ NoneBillsBefore
  BY DEF OnboardingInv
<1>1. CASE IssueMoves /\ MovesTo("PROVISIONED")
  BY <1>1, <1>a, MovesKeep DEF IssueMoves, IdleIssue, OnboardingInv, OnboardingTypeOK, VisibleIsOperational,
                               NoneBillsBefore, Lifecycle
<1>2. CASE IssueMoves /\ ~ MovesTo("PROVISIONED")
  BY <1>2 DEF IssueMoves, IdleIssue, OnboardingInv, OnboardingTypeOK, VisibleIsOperational, NoneBillsBefore
<1>3. CASE TestSessionEnds
  BY <1>3, <1>a, MovesKeep DEF TestSessionEnds, OnboardingInv, OnboardingTypeOK, VisibleIsOperational,
                               NoneBillsBefore, Lifecycle
<1>4. ASSUME NEW l \in Lifecycle, StaffMoves(l)
      PROVE  OnboardingInv'
  <2>1. MovesTo(l) /\ UNCHANGED <<alarm, charger, conn, login, issue, boot, watch>>
    BY <1>4 DEF StaffMoves
  <2>2. spent' \in [DOMAIN Bound -> Nat] /\ \A b \in DOMAIN Bound : spent'[b] <= Bound[b]
    BY <1>4, <1>a DEF StaffMoves, OnboardingTypeOK
  <2> QED BY <2>1, <2>2, <1>a, MovesKeep DEF OnboardingInv, OnboardingTypeOK, VisibleIsOperational, NoneBillsBefore
<1> QED BY <1>1, <1>2, <1>3, <1>4

(* A change that is not of the lifecycle.                                  *)
PointIsTouched == point' \in Point /\ point'.life = point.life /\ point'.visible = point.visible

LEMMA LostBoots ==
  ASSUME OnboardingInv, Lost
  PROVE  boot' \in [Boot -> BootRec] /\ \A b \in Boot : boot'[b].life = boot[b].life
<1>1. \A b \in Boot : boot[b] \in BootRec
  BY DEF OnboardingInv, OnboardingTypeOK, BootRec
<1>2. ASSUME NEW r \in BootRec
      PROVE  [r EXCEPT !.live = FALSE] \in BootRec /\ [r EXCEPT !.live = FALSE].life = r.life
  BY DEF BootRec
<1>3. boot' = [b \in Boot |-> [boot[b] EXCEPT !.live = FALSE]]
  BY DEF Lost
<1> QED BY <1>1, <1>2, <1>3

(* What was read of the point becomes its connection's.                    *)
LEMMA ConnectionKeeps ==
  ASSUME OnboardingAssumption, OnboardingInv,
         LoginReads \/ LoginSucceeds \/ Drop \/ GatewayDies \/ GraceEnds
  PROVE  OnboardingInv'
<1> USE OnboardingAssumption DEF OnboardingInv, OnboardingTypeOK, VisibleIsOperational, Spend, rowVars
<1>1. CASE LoginReads
  BY <1>1 DEF LoginReads, NoneBillsBefore, Approved
<1>a. None \notin Billable
  BY DEF Billable, Lifecycle
<1>2. CASE LoginSucceeds
  <2>1. PointIsTouched
    BY <1>2 DEF LoginSucceeds, PointIsTouched, Point
  <2> QED BY <1>2, <2>1, <1>a DEF LoginSucceeds, NoneBillsBefore, PointIsTouched, Point
<1>3. CASE Drop
  <2>1. PointIsTouched
    BY <1>3 DEF Drop, Lost, PointIsTouched, Point
  <2>2. boot' \in [Boot -> BootRec] /\ \A b \in Boot : boot'[b].life = boot[b].life
    BY <1>3, LostBoots DEF Drop
  <2>3. spent' \in [DOMAIN Bound -> Nat] /\ \A b \in DOMAIN Bound : spent'[b] <= Bound[b]
    BY <1>3 DEF Drop
  <2>4. conn' = None /\ UNCHANGED <<cred, alarm, charger, login, issue, watch>>
    BY <1>3 DEF Drop, Lost
  <2> QED BY <2>1, <2>2, <2>3, <2>4, <1>a DEF NoneBillsBefore, PointIsTouched, Point, BootRec
<1>4. CASE GatewayDies
  BY <1>4 DEF GatewayDies, NoneBillsBefore, IdleBoot, Billable, Lifecycle
<1>5. CASE GraceEnds
  <2>1. PointIsTouched
    BY <1>5 DEF GraceEnds, PointIsTouched, Point
  <2> QED BY <1>5, <2>1 DEF GraceEnds, NoneBillsBefore, PointIsTouched, Point
<1> QED BY <1>1, <1>2, <1>3, <1>4, <1>5

-----------------------------------------------------------------------------
LEMMA BootMovesKeeps ==
  ASSUME OnboardingAssumption, OnboardingInv, NEW b \in Boot, NEW from, NEW to \in Lifecycle \ Billable,
         NEW next \in {"provision", "reject", "alarm", "warn", "answer"}, BootMoves(b, from, to, next)
  PROVE  OnboardingInv'
<1> USE OnboardingAssumption
<1>1. UNCHANGED <<alarm, charger, conn, login, issue, watch, spent>>
  BY DEF BootMoves
<1> DEFINE now == [boot[b] EXCEPT !.life = to, !.pc = next]
<1>2. CASE MovesTo(to) /\ boot' = [boot EXCEPT ![b] = now]
  <2>1. boot' \in [Boot -> BootRec] /\ \A c \in Boot : boot'[c].life \in {to, boot[c].life}
    <3>1. boot \in [Boot -> BootRec]
      BY DEF OnboardingInv, OnboardingTypeOK, BootRec
    <3>2. now \in BootRec /\ now.life = to
      BY <3>1 DEF BootRec
    <3> HIDE DEF now
    <3> QED BY <1>2, <3>1, <3>2
  <2> QED BY <1>1, <1>2, <2>1, MovesKeep DEF OnboardingInv, OnboardingTypeOK, VisibleIsOperational,
                                             NoneBillsBefore, Point, BootRec
<1>3. CASE boot' = [boot EXCEPT ![b] = IdleBoot] /\ UNCHANGED <<point, cred>>
  BY <1>1, <1>3 DEF OnboardingInv, OnboardingTypeOK, VisibleIsOperational, NoneBillsBefore, IdleBoot,
                    Billable, Lifecycle
<1> QED BY <1>2, <1>3 DEF BootMoves

LEMMA BootKeeps ==
  ASSUME OnboardingAssumption, OnboardingInv, NEW b \in Boot, BootStep(b)
  PROVE  OnboardingInv'
<1> USE OnboardingAssumption DEF OnboardingInv
<1>1. CASE BootReads(b)
  <2>1. PointIsTouched /\ UNCHANGED <<cred, alarm, charger, conn, login, issue, watch, spent>>
    BY <1>1 DEF BootReads, OnboardingTypeOK, PointIsTouched, Point
  <2>2. boot' \in [Boot -> BootRec] /\ \A c \in Boot : boot'[c].life \in {point.life, boot[c].life}
    BY <1>1 DEF BootReads, OnboardingTypeOK, BootRec, Verdict
  <2> QED BY <2>1, <2>2 DEF OnboardingTypeOK, VisibleIsOperational, NoneBillsBefore, PointIsTouched, Point,
                            BootRec, Approved
<1>2. CASE BootProvisions(b)
  BY <1>2, BootMovesKeeps DEF BootProvisions, Verdict, Lifecycle, Billable
<1>3. CASE BootRejects(b)
  BY <1>3, BootMovesKeeps DEF BootRejects, Lifecycle, Billable
<1>4. CASE BootRaises(b)
  BY <1>4 DEF BootRaises, Raise, OnboardingTypeOK, VisibleIsOperational, NoneBillsBefore, AlarmKind, Severity
<1>5. CASE BootAnswers(b)
  BY <1>5 DEF BootAnswers, rowVars, OnboardingTypeOK, VisibleIsOperational, NoneBillsBefore, IdleBoot, Billable,
              Lifecycle
<1> QED BY <1>1, <1>2, <1>3, <1>4, <1>5 DEF BootStep

LEMMA ConfigurationKeeps ==
  ASSUME OnboardingAssumption, OnboardingInv,
         Restarts \/ \E o \in Op : OpBegins(o) \/ OpStep(o)
  PROVE  OnboardingInv'
<1> USE OnboardingAssumption DEF OnboardingInv
<1>1. CASE Restarts
  <2>1. UNCHANGED <<cred, alarm, charger, login, issue, watch>>
    BY <1>1 DEF Restarts
  <2>2. spent' \in [DOMAIN Bound -> Nat] /\ \A b \in DOMAIN Bound : spent'[b] <= Bound[b]
    BY <1>1 DEF Restarts, Spend, OnboardingTypeOK
  <2>3. None \notin Billable
    BY DEF Billable, Lifecycle
  <2>4. CASE Lost
    <3>1. PointIsTouched /\ conn' = None
      BY <2>4 DEF Lost, OnboardingTypeOK, PointIsTouched, Point
    <3> QED BY <2>1, <2>2, <2>3, <2>4, <3>1, LostBoots
            DEF OnboardingTypeOK, VisibleIsOperational, NoneBillsBefore, PointIsTouched, Point, BootRec
  <2>5. CASE UNCHANGED <<conn, boot, point>>
    BY <2>1, <2>2, <2>5 DEF OnboardingTypeOK, VisibleIsOperational, NoneBillsBefore
  <2> QED BY <1>1, <2>4, <2>5 DEF Restarts
<1>2. ASSUME NEW o \in Op, OpBegins(o)
      PROVE  OnboardingInv'
  <2>1. UNCHANGED quietVars /\ Spend("ops")
    <3>1. CASE ApplyTemplate(o)
      BY <3>1, Zenon DEF ApplyTemplate, Begin
    <3>2. CASE DetectDrift(o)
      BY <3>2, Zenon DEF DetectDrift, Begin
    <3>3. ASSUME NEW k \in Key, NEW v \in Value, SetOverride(o, k, v)
          PROVE  UNCHANGED quietVars /\ Spend("ops")
      BY <3>3, Zenon DEF SetOverride, Begin
    <3>4. ASSUME NEW t \in Template, AssignTemplate(o, t)
          PROVE  UNCHANGED quietVars /\ Spend("ops")
      BY <3>4, Zenon DEF AssignTemplate, Begin
    <3> QED BY <1>2, <3>1, <3>2, <3>3, <3>4 DEF OpBegins
  <2> QED BY <2>1 DEF quietVars, rowVars, Spend, OnboardingTypeOK, VisibleIsOperational, NoneBillsBefore
<1>3. ASSUME NEW o \in Op, OpStep(o)
      PROVE  OnboardingInv'
  <2>1. CASE Persists(o)
    <3>1. PointIsTouched /\ UNCHANGED <<cred, alarm, charger, conn, login, issue, boot, watch, spent>>
      BY <2>1 DEF Persists, OnboardingTypeOK, PointIsTouched, Point
    <3> QED BY <3>1 DEF OnboardingTypeOK, VisibleIsOperational, NoneBillsBefore, PointIsTouched, Point
  <2>2. CASE Configures(o) /\ MovesTo("CONFIGURED")
    BY <2>2, MovesKeep DEF Configures, OnboardingTypeOK, VisibleIsOperational, NoneBillsBefore, Point, Lifecycle
  <2>3. CASE EndsWithAlarm(o)
    BY <2>3 DEF EndsWithAlarm, Raise, Resolve, OnboardingTypeOK, VisibleIsOperational, NoneBillsBefore,
                AlarmKind, Severity
  <2>4. CASE UNCHANGED onboardingVars
    BY <2>4 DEF onboardingVars, rowVars, OnboardingTypeOK, VisibleIsOperational, NoneBillsBefore
  <2>5. CASE Configures(o) /\ ~ MovesTo("CONFIGURED")
    BY <2>4, <2>5 DEF Configures, onboardingVars, rowVars
  <2>6. CASE Gets(o) \/ GetFails(o) \/ Judges(o) \/ ChangesEnd(o)
    BY <2>4, <2>6, Zenon DEF Gets, GetFails, Judges, ChangesEnd
  <2>7. CASE ChangeFindsNobody(o) \/ Resets(o) \/ WaitEnds(o) \/ Looks(o)
    BY <2>4, <2>7, Zenon DEF ChangeFindsNobody, Resets, WaitEnds, Looks
  <2>8. ASSUME NEW k \in Key, NEW v \in Value, ChangesKey(o, k, v) \/ ChangeIsLost(o, k, v)
        PROVE  UNCHANGED onboardingVars
    BY <2>8, Zenon DEF ChangesKey, ChangeIsLost
  <2> QED BY <1>3, <2>1, <2>2, <2>3, <2>4, <2>5, <2>6, <2>7, <2>8 DEF OpStep
<1> QED BY <1>1, <1>2, <1>3

LEMMA OnboardingStays ==
  ASSUME OnboardingInv, UNCHANGED vars
  PROVE  OnboardingInv'
BY DEF vars, onboardingVars, rowVars, OnboardingInv, OnboardingTypeOK, VisibleIsOperational, NoneBillsBefore

LEMMA OnboardingStep ==
  ASSUME OnboardingAssumption, OnboardingInv, [Next]_vars
  PROVE  OnboardingInv'
<1>1. CASE AroundStep
  BY <1>1, AsideKeeps, TransitionKeeps, ConnectionKeeps, BootKeeps DEF AroundStep
<1> QED BY <1>1, ConfigurationKeeps, OnboardingStays DEF Next

LEMMA OnboardingAlways == ASSUME OnboardingAssumption PROVE Spec => []OnboardingInv
<1>1. Init => OnboardingInv
  BY OnboardingInitially DEF Init
<1> QED BY <1>1, OnboardingStep, PTL DEF Spec

(* The rows, connections, handlers and jobs of a point are well typed      *)
(* (lifecycle.ts, credentials.ts, db-registry.ts, persistence.ts).         *)
THEOREM PointTypes == ASSUME OnboardingAssumption PROVE Spec => []OnboardingTypeOK
<1>1. OnboardingInv => OnboardingTypeOK
  BY DEF OnboardingInv
<1> QED BY <1>1, OnboardingAlways, PTL

(* Only an approved point is shown in the app, and only of an approved     *)
(* point does a connection let drivers charge, however old what a login or *)
(* a boot read of it (transitionLifecycle, db-registry.ts, gateway.ts).    *)
THEOREM OnlyApprovedPoints == ASSUME OnboardingAssumption PROVE Spec => []ApprovedOnly
<1>1. OnboardingInv => ApprovedOnly
  BY DEF OnboardingInv, NoneBillsBefore, ApprovedOnly, BillsOnlyIfApproved, Approved
<1> QED BY <1>1, OnboardingAlways, PTL

-----------------------------------------------------------------------------
Todos == SUBSET (Key \X Value)
Reports == Answers
OpRec ==
  [kind : {None, "apply", "detect", "override"},
   pc : {"idle", "get", "persist", "judge", "change", "reset", "wait", "look", "configure", "calm", "alarm"},
   round : {0, 1, 2}, report : Reports, todo : Todos, slow : BOOLEAN]
RowRec == [desired : Value, observed : Value \cup {None}, readonly : BOOLEAN, override : BOOLEAN, refused : BOOLEAN]
DeviceRec == [active : [Key -> Value], pending : [Key -> Value \cup {None}], restarting : BOOLEAN]

ConfigTypeOK ==
  /\ template \in Template
  /\ row \in [Key -> RowRec]
  /\ device \in DeviceRec
  /\ reported \in Reports
  /\ op \in [Op -> OpRec]

(* What the rows hold, at each point of an operation, of the last answer   *)
(* of the charger: the keys it has, and no other.                          *)
ReadBack ==
  \A o \in Op :
    /\ op[o].pc = "persist" => op[o].report = reported
    /\ op[o].pc = "judge" => \A k \in Key \cap DOMAIN reported : row[k].observed = reported[k]
    /\ op[o].pc \in {"look", "configure"} => \A k \in Key \ Optional : row[k].readonly \/ Verified(k)

(* Operations on the point are not mixed.                                  *)
OneOp == \A o, q \in Op : o = q

LEMMA IdleOpIsTyped == IdleOp \in OpRec /\ IdleOp.pc = "idle" /\ NoAnswer \in Reports
<1>1. NoAnswer \in [{} -> Value \cup {None}] /\ {} \in SUBSET Key /\ {} \in Todos
  BY DEF NoAnswer, Todos
<1>2. NoAnswer \in Reports
  BY <1>1 DEF Reports, Answers
<1> QED BY <1>1, <1>2 DEF IdleOp, OpRec

LEMMA SeededIsTyped ==
  ASSUME CommissioningAssumption, ConfigTypeOK, NEW t \in Template
  PROVE  Seeded(t) \in [Key -> RowRec]
<1>1. t \in [Key -> Value]
  BY DEF CommissioningAssumption
<1>2. ASSUME NEW k \in Key
      PROVE  row[k] \in RowRec /\ [row[k] EXCEPT !.desired = t[k]] \in RowRec
  <2>1. row[k] \in RowRec /\ t[k] \in Value
    BY <1>1 DEF ConfigTypeOK
  <2> QED BY <2>1 DEF RowRec
<1> QED BY <1>2 DEF Seeded

LEMMA ObeysIsTyped ==
  ASSUME ConfigTypeOK, NEW k \in Key, NEW v \in Value, Obeys(k, v)
  PROVE  device' \in DeviceRec
BY DEF ConfigTypeOK, DeviceRec, Obeys

LEMMA ConfigInitially ==
  ASSUME CommissioningAssumption, Init
  PROVE  ConfigTypeOK /\ ReadBack
<1>1. \A k \in Key : template[k] \in Value
  BY DEF Init, CommissioningAssumption
<1>2. NoValues \in [Key -> Value \cup {None}]
  BY DEF NoValues
<1> QED BY <1>1, <1>2, IdleOpIsTyped DEF Init, ConfigTypeOK, ReadBack, RowRec, DeviceRec, CommissioningAssumption

(* An operation becomes one of its records.                                *)
LEMMA OpBecomes ==
  ASSUME ConfigTypeOK, NEW o \in Op, NEW now \in OpRec, op' = [op EXCEPT ![o] = now]
  PROVE  op' \in [Op -> OpRec] /\ op'[o] = now
BY DEF ConfigTypeOK

LEMMA OpRecords ==
  ASSUME NEW r \in OpRec
  PROVE  \A pc \in {"get", "persist", "judge", "change", "reset", "wait", "look", "configure", "calm", "alarm"} :
           [r EXCEPT !.pc = pc] \in OpRec /\ [r EXCEPT !.pc = pc].pc = pc
BY DEF OpRec

-----------------------------------------------------------------------------
(* What a step must do: types always, the readings while it is alone.      *)
ConfigKept == ConfigTypeOK' /\ (OneOp /\ ReadBack => ReadBack')

LEMMA OpBeginnings ==
  ASSUME NEW r \in OpRec, NEW k \in Key, NEW v \in Value
  PROVE  [r EXCEPT !.kind = "override", !.pc = "change", !.todo = {<<k, v>>}] \in OpRec
<1>1. {<<k, v>>} \in Todos
  BY DEF Todos
<1> QED BY <1>1 DEF OpRec

LEMMA OpReadings ==
  ASSUME NEW r \in OpRec
  PROVE  /\ [r EXCEPT !.kind = "apply", !.pc = "get", !.round = 1] \in OpRec
         /\ [r EXCEPT !.kind = "detect", !.pc = "get", !.round = 2] \in OpRec
         /\ [r EXCEPT !.pc = "get", !.round = 2] \in OpRec
         /\ [r EXCEPT !.pc = "judge", !.round = 2] \in OpRec
<1>1. [r EXCEPT !.kind = "apply", !.pc = "get", !.round = 1] \in OpRec
  BY DEF OpRec
<1>2. [r EXCEPT !.kind = "detect", !.pc = "get", !.round = 2] \in OpRec
  BY DEF OpRec
<1>3. [r EXCEPT !.pc = "get", !.round = 2] \in OpRec
  BY DEF OpRec
<1>4. [r EXCEPT !.pc = "judge", !.round = 2] \in OpRec
  BY DEF OpRec
<1> QED BY <1>1, <1>2, <1>3, <1>4

(* A step of an operation that leads neither to a judgement nor to a look. *)
LEMMA PlainStep ==
  ASSUME ConfigTypeOK, NEW o \in Op, NEW now \in OpRec, op' = [op EXCEPT ![o] = now],
         now.pc \notin {"persist", "judge", "look", "configure"},
         template' \in Template, row' \in [Key -> RowRec], device' \in DeviceRec, reported' = reported
  PROVE  ConfigKept
BY OpBecomes DEF ConfigKept, ConfigTypeOK, ReadBack, OneOp

LEMMA BeginsKeeps ==
  ASSUME CommissioningAssumption, ConfigTypeOK, NEW o \in Op, OpBegins(o)
  PROVE  ConfigKept
<1> USE CommissioningAssumption
<1>a. IdleOp \in OpRec /\ UNCHANGED reported
  BY IdleOpIsTyped, Zenon DEF OpBegins, ApplyTemplate, DetectDrift, SetOverride, AssignTemplate
<1>1. CASE ApplyTemplate(o)
  <2> DEFINE now == [IdleOp EXCEPT !.kind = "apply", !.pc = "get", !.round = 1]
  <2>1. op' = [op EXCEPT ![o] = now] /\ row' = Seeded(template) /\ UNCHANGED <<template, device>>
    BY <1>1 DEF ApplyTemplate, Begin
  <2>2. now \in OpRec /\ now.pc = "get"
    <3>1. IdleOp \in OpRec /\ now \in OpRec
      BY <1>a, OpReadings, Zenon
    <3> QED BY <3>1 DEF OpRec
  <2>3. template \in Template
    BY DEF ConfigTypeOK
  <2> HIDE DEF now
  <2> QED BY <1>a, <2>1, <2>2, <2>3, SeededIsTyped, PlainStep DEF ConfigTypeOK
<1>2. CASE DetectDrift(o)
  <2> DEFINE now == [IdleOp EXCEPT !.kind = "detect", !.pc = "get", !.round = 2]
  <2>1. op' = [op EXCEPT ![o] = now] /\ UNCHANGED <<template, row, device>>
    BY <1>2 DEF DetectDrift, Begin
  <2>2. now \in OpRec /\ now.pc = "get"
    <3>1. IdleOp \in OpRec /\ now \in OpRec
      BY <1>a, OpReadings, Zenon
    <3> QED BY <3>1 DEF OpRec
  <2> HIDE DEF now
  <2> QED BY <1>a, <2>1, <2>2, PlainStep DEF ConfigTypeOK
<1>3. ASSUME NEW k \in Key, NEW v \in Value, SetOverride(o, k, v)
      PROVE  ConfigKept
  <2> DEFINE now == [IdleOp EXCEPT !.kind = "override", !.pc = "change", !.todo = {<<k, v>>}]
             new == [row[k] EXCEPT !.desired = v, !.override = TRUE]
  <2>1. op' = [op EXCEPT ![o] = now] /\ row' = [row EXCEPT ![k] = new] /\ UNCHANGED <<template, device>>
    BY <1>3 DEF SetOverride, Begin
  <2>2. now \in OpRec /\ now.pc = "change"
    <3>1. IdleOp \in OpRec /\ now \in OpRec
      BY <1>a, OpBeginnings, Zenon
    <3> QED BY <3>1 DEF OpRec
  <2>3. row[k] \in RowRec
    BY DEF ConfigTypeOK
  <2>4. new \in RowRec
    BY <2>3 DEF RowRec
  <2> HIDE DEF now, new
  <2>5. row' \in [Key -> RowRec]
    BY <2>1, <2>4 DEF ConfigTypeOK
  <2> QED BY <1>a, <2>1, <2>2, <2>5, PlainStep DEF ConfigTypeOK
<1>4. ASSUME NEW t \in Template, AssignTemplate(o, t)
      PROVE  ConfigKept
  <2>1. op' = [op EXCEPT ![o] = IdleOp] /\ row' = Seeded(t) /\ template' = t /\ UNCHANGED device
    BY <1>4 DEF AssignTemplate, Begin
  <2> QED BY <1>a, <2>1, IdleOpIsTyped, SeededIsTyped, PlainStep DEF ConfigTypeOK
<1> QED BY <1>1, <1>2, <1>3, <1>4 DEF OpBegins

(* persistObserved stores the keys of an answer, whichever they are.       *)
LEMMA ObservedIsTyped ==
  ASSUME ConfigTypeOK, NEW answer \in Reports
  PROVE  /\ Observed(answer) \in [Key -> RowRec]
         /\ \A k \in Key \cap DOMAIN answer : Observed(answer)[k].observed = answer[k]
<1>1. PICK had \in SUBSET Key : answer \in [had -> Value \cup {None}]
  BY DEF Reports, Answers
<1>2. ASSUME NEW k \in Key
      PROVE  /\ Observed(answer)[k] \in RowRec
             /\ k \in DOMAIN answer => Observed(answer)[k].observed = answer[k]
  <2>1. row[k] \in RowRec
    BY DEF ConfigTypeOK
  <2>2. CASE k \in DOMAIN answer
    <3>1. answer[k] \in Value \cup {None} /\ (k \in ReadOnly) \in BOOLEAN
      BY <1>1, <2>2
    <3>2. Observed(answer)[k] = [row[k] EXCEPT !.observed = answer[k], !.readonly = k \in ReadOnly]
      BY <2>2 DEF Observed
    <3> DEFINE r == row[k]
               v == answer[k]
               fixed == k \in ReadOnly
               new == [r EXCEPT !.observed = v, !.readonly = fixed]
    <3>3. r \in RowRec /\ v \in Value \cup {None} /\ fixed \in BOOLEAN
      BY <2>1, <3>1
    <3>4. Observed(answer)[k] = new
      BY <3>2
    <3> HIDE DEF r, v, fixed
    <3>5. new \in RowRec /\ new.observed = v
      BY <3>3 DEF RowRec
    <3> HIDE DEF new
    <3> QED BY <3>4, <3>5 DEF v
  <2>3. CASE k \notin DOMAIN answer
    BY <2>1, <2>3 DEF Observed
  <2> QED BY <2>2, <2>3
<1>3. Observed(answer) = [k \in Key |-> Observed(answer)[k]]
  BY DEF Observed
<1> QED BY <1>2, <1>3

LEMMA ReadingKeeps ==
  ASSUME CommissioningAssumption, ConfigTypeOK, NEW o \in Op, Gets(o) \/ GetFails(o) \/ Persists(o)
  PROVE  ConfigKept
<1> USE CommissioningAssumption
<1>a. op[o] \in OpRec /\ device.active \in [Key -> Value]
  BY DEF ConfigTypeOK, DeviceRec
<1>1. ASSUME NEW had \in SUBSET Key, reported' = Answer(had), Gets(o)
      PROVE  ConfigKept
  <2> DEFINE now == [op[o] EXCEPT !.pc = "persist", !.report = reported']
  <2>1. op' = [op EXCEPT ![o] = now] /\ UNCHANGED <<template, row, device>>
    BY <1>1 DEF Gets
  <2>2. reported' \in Reports
    <3>1. Answer(had) \in [had -> Value \cup {None}]
      BY <1>a DEF Answer
    <3> QED BY <1>1, <3>1 DEF Reports, Answers
  <2>3. now \in OpRec /\ now.pc = "persist" /\ now.report = reported'
    BY <1>a, <2>2 DEF OpRec
  <2> HIDE DEF now
  <2> QED BY <2>1, <2>2, <2>3, OpBecomes DEF ConfigKept, ConfigTypeOK, ReadBack, OneOp
<1>2. CASE GetFails(o)
  BY <1>2, IdleOpIsTyped, PlainStep DEF GetFails, ConfigTypeOK
<1>3. CASE Persists(o)
  <2> DEFINE now == [op[o] EXCEPT !.pc = "judge", !.report = NoAnswer]
             answer == op[o].report
  <2>1. /\ op' = [op EXCEPT ![o] = now]
        /\ row' = Observed(answer)
        /\ op[o].pc = "persist" /\ UNCHANGED <<template, device, reported>>
    BY <1>3 DEF Persists
  <2>2. now \in OpRec /\ now.pc = "judge"
    BY <1>a, IdleOpIsTyped DEF OpRec
  <2>3. answer \in Reports
    BY <1>a DEF OpRec
  <2> HIDE DEF now, answer
  <2>4. row' \in [Key -> RowRec] /\ \A k \in Key \cap DOMAIN answer : row'[k].observed = answer[k]
    BY <2>1, <2>3, ObservedIsTyped
  <2>5. ReadBack => answer = reported
    BY <2>1 DEF ReadBack, answer
  <2> QED BY <2>1, <2>2, <2>4, <2>5, OpBecomes DEF ConfigKept, ConfigTypeOK, ReadBack, OneOp
<1> QED BY <1>1, <1>2, <1>3 DEF Gets

(* What was read is judged: nothing that blocks differs if a look follows. *)
LEMMA JudgesKeeps ==
  ASSUME CommissioningAssumption, ConfigTypeOK, NEW o \in Op, Judges(o)
  PROVE  ConfigKept
<1>a. op[o] \in OpRec /\ row \in [Key -> RowRec]
  BY DEF ConfigTypeOK
<1>b. op[o].pc = "judge" /\ UNCHANGED <<template, row, device, reported>>
  BY DEF Judges
<1>1. CASE AfterDrift(o) = "idle"
  <2>1. op' = [op EXCEPT ![o] = IdleOp]
    BY <1>1 DEF Judges
  <2> QED BY <1>b, <2>1, IdleOpIsTyped, PlainStep DEF ConfigTypeOK
<1>2. CASE AfterDrift(o) = "change"
  <2> DEFINE now == [op[o] EXCEPT !.pc = "change", !.todo = ToChange]
  <2>1. op' = [op EXCEPT ![o] = now]
    BY <1>2 DEF Judges
  <2>2. ToChange \in Todos
    BY <1>a DEF ToChange, Todos, Drift, RowRec
  <2>3. now \in OpRec /\ now.pc = "change"
    BY <1>a, <2>2 DEF OpRec
  <2> HIDE DEF now
  <2> QED BY <1>b, <2>1, <2>3, PlainStep DEF ConfigTypeOK
<1>3. CASE AfterDrift(o) \in {"calm", "alarm", "look"}
  <2> DEFINE pc == AfterDrift(o)
             now == [op[o] EXCEPT !.pc = pc]
  <2>1. op' = [op EXCEPT ![o] = now]
    BY <1>3 DEF Judges
  <2>2. now \in OpRec /\ now.pc = pc
    <3>1. pc \in {"calm", "alarm", "look"}
      BY <1>3
    <3> HIDE DEF pc
    <3> QED BY <1>a, <3>1 DEF OpRec
  <2>3. pc = "look" => \A k \in Key \ Optional : row[k].readonly \/ k \notin Drift
    <3>1. pc = "look" => Blocking(Drift) = {}
      BY DEF AfterDrift
    <3>2. Drift \subseteq Key
      BY DEF Drift
    <3> QED BY <3>1, <3>2 DEF Blocking
  <2>4. ReadBack /\ pc = "look" => \A k \in Key \ Optional : row[k].readonly \/ Verified(k)
    <3> SUFFICES ASSUME ReadBack, pc = "look", NEW k \in Key \ Optional, ~row[k].readonly
                 PROVE  Verified(k)
      OBVIOUS
    <3>1. row[k].desired # None /\ k \notin Drift
      <4>1. row[k].desired \in Value /\ None \notin Value
        BY <1>a DEF RowRec, CommissioningAssumption
      <4> QED BY <2>3, <4>1
    <3>2. row[k].observed = row[k].desired
      BY <3>1 DEF Drift
    <3>3. k \in DOMAIN reported => row[k].observed = reported[k]
      BY <1>b DEF ReadBack
    <3> QED BY <3>2, <3>3 DEF Verified
  <2> HIDE DEF now, pc
  <2> QED BY <1>b, <1>3, <2>1, <2>2, <2>4, OpBecomes DEF ConfigKept, ConfigTypeOK, ReadBack, OneOp, Verified, pc
<1> QED BY <1>1, <1>2, <1>3 DEF AfterDrift

LEMMA ChangingKeeps ==
  ASSUME CommissioningAssumption, ConfigTypeOK, NEW o \in Op, NEW k \in Key, NEW v \in Value,
         ChangesKey(o, k, v) \/ ChangeIsLost(o, k, v)
  PROVE  ConfigKept
<1>a. op[o] \in OpRec /\ row[k] \in RowRec
  BY DEF ConfigTypeOK
<1>b. op[o].pc = "change" /\ UNCHANGED <<template, reported>>
  BY Zenon DEF ChangesKey, ChangeIsLost
<1>c. op[o].todo \ {<<k, v>>} \in Todos
  BY <1>a DEF OpRec, Todos
<1> DEFINE left == Sent(o, k, v)
           slowly == [left EXCEPT !.slow = @ \/ k \in SlowKey]
<1>d. left \in OpRec /\ left.pc = "change"
  BY <1>a, <1>b, <1>c DEF OpRec, Sent
<1>e. slowly \in OpRec /\ slowly.pc = "change"
  <2> HIDE DEF left
  <2> QED BY <1>d DEF OpRec
<1>1. CASE ChangeIsLost(o, k, v)
  <2>1. op' = [op EXCEPT ![o] = left] /\ UNCHANGED row
    BY <1>1 DEF ChangeIsLost
  <2>2. device' \in DeviceRec
    BY <1>1, ObeysIsTyped DEF ChangeIsLost, ConfigTypeOK
  <2> HIDE DEF left
  <2> QED BY <1>b, <1>d, <2>1, <2>2, PlainStep DEF ConfigTypeOK
<1>2. CASE ChangesKey(o, k, v)
  <2> DEFINE obeyed == [row[k] EXCEPT !.observed = v, !.refused = FALSE]
  <2>1. CASE Obeys(k, v) /\ row' = [row EXCEPT ![k] = obeyed] /\ op' = [op EXCEPT ![o] = slowly]
    <3>1. obeyed \in RowRec
      BY <1>a DEF RowRec
    <3> HIDE DEF obeyed, slowly
    <3>2. row' \in [Key -> RowRec]
      BY <2>1, <3>1 DEF ConfigTypeOK
    <3> QED BY <1>b, <1>e, <2>1, <3>2, ObeysIsTyped, PlainStep DEF ConfigTypeOK
  <2>2. ASSUME NEW unknown \in BOOLEAN, row' = [row EXCEPT ![k].refused = unknown],
               op' = [op EXCEPT ![o] = left], UNCHANGED device
        PROVE  ConfigKept
    <3>1. [row[k] EXCEPT !.refused = unknown] \in RowRec
      BY <1>a DEF RowRec
    <3>2. row' \in [Key -> RowRec]
      BY <2>2, <3>1 DEF ConfigTypeOK
    <3> HIDE DEF left
    <3> QED BY <1>b, <1>d, <2>2, <3>2, PlainStep DEF ConfigTypeOK
  <2>3. CASE /\ \E unknown \in BOOLEAN : row' = [row EXCEPT ![k].refused = unknown]
             /\ op' = [op EXCEPT ![o] = left] /\ UNCHANGED device
    BY <2>2, <2>3
  <2> QED BY <1>2, <2>1, <2>3, Zenon DEF ChangesKey
<1> QED BY <1>1, <1>2

LEMMA RestartingKeeps ==
  ASSUME CommissioningAssumption, ConfigTypeOK, NEW o \in Op,
         ChangeFindsNobody(o) \/ ChangesEnd(o) \/ Resets(o) \/ WaitEnds(o)
  PROVE  ConfigKept
<1>a. op[o] \in OpRec /\ UNCHANGED <<template, row, reported>>
  BY Zenon DEF ConfigTypeOK, ChangeFindsNobody, ChangesEnd, Resets, WaitEnds
<1>b. /\ SecondReading(o) \in OpRec /\ SecondReading(o).pc = "get"
      /\ IdleOp \in OpRec /\ IdleOp.pc = "idle"
  BY <1>a, IdleOpIsTyped DEF SecondReading, OpRec
<1> DEFINE reset == [op[o] EXCEPT !.pc = "reset"]
           wait == [op[o] EXCEPT !.pc = "wait"]
<1>c. reset \in OpRec /\ reset.pc = "reset" /\ wait \in OpRec /\ wait.pc = "wait"
  BY <1>a DEF OpRec
<1>1. \/ op' = [op EXCEPT ![o] = IdleOp] \/ op' = [op EXCEPT ![o] = SecondReading(o)]
      \/ op' = [op EXCEPT ![o] = reset] \/ op' = [op EXCEPT ![o] = wait]
  <2>1. CASE ChangeFindsNobody(o)
    BY <2>1 DEF ChangeFindsNobody
  <2>2. CASE ChangesEnd(o)
    BY <2>2 DEF ChangesEnd
  <2>3. CASE Resets(o)
    BY <2>3 DEF Resets
  <2>4. CASE WaitEnds(o)
    BY <2>4 DEF WaitEnds
  <2> QED BY <2>1, <2>2, <2>3, <2>4
<1>2. device' \in DeviceRec
  BY DEF ConfigTypeOK, DeviceRec, ChangeFindsNobody, ChangesEnd, Resets, WaitEnds
<1>3. template' \in Template /\ row' \in [Key -> RowRec]
  BY <1>a DEF ConfigTypeOK
<1> HIDE DEF reset, wait
<1> QED BY <1>a, <1>b, <1>c, <1>1, <1>2, <1>3, PlainStep

(* The operation makes the point CONFIGURED by what it saw in its look.    *)
LEMMA LookingKeeps ==
  ASSUME CommissioningAssumption, ConfigTypeOK, NEW o \in Op, Looks(o) \/ Configures(o) \/ EndsWithAlarm(o)
  PROVE  ConfigKept
<1>a. op[o] \in OpRec /\ UNCHANGED <<template, row, device, reported>>
  BY Zenon DEF ConfigTypeOK, Looks, Configures, EndsWithAlarm, onboardingVars
<1> DEFINE calm == [op[o] EXCEPT !.pc = "calm"]
           configure == [op[o] EXCEPT !.pc = "configure"]
<1>b. /\ calm \in OpRec /\ calm.pc = "calm" /\ configure \in OpRec /\ configure.pc = "configure"
      /\ IdleOp \in OpRec /\ IdleOp.pc = "idle"
  BY <1>a, IdleOpIsTyped DEF OpRec
<1>1. \/ op' = [op EXCEPT ![o] = IdleOp] \/ op' = [op EXCEPT ![o] = calm]
      \/ op' = [op EXCEPT ![o] = configure] /\ op[o].pc = "look"
  <2>1. CASE Looks(o)
    BY <2>1 DEF Looks
  <2>2. CASE Configures(o)
    BY <2>2 DEF Configures
  <2>3. CASE EndsWithAlarm(o)
    BY <2>3 DEF EndsWithAlarm
  <2> QED BY <2>1, <2>2, <2>3
<1> HIDE DEF calm, configure
<1>2. CASE op' = [op EXCEPT ![o] = IdleOp] \/ op' = [op EXCEPT ![o] = calm]
  BY <1>a, <1>b, <1>2, PlainStep DEF ConfigTypeOK
<1>3. CASE op' = [op EXCEPT ![o] = configure] /\ op[o].pc = "look"
  BY <1>a, <1>b, <1>3, OpBecomes DEF ConfigKept, ConfigTypeOK, ReadBack, OneOp, Verified
<1> QED BY <1>1, <1>2, <1>3

LEMMA ElsewhereKeeps ==
  ASSUME ConfigTypeOK, UNCHANGED configVars \/ Restarts
  PROVE  ConfigKept
<1>1. UNCHANGED <<template, row, reported, op>>
  BY DEF configVars, Restarts
<1>2. device' \in DeviceRec
  <2>1. CASE Restarts
    BY <2>1 DEF Restarts, ConfigTypeOK, DeviceRec, NoValues
  <2>2. CASE UNCHANGED configVars
    BY <2>2 DEF configVars, ConfigTypeOK
  <2> QED BY <2>1, <2>2
<1> QED BY <1>1, <1>2 DEF ConfigKept, ConfigTypeOK, ReadBack, Verified

LEMMA ConfigStep ==
  ASSUME CommissioningAssumption, ConfigTypeOK, [Next]_vars
  PROVE  ConfigKept
<1>1. ASSUME NEW o \in Op, OpStep(o)
      PROVE  ConfigKept
  BY <1>1, ReadingKeeps, JudgesKeeps, ChangingKeeps, RestartingKeeps, LookingKeeps DEF OpStep
<1>2. UNCHANGED vars => UNCHANGED configVars
  BY DEF vars
<1> QED BY <1>1, <1>2, BeginsKeeps, ElsewhereKeeps DEF Next

(* Every reachable state is well typed, for any number of keys, values,    *)
(* operations and boots (commissioning.ts and what Onboarding models).     *)
THEOREM CommissioningTypes ==
  ASSUME OnboardingAssumption, CommissioningAssumption
  PROVE  Spec => []TypeOK
<1>1. Init => ConfigTypeOK
  BY ConfigInitially
<1>2. ConfigTypeOK /\ [Next]_vars => ConfigTypeOK'
  BY ConfigStep DEF ConfigKept
<1>3. OnboardingTypeOK /\ ConfigTypeOK => TypeOK
  BY DEF TypeOK, ConfigTypeOK, RowRec, DeviceRec, OpRec, Reports, Todos
<1> QED BY <1>1, <1>2, <1>3, PointTypes, PTL DEF Spec

(* While operations on a point are not mixed, whichever keys the answers   *)
(* of its charger have: when applyTemplate makes the point CONFIGURED, the *)
(* last answer had the desired value of every key of it that blocks, and a *)
(* key that it left out counts with its row, where what changeKey was only *)
(* promised is among the values (commissioning.ts).                        *)
THEOREM ConfiguredAgreesWithAnswer ==
  ASSUME CommissioningAssumption, OneOp
  PROVE  Spec => ConfiguredWasReported
<1> DEFINE Inv == ConfigTypeOK /\ ReadBack
           Step == \A o \in Op : op[o].pc = "configure" /\ op'[o].pc = "calm"
                     => \A k \in Key \ Optional : row[k].readonly \/ Verified(k)
<1>1. Init => Inv
  BY ConfigInitially
<1>2. Inv /\ [Next]_vars => Inv'
  BY ConfigStep DEF ConfigKept
<1>3. Inv => Step
  BY DEF ReadBack
<1>4. Spec => [][Step]_vars
  <2> HIDE DEF Inv, Step
  <2> QED BY <1>1, <1>2, <1>3, PTL DEF Spec
<1> QED BY <1>4 DEF ConfiguredWasReported
=============================================================================
