---------------------------- MODULE Commissioning ---------------------------
(***************************************************************************)
(* CommissioningService (packages/csms/src/commissioning.ts): the          *)
(* configuration a charger should have, the one it last said it has, and   *)
(* the one it has.  An operation is split at the commands it sends and at  *)
(* the statements it awaits; Onboarding goes on around it.                 *)
(*                                                                         *)
(* A key takes effect at once, or (SlowKey) when the charger restarts.  An *)
(* answer to GetConfiguration may leave any of them out (such as those     *)
(* beyond GetConfigurationMaxKeys).                                        *)
(***************************************************************************)
EXTENDS Onboarding

CONSTANTS
  Op,          \* operations that may be running at once
  Key,         \* configuration keys
  SlowKey,     \* those a charger applies when it restarts
  Optional,    \* those the template calls optional
  ReadOnly,    \* those the charger says are read-only
  WriteOnly,   \* those it gives no value for
  Value,
  Template,    \* the templates: functions from keys to values
  Factory      \* how the charger is configured when it comes

ASSUME CommissioningAssumption ==
  /\ SlowKey \subseteq Key /\ Optional \subseteq Key /\ ReadOnly \cup WriteOnly \subseteq Key
  /\ Template \subseteq [Key -> Value]
  /\ None \notin Value /\ None \notin Template
  /\ Factory \in [Key -> Value]

VARIABLES
  template,    \* charge_point.config_template_id: a template
  row,         \* [Key -> [desired, observed, readonly, override, refused]]:
               \* charge_point_config
  device,      \* [active, pending, restarting]: what runs on the charger
  reported,    \* its last answer to GetConfiguration: a value, or None, for
               \* each key it has
  op           \* [Op -> [kind, pc, round, report, todo, slow]]

quietVars == <<rowVars, charger, conn, login, issue, boot, watch>>
configVars == <<template, row, device, reported, op>>
vars == <<onboardingVars, configVars>>

NoValues == [k \in Key |-> None]
NoAnswer == [k \in {} |-> None]
IdleOp == [kind |-> None, pc |-> "idle", round |-> 0, report |-> NoAnswer, todo |-> {}, slow |-> FALSE]

Init ==
  /\ OnboardingInit
  /\ template \in Template
  /\ row = [k \in Key |-> [desired |-> template[k], observed |-> None, readonly |-> FALSE,
                           override |-> FALSE, refused |-> FALSE]]
  /\ device = [active |-> Factory, pending |-> NoValues, restarting |-> FALSE]
  /\ reported = NoAnswer
  /\ op = [o \in Op |-> IdleOp]

-----------------------------------------------------------------------------
(* seedDesiredConfiguration: an override stays.                            *)
Seeded(t) == [k \in Key |-> IF row[k].override THEN row[k] ELSE [row[k] EXCEPT !.desired = t[k]]]

(* The drift column of charge_point_config, and isBlocking.                *)
Drift == {k \in Key : row[k].desired # None /\ row[k].observed # row[k].desired}

Blocking(d) == {k \in d \ Optional : ~row[k].readonly}

Begin(o, what) ==
  /\ op[o].pc = "idle"
  /\ Spend("ops")
  /\ op' = [op EXCEPT ![o] = what]

(* applyTemplate, detectDrift, setOverride and assignTemplate begin.       *)
ApplyTemplate(o) ==
  /\ Begin(o, [IdleOp EXCEPT !.kind = "apply", !.pc = "get", !.round = 1])
  /\ row' = Seeded(template)
  /\ UNCHANGED <<quietVars, template, device, reported>>

DetectDrift(o) ==
  /\ Begin(o, [IdleOp EXCEPT !.kind = "detect", !.pc = "get", !.round = 2])
  /\ UNCHANGED <<quietVars, template, row, device, reported>>

SetOverride(o, k, v) ==
  /\ Begin(o, [IdleOp EXCEPT !.kind = "override", !.pc = "change", !.todo = {<<k, v>>}])
  /\ row' = [row EXCEPT ![k] = [@ EXCEPT !.desired = v, !.override = TRUE]]
  /\ UNCHANGED <<quietVars, template, device, reported>>

AssignTemplate(o, t) ==
  /\ Begin(o, IdleOp)
  /\ template' = t
  /\ row' = Seeded(t)
  /\ UNCHANGED <<quietVars, device, reported>>

-----------------------------------------------------------------------------
(* syncConfiguration: GetConfiguration, persistObserved, readDrift.        *)
Answer(had) == [k \in had |-> IF k \in WriteOnly THEN None ELSE device.active[k]]

Gets(o) ==
  /\ op[o].pc = "get"
  /\ conn # None
  /\ \E had \in SUBSET Key : reported' = Answer(had)
  /\ op' = [op EXCEPT ![o] = [@ EXCEPT !.pc = "persist", !.report = reported']]
  /\ UNCHANGED <<onboardingVars, template, row, device>>

(* No answer, or an error: the operation throws.                           *)
GetFails(o) ==
  /\ op[o].pc = "get"
  /\ op' = [op EXCEPT ![o] = IdleOp]
  /\ UNCHANGED <<onboardingVars, template, row, device, reported>>

(* persistObserved: the keys of the answer; the others keep what they had, *)
(* be it what the charger only promised (changeKey).                       *)
Observed(answer) ==
  [k \in Key |->
     IF k \in DOMAIN answer
     THEN [row[k] EXCEPT !.observed = answer[k], !.readonly = k \in ReadOnly] ELSE row[k]]

Persists(o) ==
  /\ op[o].pc = "persist"
  /\ row' = Observed(op[o].report)
  /\ point' = [point EXCEPT !.quiet = FALSE]
  /\ op' = [op EXCEPT ![o] = [@ EXCEPT !.pc = "judge", !.report = NoAnswer]]
  /\ UNCHANGED <<cred, alarm, charger, conn, login, issue, boot, watch, spent,
                 template, device, reported>>

(* What applyTemplate sends after the first reading.                       *)
ToChange ==
  {<<k, row[k].desired>> :
     k \in {k \in Drift : ~row[k].readonly /\ ~ (k \in Optional /\ row[k].refused)}}

AfterDrift(o) ==
  CASE op[o].kind = "detect" -> IF Drift = {} THEN "calm" ELSE "alarm"
    [] op[o].kind = "apply" /\ op[o].round = 2 -> IF Blocking(Drift) = {} THEN "look" ELSE "idle"
    [] OTHER -> "change"

Judges(o) ==
  LET pc == AfterDrift(o) IN
  /\ op[o].pc = "judge"
  /\ op' = [op EXCEPT ![o] = CASE pc = "idle" -> IdleOp
                               [] pc = "change" -> [@ EXCEPT !.pc = pc, !.todo = ToChange]
                               [] OTHER -> [@ EXCEPT !.pc = pc]]
  /\ UNCHANGED <<onboardingVars, template, row, device, reported>>

-----------------------------------------------------------------------------
(* changeKey.  The charger applies the value, or keeps it for its restart, *)
(* or refuses it.                                                          *)
Obeys(k, v) ==
  /\ k \notin ReadOnly
  /\ device' = IF k \in SlowKey THEN [device EXCEPT !.pending[k] = v] ELSE [device EXCEPT !.active[k] = v]

Sent(o, k, v) == [op[o] EXCEPT !.todo = @ \ {<<k, v>>}]

ChangesKey(o, k, v) ==
  /\ op[o].pc = "change" /\ <<k, v>> \in op[o].todo
  /\ conn # None
  /\ \/ /\ Obeys(k, v)
        /\ row' = [row EXCEPT ![k] = [@ EXCEPT !.observed = v, !.refused = FALSE]]
        /\ op' = [op EXCEPT ![o] = [Sent(o, k, v) EXCEPT !.slow = @ \/ k \in SlowKey]]
     \/ /\ \E unknown \in BOOLEAN : row' = [row EXCEPT ![k].refused = unknown]
        /\ op' = [op EXCEPT ![o] = Sent(o, k, v)]
        /\ UNCHANGED device
  /\ UNCHANGED <<onboardingVars, template, reported>>

(* An error answer, or none in time though the charger may have obeyed.    *)
ChangeIsLost(o, k, v) ==
  /\ op[o].pc = "change" /\ <<k, v>> \in op[o].todo
  /\ UNCHANGED device \/ (conn # None /\ Obeys(k, v))
  /\ op' = [op EXCEPT ![o] = Sent(o, k, v)]
  /\ UNCHANGED <<onboardingVars, template, row, reported>>

(* NOT_CONNECTED ends applyTemplate.                                       *)
ChangeFindsNobody(o) ==
  /\ op[o].pc = "change" /\ op[o].todo # {}
  /\ conn = None
  /\ op' = [op EXCEPT ![o] = IdleOp]
  /\ UNCHANGED <<onboardingVars, template, row, device, reported>>

(* Mutant: what the charger accepted need not be read again.               *)
SecondReadingSkipped(o) == [op[o] EXCEPT !.pc = "judge", !.round = 2]

SecondReading(o) == [op[o] EXCEPT !.pc = "get", !.round = 2]

ChangesEnd(o) ==
  /\ op[o].pc = "change" /\ op[o].todo = {}
  /\ op' = [op EXCEPT ![o] = CASE op[o].kind = "override" -> IdleOp
                               [] op[o].kind = "apply" /\ op[o].slow -> [@ EXCEPT !.pc = "reset"]
                               [] OTHER -> SecondReading(o)]
  /\ UNCHANGED <<onboardingVars, template, row, device, reported>>

(* Reset(Soft) is accepted or not; waitForReboot ends with the new         *)
(* connection or with its time.  The second reading follows all the same.  *)
Resets(o) ==
  /\ op[o].pc = "reset"
  /\ \/ /\ conn # None
        /\ device' = [device EXCEPT !.restarting = TRUE]
        /\ op' = [op EXCEPT ![o].pc = "wait"]
     \/ UNCHANGED device /\ op' = [op EXCEPT ![o] = SecondReading(o)]
  /\ UNCHANGED <<onboardingVars, template, row, reported>>

WaitEnds(o) ==
  /\ op[o].pc = "wait"
  /\ op' = [op EXCEPT ![o] = SecondReading(o)]
  /\ UNCHANGED <<onboardingVars, template, row, device, reported>>

-----------------------------------------------------------------------------
(* applyTemplate reads the point, and moves it if it is pending.           *)
Looks(o) ==
  /\ op[o].pc = "look"
  /\ op' = [op EXCEPT ![o].pc = IF point.life = "CONNECTED_PENDING" THEN "configure" ELSE "calm"]
  /\ UNCHANGED <<onboardingVars, template, row, device, reported>>

Configures(o) ==
  /\ op[o].pc = "configure"
  /\ \/ MovesTo("CONFIGURED") /\ op' = [op EXCEPT ![o].pc = "calm"]
     \/ Conflicts("CONFIGURED") /\ op' = [op EXCEPT ![o] = IdleOp] /\ UNCHANGED <<point, cred>>
  /\ UNCHANGED <<alarm, charger, conn, login, issue, boot, watch, spent,
                 template, row, device, reported>>

(* The alarm of drift is raised or resolved.                               *)
EndsWithAlarm(o) ==
  /\ op[o].pc \in {"calm", "alarm"}
  /\ IF op[o].pc = "alarm" THEN Raise("drift", "WARNING") ELSE Resolve("drift")
  /\ op' = [op EXCEPT ![o] = IdleOp]
  /\ UNCHANGED <<point, cred, charger, conn, login, issue, boot, watch, spent,
                 template, row, device, reported>>

-----------------------------------------------------------------------------
(* The charger restarts, because it was told to or by itself.              *)
Restarts ==
  /\ (device.restarting /\ UNCHANGED spent) \/ Spend("faults")
  /\ device' = [active |-> [k \in Key |-> IF device.pending[k] = None THEN device.active[k]
                                          ELSE device.pending[k]],
                pending |-> NoValues, restarting |-> FALSE]
  /\ IF conn = None THEN UNCHANGED <<conn, boot, point>> ELSE Lost
  /\ UNCHANGED <<cred, alarm, charger, login, issue, watch, template, row, reported, op>>

OpBegins(o) ==
  \/ ApplyTemplate(o) \/ DetectDrift(o)
  \/ \E k \in Key, v \in Value : SetOverride(o, k, v)
  \/ \E t \in Template : AssignTemplate(o, t)

OpStep(o) ==
  \/ Gets(o) \/ GetFails(o) \/ Persists(o) \/ Judges(o)
  \/ \E k \in Key, v \in Value : ChangesKey(o, k, v) \/ ChangeIsLost(o, k, v)
  \/ ChangeFindsNobody(o) \/ ChangesEnd(o) \/ Resets(o) \/ WaitEnds(o)
  \/ Looks(o) \/ Configures(o) \/ EndsWithAlarm(o)

AroundStep ==
  \/ IssueReads \/ IssueWrites \/ IssueMoves \/ ChargerIsReplaced
  \/ LoginReads \/ LoginSucceeds \/ Drop \/ GatewayDies
  \/ \E b \in Boot : BootStep(b)
  \/ TestSessionEnds
  \/ \E l \in Lifecycle : StaffMoves(l)
  \/ \E k \in AlarmKind : StaffResolves(k)
  \/ GraceEnds \/ WatchStep

Next ==
  \/ AroundStep /\ UNCHANGED configVars
  \/ Restarts
  \/ \E o \in Op : OpBegins(o) \/ OpStep(o)

Spec == Init /\ [][Next]_vars

(* The worker runs its watch every few seconds; time passes; a command is  *)
(* answered or times out.                                                  *)
FairSpec ==
  /\ Spec
  /\ WF_vars(WatchStep /\ UNCHANGED configVars)
  /\ WF_vars(GraceEnds /\ UNCHANGED configVars)
  /\ \A o \in Op : WF_vars(OpStep(o))

-----------------------------------------------------------------------------
Answers == UNION {[had -> Value \cup {None}] : had \in SUBSET Key}

TypeOK ==
  /\ OnboardingTypeOK
  /\ template \in Template
  /\ row \in [Key -> [desired : Value, observed : Value \cup {None}, readonly : BOOLEAN,
                     override : BOOLEAN, refused : BOOLEAN]]
  /\ device \in [active : [Key -> Value], pending : [Key -> Value \cup {None}], restarting : BOOLEAN]
  /\ reported \in Answers
  /\ op \in [Op -> [kind : {None, "apply", "detect", "override"},
                   pc : {"idle", "get", "persist", "judge", "change", "reset", "wait", "look",
                         "configure", "calm", "alarm"},
                   round : 0 .. 2, report : Answers,
                   todo : SUBSET (Key \X Value), slow : BOOLEAN]]

(* applyTemplate makes a point CONFIGURED only if its charger, asked anew  *)
(* after the changes, told the desired value of every key of its answer    *)
(* that blocks: not one that it accepted for after its restart, provided   *)
(* operations on the same point are not mixed.  A key that the answer does *)
(* not have is not known to be so: it counts with what changeKey or an     *)
(* earlier answer left in the row.                                         *)
Verified(k) == row[k].desired = IF k \in DOMAIN reported THEN reported[k] ELSE row[k].observed

ConfiguredWasReported ==
  [][\A o \in Op : op[o].pc = "configure" /\ op'[o].pc = "calm"
        => \A k \in Key \ Optional : row[k].readonly \/ Verified(k)]_vars

(* The alarm of a point that is down is raised while it stays so, and      *)
(* ended once the point is back (the worker's watch, which acts on rows    *)
(* and alarms it read earlier), as long as the point is in operation.      *)
(* Down is what the row says: a pod that dies leaves `connected` TRUE, and *)
(* no alarm follows until a gateway writes it.                             *)
OfflineAlarmFollows ==
  LET Down == point.life = "OPERATIONAL" /\ ~ point.connected /\ point.quiet
      Back == point.life = "OPERATIONAL" /\ point.connected
      Open == alarm["offline"] # None
  IN  /\ Down ~> (Open \/ ~ Down)
      /\ (Back /\ Open) ~> ~ (Back /\ Open)

=============================================================================
