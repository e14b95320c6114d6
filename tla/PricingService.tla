--------------------------- MODULE PricingService ---------------------------
(***************************************************************************)
(* PricingService (packages/csms/src/pricing) on one session: the cost     *)
(* that runs with every reading, the settlement of the ended session and   *)
(* the recalculations, with the readings, states and stops that            *)
(* TransactionService records in whatever order the charger sends them.    *)
(* The cost is the TariffEngine's.                                         *)
(***************************************************************************)
EXTENDS TariffEngine

CONSTANTS
  Plans,        \* the tariffs a snapshot may freeze
  Frozen,       \* the snapshots sessions start with: tariffs, or None
  Start,        \* when the transaction started
  MaxTime, LastStop, \* the last instant, and the last for a stop
  MaxWh,        \* the readings of the register are 0 .. MaxWh
  MaxReadings, MaxStatus, \* how many the charger sends
  MaxDelay,     \* how late a message of the charger is
  Reasons,      \* the reasons it gives for a stop
  IdleTimeout,  \* session.idle_settle_timeout_s
  SettleDelay   \* session.settle_delay_s

ASSUME PricingAssumption ==
  /\ {MaxTime, LastStop, MaxWh, MaxReadings, MaxStatus, MaxDelay, IdleTimeout, SettleDelay} \subseteq Nat
  /\ Start \in Nat \ {0}
  /\ Plans \subseteq PlanSet /\ None \notin Plans /\ None \notin Nat
  /\ Frozen \subseteq Plans \cup {None}
  /\ Reasons \subseteq {"Local", "EVDisconnected", "PowerLoss"}

VARIABLES
  clock,
  plan,        \* session_tariff_snapshot, or None
  events,      \* what buildSessionEvents finds
  phase,       \* "RUNNING" (charging or suspended), "ENDED", "SETTLED"
  ended,       \* ended_at, stop_reason and end_kind
  idleEnd,     \* idle_ended_at, or None
  energy,      \* energy_wh
  running,     \* the total of running_cost, or None
  alerted,     \* the exposure alerts given
  calcs,       \* session_cost_calc: the input and the result of each
  final,       \* final_calc_id: which of them, 0 before there is one
  charged,     \* total_minor of the session
  error        \* pricing_error, or None

inputVars == <<plan, events, phase, ended, idleEnd>>
costVars == <<energy, running, alerted>>
resultVars == <<calcs, final, charged, error>>
vars == <<clock, inputVars, costVars, resultVars>>

Event(kind, ts, wh, info) == [kind |-> kind, ts |-> ts, wh |-> wh, info |-> info]

MeterStart == 0

Init ==
  /\ clock = Start
  /\ plan \in Frozen
  /\ events = {Event("TX_START", Start, MeterStart, NoInfo)}
  /\ phase = "RUNNING"
  /\ ended = [at |-> 0, reason |-> NoInfo, kind |-> NoInfo]
  /\ idleEnd = None
  /\ energy = 0 /\ running = None /\ alerted = {}
  /\ calcs = <<>> /\ final = 0 /\ charged = None /\ error = None

Tick ==
  /\ clock < MaxTime
  /\ clock' = clock + 1
  /\ UNCHANGED <<inputVars, costVars, resultVars>>

-----------------------------------------------------------------------------
(* Mutant: the cost runs from the last reading alone.                      *)
KnownLast(ts, wh) ==
  {e \in events : e.kind # "METER"} \cup {Event("METER", ts, wh, NoInfo)}

Known(ts, wh) == events \cup {Event("METER", ts, wh, NoInfo)}

(* The session takes the reading as its last, whatever its state is and    *)
(* whenever the reading was taken.                                         *)
UpdateSessionSample(wh) == energy' = Larger(0, wh - MeterStart)

(* The cost with the reading, and the alerts not given yet.                *)
OnSample(ts, wh) ==
  \E cost \in {IF plan = None THEN Failed ELSE Compute(plan, Known(ts, wh), "RUNNING", clock)} :
    IF cost.ok THEN running' = cost.total /\ alerted' = alerted \cup cost.alerts
    ELSE UNCHANGED <<running, alerted>>

(* recordMeterValues, on time, late or after the stop: the reading is      *)
(* stored, and the session updated in the same transaction.                *)
RecordMeterValues(ts, wh) ==
  /\ Cardinality(OfKind(events, "METER")) < MaxReadings
  /\ ts <= clock /\ MetersAt([events |-> events], ts) = {}
  /\ events' = events \cup {Event("METER", ts, wh, NoInfo)}
  /\ UpdateSessionSample(wh)
  /\ OnSample(ts, wh)
  /\ UNCHANGED <<clock, plan, phase, ended, idleEnd, resultVars>>

(* StatusNotification of a session that runs.                              *)
LastStatus == StatusAt([events |-> events, start |-> Start, end |-> clock + 1], clock)

Status(s) ==
  /\ phase = "RUNNING"
  /\ Cardinality(OfKind(events, "STATUS")) < MaxStatus
  /\ clock > Start /\ \A e \in OfKind(events, "STATUS") : e.ts < clock
  /\ s # LastStatus
  /\ events' = events \cup {Event("STATUS", clock, 0, s)}
  /\ UNCHANGED <<clock, plan, phase, ended, idleEnd, costVars, resultVars>>

(* endSession: the stop, and the end of the idle time when it is known     *)
(* with it.                                                                *)
Ends(ts, wh, reason, kind) ==
  LET left == reason = "EVDisconnected" \/ kind = "ESTIMATED" IN
  /\ phase = "RUNNING" /\ clock <= LastStop
  /\ phase' = "ENDED"
  /\ ended' = [at |-> ts, reason |-> reason, kind |-> kind]
  /\ idleEnd' = IF left THEN ts ELSE idleEnd
  /\ events' = events \cup {Event("TX_STOP", ts, wh, reason)}
                 \cup (IF left THEN {Event("IDLE_END", ts, 0, NoInfo)} ELSE {})
  /\ energy' = Larger(0, wh - MeterStart)
  /\ UNCHANGED <<clock, plan, running, alerted, resultVars>>

StopTransaction(ts, wh, reason) == ts <= clock /\ Ends(ts, wh, reason, "NORMAL")

(* closeEstimated: the stop is the last reading there is.                  *)
CloseEstimated ==
  LET meters == OfKind(events, "METER")
      last == CHOOSE e \in meters : \A f \in meters : f.ts <= e.ts
  IN IF meters = {} THEN Ends(clock, MeterStart, "Other", "ESTIMATED")
     ELSE Ends(last.ts, last.wh, "Other", "ESTIMATED")

(* Mutant: of a session that is settled too.                               *)
MayEndIdleLate == phase \in {"ENDED", "SETTLED"} /\ idleEnd = None

MayEndIdle == phase = "ENDED" /\ idleEnd = None

(* endIdle: the connector is free, now, or another transaction started on  *)
(* it, when the charger says; it may say so of before the stop.            *)
EndIdle(ts) ==
  /\ MayEndIdle
  /\ idleEnd' = ts
  /\ events' = events \cup {Event("IDLE_END", ts, 0, NoInfo)}
  /\ UNCHANGED <<clock, plan, phase, ended, costVars, resultVars>>

-----------------------------------------------------------------------------
WaitsForIdleEnd(p) ==
  /\ ElementsOf(p, "PARKING_TIME") # {}
  /\ p.idle.start # "SUSPENDED_EV"
  /\ ended.reason \notin NoIdleReasons \cup {"EVDisconnected"}
  /\ ended.kind = "NORMAL"

(* compute and persistCalc, and the totals of the session.                 *)
Price(p, input) ==
  \E result \in {Compute(p, input, "FINAL", clock)} :
    IF result.ok
    THEN /\ phase' = "SETTLED"
         /\ calcs' = Append(calcs, [input |-> input, result |-> result])
         /\ final' = Len(calcs) + 1
         /\ charged' = result.total
         /\ error' = None
    ELSE error' = "ENGINE" /\ UNCHANGED <<phase, calcs, final, charged>>

(* Mutant: the end of the idle time is waited for without a timeout.       *)
TimedOutNever == FALSE

TimedOut == clock >= ended.at + IdleTimeout

(* settle: of the snapshot, or one made now.  The end of the idle time is  *)
(* waited for when the tariff charges it; in the end it is the last that   *)
(* was seen of the charger.                                                *)
Settle(force) ==
  /\ phase = "ENDED"
  /\ \E p \in IF plan = None THEN Plans ELSE {plan} :
       LET closes == ~force /\ WaitsForIdleEnd(p) /\ idleEnd = None IN
       /\ closes => TimedOut
       /\ \E t \in IF closes THEN ended.at .. clock ELSE {idleEnd} :
            LET known == events \cup (IF closes THEN {Event("IDLE_END", t, 0, NoInfo)} ELSE {})
                ready == force \/ clock >= (IF t = None THEN ended.at ELSE t) + SettleDelay
            IN
            /\ plan' = p
            /\ idleEnd' = t
            /\ events' = known
            /\ IF ready THEN Price(p, known) ELSE UNCHANGED <<phase, resultVars>>
  /\ UNCHANGED <<clock, ended, costVars>>

(* No tariff is in force for a session without a snapshot.                 *)
NoTariff ==
  /\ phase = "ENDED" /\ plan = None
  /\ error' = "NO_TARIFF"
  /\ UNCHANGED <<clock, inputVars, costVars, calcs, final, charged>>

(* Mutant: every recalculation is a new one.                               *)
AlreadyNever(input) == FALSE

(* The calculation of the same input, if there is one.                     *)
Already(input) == \E i \in DOMAIN calcs : calcs[i].input = input

(* recalculate: a late reading or a dispute.                               *)
Recalculate ==
  /\ phase = "SETTLED"
  /\ ~Already(events)
  /\ \E result \in {Compute(plan, events, "FINAL", clock)} :
       /\ result.ok
       /\ calcs' = Append(calcs, [input |-> events, result |-> result])
       /\ charged' = result.total
  /\ final' = Len(calcs) + 1
  /\ UNCHANGED <<clock, inputVars, costVars, error>>

-----------------------------------------------------------------------------
Timestamps == {ts \in clock - MaxDelay .. clock : ts >= Start}

Reading == \E ts \in Timestamps, wh \in 0 .. MaxWh : RecordMeterValues(ts, wh)

Stop == \E ts \in Timestamps, wh \in 0 .. MaxWh, reason \in Reasons : StopTransaction(ts, wh, reason)

IdleEnds == \E ts \in Timestamps : EndIdle(ts)

Next ==
  \/ Tick
  \/ Reading
  \/ \E s \in {"Charging", "SuspendedEV", "SuspendedEVSE"} : Status(s)
  \/ Stop \/ CloseEstimated \/ IdleEnds
  \/ \E force \in BOOLEAN : Settle(force)
  \/ NoTariff
  \/ Recalculate

Spec == Init /\ [][Next]_vars

(* The worker's settlePending comes back for as long as the session is     *)
(* ENDED, and time passes.  The weak fairness of Settle is written out:    *)
(* the session is not ready again and again, or it is settled.             *)
Ready ==
  /\ phase = "ENDED" /\ error = None
  /\ \A p \in IF plan = None THEN Plans ELSE {plan} :
       IF WaitsForIdleEnd(p) /\ idleEnd = None THEN TimedOut
       ELSE clock >= (IF idleEnd = None THEN ended.at ELSE idleEnd) + SettleDelay

SettleFairness == []<>(~Ready) \/ []<><<Settle(FALSE)>>_vars

FairSpec == Spec /\ WF_vars(Tick) /\ SettleFairness

-----------------------------------------------------------------------------
EventSet ==
  [kind : {"TX_START", "METER", "STATUS", "TX_STOP", "IDLE_END"}, ts : Nat, wh : Nat,
   info : {NoInfo, "Charging", "SuspendedEV", "SuspendedEVSE", "Other"} \cup Reasons]

TypeOK ==
  /\ clock \in Nat
  /\ plan \in Plans \cup {None}
  /\ events \subseteq EventSet
  /\ phase \in {"RUNNING", "ENDED", "SETTLED"}
  /\ ended.at \in Nat /\ ended.kind \in {NoInfo, "NORMAL", "ESTIMATED"}
  /\ idleEnd \in Nat \cup {None}
  /\ energy \in Nat
  /\ running \in Nat \cup {None}
  /\ alerted \subseteq {"PREAUTH_WARN", "PREAUTH_EXHAUSTED"}
  /\ \A c \in ToSet(calcs) : c.input \subseteq EventSet
  /\ final \in 0 .. Len(calcs)
  /\ charged \in Nat \cup {None}
  /\ error \in {None, "NO_TARIFF", "ENGINE"}

Results == {c.result : c \in ToSet(calcs)}
StopOf(input) == TheOne(OfKind(input, "TX_STOP"))

(* TAR 7.2.1: the energy that is billed, element by element, is what the   *)
(* register counted from start to stop, whatever readings came between,    *)
(* were lost, came late or went back, if the stop is later than the start; *)
(* and no element bills more than lies between its thresholds.             *)
EnergyAddsUp ==
  \A c \in ToSet(calcs) :
    LET lines == {l \in c.result.lines : l.dim = "ENERGY"}
        counted == StopOf(c.input).wh - MeterStart
        Tier(l) == plan.elements[l.el].restr
    IN StopOf(c.input).ts > Start =>
         /\ SumFunction([l \in lines |-> l.raw]) = counted /\ c.result.energy = counted
         /\ \A l \in lines : l.el # 0 => l.raw <= Tier(l).maxWh - Tier(l).minWh

(* What the messages say of an instant: the vehicle does not take energy,  *)
(* as the last status told, or stays after a stop that may be billed, as   *)
(* nothing has told that it left, and the tariff counts that kind.         *)
Idles(input, t) ==
  LET stop == StopOf(input)
      told == {e \in OfKind(input, "STATUS") : Start < e.ts /\ e.ts <= t}
  IN /\ stop.info \notin NoIdleReasons
     /\ IF t < stop.ts
        THEN /\ plan.idle.start # "TRANSACTION_END"
             /\ \E e \in told : e.info = "SuspendedEV" /\ \A f \in told : f.ts <= e.ts
        ELSE /\ plan.idle.start # "SUSPENDED_EV" /\ stop.info # "EVDisconnected"
             /\ \A e \in OfKind(input, "IDLE_END") : stop.ts <= e.ts => t < e.ts

(* TAR 3.6: whatever order the states, the stop and the end of the idle    *)
(* time come in, an instant billed as idle is not billed as charging, the  *)
(* vehicle was idle then and all through the grace before it, and no more  *)
(* is billed than the maximum.                                             *)
Ticks(intervals) == UNION {v[1] .. v[2] - 1 : v \in intervals}

IdleIsIdle ==
  \A c \in ToSet(calcs) :
    /\ \A t \in Ticks(c.result.billable) :
         /\ t \notin Ticks(c.result.charging)
         /\ \A u \in t - plan.idle.grace .. t : Idles(c.input, u)
    /\ Cardinality(Ticks(c.result.billable)) <= plan.idle.max

(* TAR 7.2.5: what is charged respects the ceiling and the floor of the    *)
(* tariff, with the tax when they are given with it and without it when    *)
(* not, and is never negative.                                             *)
TotalIsBounded ==
  \A r \in Results :
    /\ plan.max.incl # None => r.total <= plan.max.incl
    /\ plan.max.incl = None /\ plan.max.excl # None => r.subtotal <= plan.max.excl
    /\ plan.min.incl # None => r.total >= plan.min.incl
    /\ plan.min.incl = None /\ plan.min.excl # None => r.subtotal >= plan.min.excl
    /\ r.total >= 0

(* The calculations of a session differ in what they were made from, and   *)
(* the session has the total of the last.  Once it is settled only a       *)
(* reading can make that one stale: the states, the stop and the end of    *)
(* the idle time do not change any more.                                   *)
FinalIsCurrent ==
  /\ \A i, j \in DOMAIN calcs : calcs[i].input = calcs[j].input => i = j
  /\ phase = "SETTLED" =>
       /\ final = Len(calcs) /\ final > 0 /\ charged = calcs[final].result.total
       /\ \A e \in events \ calcs[final].input : e.kind = "METER"

(* TAR 7.2.2: what the driver sees while the session runs never goes down, *)
(* from one reading to the next in the charger's order, even when the      *)
(* register goes back.                                                     *)
InOrder == \A e \in events : e.kind = "METER" => \A f \in events' \ events : e.ts < f.ts

RunningNeverFalls ==
  [][phase = "RUNNING" /\ running # None /\ running' # running /\ InOrder => running' > running]_vars

(* DAT: energy_wh of a settled session is the energy it was billed for.    *)
SessionEnergyIsBilled == phase = "SETTLED" => energy = calcs[final].result.energy

(* A session that ended gets its price, or an error for the operators.     *)
(* This is one session: settlePending takes the oldest 200 that are ENDED, *)
(* and its loop catches nothing, so that sessions that fail again and      *)
(* again may keep it from the later ones.                                  *)
EndedIsPriced == phase = "ENDED" ~> phase = "SETTLED" \/ error # None
=============================================================================
