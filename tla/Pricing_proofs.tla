--------------------------- MODULE Pricing_proofs ---------------------------
(***************************************************************************)
(* What is proved of PricingService and of the cost that TariffEngine      *)
(* makes, for every tariff, sequence of events and delay: the calculation  *)
(* in force is the last and only readings can make it stale; what is       *)
(* billed as idle was idle by the messages, with its grace, and is not     *)
(* billed as charging; the energy that is billed is what the register      *)
(* counted; and the total is within the limits of a tariff whose limits    *)
(* agree.                                                                  *)
(*                                                                         *)
(* After the invariant of the session come the instants that are billed,   *)
(* the readings and the curve of the energy between them, its parts and    *)
(* their lines, the lines of the time, what lines amount to, their tax,    *)
(* the adjustments and the limits.                                         *)
(***************************************************************************)
EXTENDS PricingService, FiniteSums_proofs

USE PricingAssumption

-----------------------------------------------------------------------------
(* The inductive invariant                                                 *)

StartEvent == Event("TX_START", Start, MeterStart, NoInfo)

(* What a session's events are: its only start, at most a stop, nothing    *)
(* before the start or after now.                                          *)
WellFormed(input, now) ==
  /\ input \subseteq EventSet
  /\ \A e \in input : Start <= e.ts /\ e.ts <= now
  /\ OfKind(input, "TX_START") = {StartEvent}

StoppedOnce(input) == \E stop \in input : OfKind(input, "TX_STOP") = {stop}

CalcSet ==
  [input : SUBSET EventSet, result : {Compute(p, i, "FINAL", 0) : p \in Plans, i \in SUBSET EventSet}]

Types ==
  /\ clock \in Nat /\ Start <= clock
  /\ plan \in Plans \cup {None}
  /\ phase \in {"RUNNING", "ENDED", "SETTLED"}
  /\ idleEnd \in Nat \cup {None}
  /\ calcs \in Seq(CalcSet)

Recorded ==
  /\ WellFormed(events, clock)
  /\ phase = "RUNNING" => OfKind(events, "TX_STOP") = {}
  /\ phase # "RUNNING" => StoppedOnce(events) /\ ended.at \in Start .. clock

Computed ==
  /\ phase # "SETTLED" => calcs = <<>> /\ final = 0
  /\ phase = "SETTLED" => plan \in Plans
  /\ \A i \in DOMAIN calcs :
       /\ WellFormed(calcs[i].input, clock) /\ StoppedOnce(calcs[i].input)
       /\ calcs[i].result = Compute(plan, calcs[i].input, "FINAL", 0)
       /\ calcs[i].result.ok

PInv == Types /\ Recorded /\ Computed

-----------------------------------------------------------------------------
(* A final cost does not depend on when it is made.                        *)
LEMMA FinalIsTimeless ==
  ASSUME NEW p, NEW input, NEW now
  PROVE  Compute(p, input, "FINAL", now) = Compute(p, input, "FINAL", 0)
BY DEF Compute, Timeline

(* A session starts with its TX_START event and no calculation.            *)
LEMMA InitPInv == Init => PInv
<1> SUFFICES ASSUME Init PROVE PInv
  OBVIOUS
<1> USE DEF Init, Event, MeterStart
<1>1. Types
  BY DEF Types
<1>2. Recorded
  <2>1. StartEvent \in EventSet
    BY DEF EventSet, StartEvent
  <2> QED BY <2>1 DEF Recorded, WellFormed, OfKind, StartEvent
<1>3. Computed
  BY DEF Computed
<1> QED BY <1>1, <1>2, <1>3 DEF PInv

(* Events of other kinds, not before the start nor after now.              *)
LEMMA MoreEvents ==
  ASSUME NEW input, NEW now \in Nat, WellFormed(input, now), NEW more \in SUBSET EventSet,
         \A e \in more : e.kind # "TX_START" /\ Start <= e.ts /\ e.ts <= now
  PROVE  WellFormed(input \cup more, now)
BY DEF WellFormed, OfKind

(* Events of another kind do not change the stops.                         *)
LEMMA NoMoreStops ==
  ASSUME NEW input, NEW more, \A e \in more : e.kind # "TX_STOP"
  PROVE  /\ OfKind(input \cup more, "TX_STOP") = OfKind(input, "TX_STOP")
         /\ StoppedOnce(input) => StoppedOnce(input \cup more)
BY DEF OfKind, StoppedOnce

(* What is well formed now is well formed later.                           *)
LEMMA Later ==
  ASSUME NEW input, NEW now \in Nat, NEW then \in Nat, now <= then, WellFormed(input, now)
  PROVE  WellFormed(input, then)
BY DEF WellFormed, EventSet

(* Time passes.                                                            *)
LEMMA TickPInv == ASSUME PInv, Tick PROVE PInv'
<1> USE DEF Tick, PInv, inputVars, resultVars, costVars
<1>1. clock \in Nat /\ clock' = clock + 1
  BY DEF Types
<1>2. Types'
  BY <1>1 DEF Types
<1>3. Recorded'
  BY <1>1, Later DEF Recorded
<1>4. Computed'
  <2>1. calcs' = calcs /\ phase' = phase /\ plan' = plan /\ final' = final
    OBVIOUS
  <2>2. ASSUME NEW i \in DOMAIN calcs PROVE WellFormed(calcs[i].input, clock')
    BY <1>1, Later DEF Computed
  <2> QED BY <2>1, <2>2 DEF Computed
<1> QED BY <1>2, <1>3, <1>4

(* What an action that leaves the calculations alone has to show.          *)
LEMMA CalcsUnchanged ==
  ASSUME PInv, UNCHANGED <<clock, calcs, final>>, phase' = "SETTLED" <=> phase = "SETTLED",
         plan' = plan
  PROVE  Computed'
BY DEF PInv, Computed

(* A reading is between the start and now, on time or late.                *)
LEMMA ReadingPInv == ASSUME PInv, Reading PROVE PInv'
<1> PICK ts \in Timestamps, wh \in 0 .. MaxWh : RecordMeterValues(ts, wh)
  BY DEF Reading
<1> USE DEF RecordMeterValues, inputVars, resultVars
<1>1. clock \in Nat /\ ts \in Nat /\ Start <= ts /\ ts <= clock /\ wh \in Nat
  BY DEF PInv, Types, Timestamps
<1> DEFINE more == {Event("METER", ts, wh, NoInfo)}
<1>2. more \in SUBSET EventSet /\ \A e \in more : /\ e.kind = "METER"
                                                  /\ Start <= e.ts /\ e.ts <= clock
  BY <1>1 DEF Event, EventSet
<1>3. Types'
  BY DEF PInv, Types
<1>4. Recorded'
  BY <1>1, <1>2, MoreEvents, NoMoreStops DEF PInv, Recorded
<1>5. Computed'
  BY CalcsUnchanged
<1> QED BY <1>3, <1>4, <1>5 DEF PInv

(* A StatusNotification is recorded now.                                   *)
LEMMA StatusPInv == ASSUME PInv, NEW s \in {"Charging", "SuspendedEV", "SuspendedEVSE"}, Status(s) PROVE PInv'
<1> USE DEF Status, resultVars, costVars
<1> DEFINE more == {Event("STATUS", clock, 0, s)}
<1>1. clock \in Nat
  BY DEF PInv, Types
<1>2. more \in SUBSET EventSet /\ \A e \in more : e.kind = "STATUS" /\ Start <= e.ts /\ e.ts <= clock
  BY <1>1 DEF Event, EventSet
<1>3. Types'
  BY DEF PInv, Types
<1>4. Recorded'
  BY <1>1, <1>2, MoreEvents, NoMoreStops DEF PInv, Recorded
<1>5. Computed'
  BY CalcsUnchanged
<1> QED BY <1>3, <1>4, <1>5 DEF PInv

(* The session ends with the one stop there is.                            *)
LEMMA EndsPInv ==
  ASSUME PInv, NEW ts \in Nat, Start <= ts, ts <= clock, NEW wh \in Nat,
         NEW reason \in Reasons \cup {"Other"}, NEW kind, Ends(ts, wh, reason, kind)
  PROVE  PInv'
<1> DEFINE left == reason = "EVDisconnected" \/ kind = "ESTIMATED"
           stop == Event("TX_STOP", ts, wh, reason)
           idle == IF left THEN {Event("IDLE_END", ts, 0, NoInfo)} ELSE {}
<1>0. /\ phase = "RUNNING" /\ phase' = "ENDED" /\ ended'.at = ts
      /\ idleEnd' \in {ts, idleEnd}
      /\ events' = (events \cup {stop}) \cup idle
      /\ UNCHANGED <<clock, plan, calcs, final>>
  BY DEF Ends, resultVars
<1>1. clock \in Nat
  BY DEF PInv, Types
<1>2. stop \in EventSet /\ stop.kind = "TX_STOP" /\ stop.ts = ts
  BY DEF Event, EventSet
<1>3. idle \in SUBSET EventSet /\ \A e \in idle : e.kind = "IDLE_END" /\ e.ts = ts
  BY DEF Event, EventSet
<1> HIDE DEF stop, idle
<1>4. Types'
  BY <1>0 DEF PInv, Types
<1>5. WellFormed(events', clock)
  <2>1. WellFormed(events \cup {stop}, clock)
    BY <1>1, <1>2, MoreEvents DEF PInv, Recorded
  <2> QED BY <1>0, <1>1, <1>3, <2>1, MoreEvents
<1>6. StoppedOnce(events')
  <2>1. OfKind(events \cup {stop}, "TX_STOP") = {stop}
    BY <1>0, <1>2 DEF PInv, Recorded, OfKind
  <2>2. StoppedOnce(events \cup {stop})
    BY <2>1 DEF StoppedOnce
  <2> QED BY <1>0, <1>3, <2>2, NoMoreStops
<1>7. Recorded'
  BY <1>0, <1>1, <1>5, <1>6 DEF Recorded
<1>8. Computed'
  BY <1>0, CalcsUnchanged
<1> QED BY <1>4, <1>7, <1>8 DEF PInv

(* The last of the readings.                                               *)
LEMMA LastOf ==
  ASSUME NEW S \in SUBSET EventSet, S # {}, NEW n \in Nat, \A e \in S : e.ts <= n
  PROVE  \E e \in S : \A f \in S : f.ts <= e.ts
<1> DEFINE T == {e.ts : e \in S}
<1>1. T \in SUBSET Nat /\ T # {} /\ \A t \in T : t <= n
  BY DEF EventSet
<1>2. PICK t \in T : \A u \in T : u <= t
  <2> HIDE DEF T
  <2> QED BY <1>1, Greatest
<1> QED BY <1>2

(* StopTransaction ends it with the charger's stop, closeEstimated with    *)
(* the last reading.                                                       *)
LEMMA ItEnds ==
  ASSUME PInv, Stop \/ CloseEstimated
  PROVE  \E ts \in Start .. clock, wh \in Nat, reason \in Reasons \cup {"Other"}, kind \in {"NORMAL", "ESTIMATED"} :
           ts \in Nat /\ Ends(ts, wh, reason, kind)
<1> DEFINE meters == OfKind(events, "METER")
           last == CHOOSE e \in meters : \A f \in meters : f.ts <= e.ts
<1>0. clock \in Nat /\ Start <= clock /\ meters \in SUBSET EventSet
      /\ \A e \in meters : Start <= e.ts /\ e.ts <= clock
  BY DEF PInv, Types, Recorded, WellFormed, OfKind
<1>1. CASE Stop
  <2>1. PICK ts \in Timestamps, wh \in 0 .. MaxWh, reason \in Reasons : StopTransaction(ts, wh, reason)
    BY <1>1 DEF Stop
  <2>2. ts \in Nat /\ ts \in Start .. clock /\ wh \in Nat /\ Ends(ts, wh, reason, "NORMAL")
    BY <1>0, <2>1 DEF Timestamps, StopTransaction
  <2> QED BY <2>2
<1>2. CASE CloseEstimated /\ meters = {}
  <2>1. Ends(clock, MeterStart, "Other", "ESTIMATED")
    BY <1>2 DEF CloseEstimated
  <2> QED BY <1>0, <2>1 DEF MeterStart
<1>3. CASE CloseEstimated /\ meters # {}
  <2>1. last \in meters
    BY <1>0, <1>3, LastOf
  <2>2. Ends(last.ts, last.wh, "Other", "ESTIMATED")
    BY <1>3 DEF CloseEstimated
  <2>3. last.ts \in Nat /\ last.wh \in Nat /\ last.ts \in Start .. clock
    BY <1>0, <2>1 DEF EventSet
  <2> HIDE DEF last
  <2> QED BY <2>2, <2>3
<1> QED BY <1>1, <1>2, <1>3

LEMMA StopPInv == ASSUME PInv, Stop \/ CloseEstimated PROVE PInv'
<1>1. PICK ts \in Start .. clock, wh \in Nat, reason \in Reasons \cup {"Other"}, kind \in {"NORMAL", "ESTIMATED"} :
        ts \in Nat /\ Ends(ts, wh, reason, kind)
  BY ItEnds
<1>2. Start <= ts /\ ts <= clock
  BY DEF PInv, Types
<1> QED BY <1>1, <1>2, EndsPInv

(* The end of the idle time is recorded, now or as of a little before.     *)
LEMMA EndIdlePInv == ASSUME PInv, IdleEnds PROVE PInv'
<1> PICK ts \in Timestamps : EndIdle(ts)
  BY DEF IdleEnds
<1> USE DEF EndIdle, resultVars, costVars
<1> DEFINE more == {Event("IDLE_END", ts, 0, NoInfo)}
<1>1. clock \in Nat /\ Start <= clock /\ ts \in Nat /\ Start <= ts /\ ts <= clock
  BY DEF PInv, Types, Timestamps
<1>2. more \in SUBSET EventSet /\ \A e \in more : e.kind = "IDLE_END" /\ Start <= e.ts /\ e.ts <= clock
  BY <1>1 DEF Event, EventSet
<1>3. Types'
  BY <1>1 DEF PInv, Types
<1>4. Recorded'
  BY <1>1, <1>2, MoreEvents, NoMoreStops DEF PInv, Recorded
<1>5. Computed'
  BY CalcsUnchanged
<1> QED BY <1>3, <1>4, <1>5 DEF PInv

(* One more calculation: the calculations so far, and the last.            *)
LEMMA OneMore ==
  ASSUME NEW S, NEW seq \in Seq(S), NEW c \in S
  PROVE  /\ Append(seq, c) \in Seq(S) /\ Len(Append(seq, c)) = Len(seq) + 1
         /\ DOMAIN Append(seq, c) = 1 .. Len(seq) + 1
         /\ DOMAIN seq = 1 .. Len(seq) /\ Len(seq) \in Nat
         /\ \A i \in DOMAIN seq : Append(seq, c)[i] = seq[i]
         /\ Append(seq, c)[Len(seq) + 1] = c
OBVIOUS

(* A calculation of well-formed events keeps what Computed says.           *)
LEMMA MoreCalcs ==
  ASSUME PInv, NEW p \in Plans, NEW input, WellFormed(input, clock), StoppedOnce(input),
         \A i \in DOMAIN calcs : plan = p,
         Compute(p, input, "FINAL", 0).ok,
         plan' = p, phase' = "SETTLED", clock' = clock,
         calcs' = Append(calcs, [input |-> input, result |-> Compute(p, input, "FINAL", 0)])
  PROVE  calcs' \in Seq(CalcSet) /\ Computed'
<1> DEFINE r == Compute(p, input, "FINAL", 0)
           c == [input |-> input, result |-> r]
<1>1. c \in CalcSet /\ c.input = input /\ c.result = r
  BY DEF CalcSet, WellFormed
<1>2. calcs \in Seq(CalcSet) /\ calcs' = Append(calcs, c) /\ r.ok
  BY DEF PInv, Types
<1> HIDE DEF c, r
<1>3. /\ calcs' \in Seq(CalcSet) /\ DOMAIN calcs' = 1 .. Len(calcs) + 1
      /\ DOMAIN calcs = 1 .. Len(calcs) /\ Len(calcs) \in Nat
      /\ \A i \in DOMAIN calcs : calcs'[i] = calcs[i]
      /\ calcs'[Len(calcs) + 1] = c
  BY <1>1, <1>2, OneMore
<1>4. ASSUME NEW i \in DOMAIN calcs'
      PROVE  /\ WellFormed(calcs'[i].input, clock') /\ StoppedOnce(calcs'[i].input)
             /\ calcs'[i].result = Compute(plan', calcs'[i].input, "FINAL", 0)
             /\ calcs'[i].result.ok
  <2>1. CASE i = Len(calcs) + 1
    BY <1>1, <1>2, <1>3, <2>1 DEF r
  <2>2. CASE i # Len(calcs) + 1
    <3>1. i \in DOMAIN calcs /\ calcs'[i] = calcs[i]
      BY <1>3, <2>2
    <3> QED BY <3>1 DEF PInv, Computed
  <2> QED BY <2>1, <2>2
<1> QED BY <1>3, <1>4 DEF Computed

(* What the settlement makes of the events, and the price it may put.      *)
LEMMA SettleCases ==
  ASSUME PInv, NEW force \in BOOLEAN, Settle(force)
  PROVE  \E p \in Plans, known \in SUBSET EventSet :
           /\ WellFormed(known, clock) /\ StoppedOnce(known)
           /\ plan' = p /\ events' = known /\ idleEnd' \in Nat \cup {None}
           /\ events \subseteq known
           /\ phase = "ENDED" /\ UNCHANGED <<clock, ended>>
           /\ \/ UNCHANGED <<phase, calcs, final>>
              \/ /\ Compute(p, known, "FINAL", 0).ok
                 /\ phase' = "SETTLED"
                 /\ calcs' = Append(calcs, [input |-> known, result |-> Compute(p, known, "FINAL", 0)])
                 /\ final' = Len(calcs) + 1
                 /\ charged' = Compute(p, known, "FINAL", 0).total
<1>1. PICK p \in IF plan = None THEN Plans ELSE {plan} :
        LET closes == ~force /\ WaitsForIdleEnd(p) /\ idleEnd = None IN
        \E t \in IF closes THEN ended.at .. clock ELSE {idleEnd} :
            LET known == events \cup (IF closes THEN {Event("IDLE_END", t, 0, NoInfo)} ELSE {})
                ready == force \/ clock >= (IF t = None THEN ended.at ELSE t) + SettleDelay
            IN
            /\ plan' = p
            /\ idleEnd' = t
            /\ events' = known
            /\ IF ready THEN Price(p, known) ELSE UNCHANGED <<phase, resultVars>>
  BY DEF Settle
<1>2. p \in Plans
  BY DEF PInv, Types
<1> DEFINE closes == ~force /\ WaitsForIdleEnd(p) /\ idleEnd = None
<1>3. PICK t \in IF closes THEN ended.at .. clock ELSE {idleEnd} :
        LET known == events \cup (IF closes THEN {Event("IDLE_END", t, 0, NoInfo)} ELSE {})
            ready == force \/ clock >= (IF t = None THEN ended.at ELSE t) + SettleDelay
        IN
        /\ plan' = p
        /\ idleEnd' = t
        /\ events' = known
        /\ IF ready THEN Price(p, known) ELSE UNCHANGED <<phase, resultVars>>
  BY <1>1
<1> DEFINE more == IF closes THEN {Event("IDLE_END", t, 0, NoInfo)} ELSE {}
           known == events \cup more
<1>4. /\ plan' = p /\ idleEnd' = t /\ events' = known
      /\ Price(p, known) \/ UNCHANGED <<phase, resultVars>>
  BY <1>3
<1>5. phase = "ENDED" /\ UNCHANGED <<clock, ended>>
  BY DEF Settle
<1> HIDE DEF closes
<1>6. clock \in Nat /\ ended.at \in Start .. clock
  BY <1>5 DEF PInv, Types, Recorded
<1>7. t \in Nat \cup {None}
  BY <1>6 DEF PInv, Types
<1>8. more \in SUBSET EventSet /\ \A e \in more : e.kind = "IDLE_END" /\ Start <= e.ts /\ e.ts <= clock
  BY <1>6 DEF Event, EventSet
<1> HIDE DEF more
<1>9. WellFormed(known, clock) /\ StoppedOnce(known) /\ known \in SUBSET EventSet
  BY <1>5, <1>6, <1>8, MoreEvents, NoMoreStops DEF PInv, Recorded, WellFormed
<1>10. ASSUME Price(p, known)
       PROVE  \/ UNCHANGED <<phase, calcs, final>>
              \/ /\ Compute(p, known, "FINAL", 0).ok
                 /\ phase' = "SETTLED"
                 /\ calcs' = Append(calcs, [input |-> known, result |-> Compute(p, known, "FINAL", 0)])
                 /\ final' = Len(calcs) + 1
                 /\ charged' = Compute(p, known, "FINAL", 0).total
  <2>1. Compute(p, known, "FINAL", clock) = Compute(p, known, "FINAL", 0)
    BY FinalIsTimeless
  <2> HIDE DEF known
  <2> QED BY <1>10, <2>1 DEF Price
<1>11. UNCHANGED <<phase, resultVars>> => UNCHANGED <<phase, calcs, final>>
  BY DEF resultVars
<1>12. events \subseteq known
  OBVIOUS
<1> HIDE DEF known
<1> QED BY <1>2, <1>4, <1>5, <1>7, <1>9, <1>10, <1>11, <1>12

(* A settlement that cannot be made, or is not ready, leaves no            *)
(* calculation.                                                            *)
LEMMA SettlePInv == ASSUME PInv, NEW force \in BOOLEAN, Settle(force) PROVE PInv'
<1>1. PICK p \in Plans, known \in SUBSET EventSet :
           /\ WellFormed(known, clock) /\ StoppedOnce(known)
           /\ plan' = p /\ events' = known /\ idleEnd' \in Nat \cup {None}
           /\ events \subseteq known
           /\ phase = "ENDED" /\ UNCHANGED <<clock, ended>>
           /\ \/ UNCHANGED <<phase, calcs, final>>
              \/ /\ Compute(p, known, "FINAL", 0).ok
                 /\ phase' = "SETTLED"
                 /\ calcs' = Append(calcs, [input |-> known, result |-> Compute(p, known, "FINAL", 0)])
                 /\ final' = Len(calcs) + 1
                 /\ charged' = Compute(p, known, "FINAL", 0).total
  BY SettleCases
<1>2. Recorded'
  BY <1>1 DEF PInv, Types, Recorded
<1>3. calcs' \in Seq(CalcSet) /\ Computed' /\ phase' \in {"ENDED", "SETTLED"}
  <2>1. calcs = <<>> /\ final = 0 /\ calcs \in Seq(CalcSet)
    BY <1>1 DEF PInv, Types, Computed
  <2>2. CASE UNCHANGED <<phase, calcs, final>>
    BY <1>1, <2>1, <2>2 DEF Computed
  <2>3. CASE ~ UNCHANGED <<phase, calcs, final>>
    BY <1>1, <2>1, <2>3, MoreCalcs
  <2> QED BY <2>2, <2>3
<1>4. Types'
  BY <1>1, <1>3 DEF PInv, Types
<1> QED BY <1>2, <1>3, <1>4 DEF PInv

(* What recalculate does when it does anything.                            *)
LEMMA RecalculateCases ==
  ASSUME PInv, Recalculate
  PROVE  /\ phase = "SETTLED" /\ plan \in Plans
         /\ Compute(plan, events, "FINAL", 0).ok
         /\ calcs' = Append(calcs, [input |-> events, result |-> Compute(plan, events, "FINAL", 0)])
         /\ charged' = Compute(plan, events, "FINAL", 0).total
         /\ final' = Len(calcs) + 1
         /\ \A i \in DOMAIN calcs : calcs[i].input # events
         /\ UNCHANGED <<clock, plan, events, phase, ended, idleEnd>>
<1>1. Compute(plan, events, "FINAL", clock) = Compute(plan, events, "FINAL", 0)
  BY FinalIsTimeless
<1> QED BY <1>1 DEF Recalculate, Already, inputVars, PInv, Computed

(* A recalculation is made of the events there are.                        *)
LEMMA RecalculatePInv == ASSUME PInv, Recalculate PROVE PInv'
<1>1. /\ phase = "SETTLED" /\ plan \in Plans
      /\ Compute(plan, events, "FINAL", 0).ok
      /\ calcs' = Append(calcs, [input |-> events, result |-> Compute(plan, events, "FINAL", 0)])
      /\ UNCHANGED <<clock, plan, events, phase, ended, idleEnd>>
  BY RecalculateCases
<1>2. WellFormed(events, clock) /\ StoppedOnce(events)
  BY <1>1 DEF PInv, Recorded
<1>3. calcs' \in Seq(CalcSet) /\ Computed'
  BY <1>1, <1>2, MoreCalcs
<1>4. Types' /\ Recorded'
  BY <1>1, <1>3 DEF PInv, Types, Recorded
<1> QED BY <1>3, <1>4 DEF PInv

(* Without a tariff only the error is recorded.                            *)
LEMMA NoTariffPInv == ASSUME PInv, NoTariff PROVE PInv'
BY DEF NoTariff, inputVars, costVars, PInv, Types, Recorded, Computed

(* A step that changes nothing.                                            *)
LEMMA StutterPInv == ASSUME PInv, UNCHANGED vars PROVE PInv'
BY DEF vars, inputVars, costVars, resultVars, PInv, Types, Recorded, Computed

(* The invariant holds of every session.                                   *)
LEMMA PInvInvariant == Spec => []PInv
<1>1. ASSUME PInv, [Next]_vars PROVE PInv'
  <2>1. CASE Tick
    BY <1>1, <2>1, TickPInv
  <2>2. CASE Reading
    BY <1>1, <2>2, ReadingPInv
  <2>3. CASE \E s \in {"Charging", "SuspendedEV", "SuspendedEVSE"} : Status(s)
    BY <1>1, <2>3, StatusPInv
  <2>4. CASE Stop \/ CloseEstimated
    BY <1>1, <2>4, StopPInv
  <2>5. CASE IdleEnds
    BY <1>1, <2>5, EndIdlePInv
  <2>6. CASE \E force \in BOOLEAN : Settle(force)
    BY <1>1, <2>6, SettlePInv
  <2>7. CASE NoTariff
    BY <1>1, <2>7, NoTariffPInv
  <2>8. CASE Recalculate
    BY <1>1, <2>8, RecalculatePInv
  <2>9. CASE UNCHANGED vars
    BY <1>1, <2>9, StutterPInv
  <2> QED BY <1>1, <2>1, <2>2, <2>3, <2>4, <2>5, <2>6, <2>7, <2>8, <2>9 DEF Next
<1> QED BY <1>1, InitPInv, PTL DEF Spec

-----------------------------------------------------------------------------
(* The last calculation is the one in force                                *)

(* FinalIsCurrent is about the calculations, the events and the phase      *)
(* alone.                                                                  *)
LEMMA CurrentUnchanged ==
  ASSUME PInv, FinalIsCurrent, UNCHANGED <<calcs, final, charged>>,
         phase' = "SETTLED" => phase = "SETTLED",
         phase = "SETTLED" => \A e \in events' \ events : e.kind = "METER"
  PROVE  FinalIsCurrent'
<1>1. phase' = "SETTLED" => \A e \in events' \ calcs[final].input : e.kind = "METER"
  BY DEF FinalIsCurrent
<1> QED BY <1>1 DEF FinalIsCurrent

(* No step leaves a calculation in force that is not of the last events,   *)
(* but for the readings after it; none is made twice.                      *)
LEMMA CurrentNext ==
  ASSUME PInv, FinalIsCurrent, [Next]_vars
  PROVE  FinalIsCurrent'
<1>1. CASE Tick
  BY <1>1, CurrentUnchanged DEF Tick, inputVars, resultVars
<1>2. CASE Reading
  BY <1>2, CurrentUnchanged DEF Reading, RecordMeterValues, resultVars, Event
<1>3. CASE \E s \in {"Charging", "SuspendedEV", "SuspendedEVSE"} : Status(s)
  BY <1>3, CurrentUnchanged DEF Status, resultVars
<1>4. CASE Stop \/ CloseEstimated
  <2>1. phase = "RUNNING" /\ phase' = "ENDED" /\ UNCHANGED <<calcs, final, charged>>
    BY <1>4 DEF Stop, CloseEstimated, StopTransaction, Ends, resultVars
  <2> QED BY <2>1, CurrentUnchanged
<1>5. CASE IdleEnds
  BY <1>5, CurrentUnchanged DEF IdleEnds, EndIdle, MayEndIdle, resultVars
<1>6. ASSUME NEW force \in BOOLEAN, Settle(force) PROVE FinalIsCurrent'
  <2>1. PICK p \in Plans, known \in SUBSET EventSet :
           /\ events' = known /\ phase = "ENDED"
           /\ \/ UNCHANGED <<phase, calcs, final>>
              \/ /\ phase' = "SETTLED"
                 /\ calcs' = Append(calcs, [input |-> known, result |-> Compute(p, known, "FINAL", 0)])
                 /\ final' = Len(calcs) + 1
                 /\ charged' = Compute(p, known, "FINAL", 0).total
    BY <1>6, SettleCases
  <2>2. calcs = <<>> /\ final = 0
    BY <2>1 DEF PInv, Computed
  <2>3. CASE UNCHANGED <<phase, calcs, final>>
    BY <2>1, <2>2, <2>3 DEF FinalIsCurrent
  <2>4. CASE ~ UNCHANGED <<phase, calcs, final>>
    <3> DEFINE r == Compute(p, known, "FINAL", 0)
               c == [input |-> known, result |-> r]
    <3>1. calcs' = <<c>> /\ final' = 1 /\ charged' = r.total /\ c.input = known /\ c.result = r
      BY <2>1, <2>2, <2>4
    <3> HIDE DEF c, r
    <3>2. Len(calcs') = 1 /\ DOMAIN calcs' = {1} /\ calcs'[1] = c
      BY <3>1
    <3> QED BY <2>1, <3>1, <3>2 DEF FinalIsCurrent
  <2> QED BY <2>3, <2>4
<1>7. CASE NoTariff
  <2>1. phase = "ENDED" /\ UNCHANGED <<phase, calcs, final, charged>>
    BY <1>7 DEF NoTariff, inputVars
  <2> QED BY <2>1, CurrentUnchanged
<1>8. CASE Recalculate
  <2> DEFINE r == Compute(plan, events, "FINAL", 0)
             c == [input |-> events, result |-> r]
  <2>1. /\ phase = "SETTLED" /\ plan \in Plans
        /\ calcs' = Append(calcs, c)
        /\ charged' = r.total /\ final' = Len(calcs) + 1
        /\ \A i \in DOMAIN calcs : calcs[i].input # events
        /\ UNCHANGED <<phase, events>>
    BY <1>8, RecalculateCases
  <2>2. c \in CalcSet /\ calcs \in Seq(CalcSet) /\ c.input = events /\ c.result = r
    <3>1. plan \in Plans /\ events \in SUBSET EventSet /\ calcs \in Seq(CalcSet)
      BY <2>1 DEF PInv, Types, Recorded, WellFormed
    <3> QED BY <3>1 DEF CalcSet
  <2> HIDE DEF c, r
  <2>3. /\ Len(calcs') = Len(calcs) + 1 /\ Len(calcs) \in Nat
        /\ DOMAIN calcs' = 1 .. Len(calcs) + 1 /\ DOMAIN calcs = 1 .. Len(calcs)
        /\ \A i \in DOMAIN calcs : calcs'[i] = calcs[i]
        /\ calcs'[Len(calcs) + 1] = c
    BY <2>1, <2>2, OneMore
  <2>4. \A i, j \in DOMAIN calcs' : calcs'[i].input = calcs'[j].input => i = j
    <3> SUFFICES ASSUME NEW i \in DOMAIN calcs', NEW j \in DOMAIN calcs', i # j
                 PROVE  calcs'[i].input # calcs'[j].input
      OBVIOUS
    <3>1. CASE i \in DOMAIN calcs /\ j \in DOMAIN calcs
      BY <2>3, <3>1 DEF FinalIsCurrent
    <3>2. CASE i \notin DOMAIN calcs
      BY <2>1, <2>2, <2>3, <3>2
    <3>3. CASE j \notin DOMAIN calcs
      BY <2>1, <2>2, <2>3, <3>3
    <3> QED BY <3>1, <3>2, <3>3
  <2>5. /\ final' = Len(calcs') /\ final' > 0 /\ calcs'[final'] = c
        /\ charged' = calcs'[final'].result.total
        /\ \A e \in events' \ calcs'[final'].input : e.kind = "METER"
    BY <2>1, <2>2, <2>3
  <2> QED BY <2>4, <2>5 DEF FinalIsCurrent
<1>9. CASE UNCHANGED vars
  BY <1>9, CurrentUnchanged DEF vars, inputVars, resultVars
<1> QED BY <1>1, <1>2, <1>3, <1>4, <1>5, <1>6, <1>7, <1>8, <1>9 DEF Next

(* The session has the total of its last calculation, no two calculations  *)
(* of it are of the same events, and after the settlement only a reading   *)
(* can make the last one stale (settle, recalculate and persistCalc).      *)
THEOREM TheLastCostIsInForce == Spec => []FinalIsCurrent
<1>1. Init => FinalIsCurrent
  BY DEF Init, FinalIsCurrent
<1> QED BY <1>1, CurrentNext, PInvInvariant, PTL DEF Spec

-----------------------------------------------------------------------------
(* Idle time                                                               *)

(* The only element of a set.                                              *)
LEMMA Single == ASSUME NEW x PROVE TheOne({x}) = x
BY DEF TheOne

(* The transaction of a final cost: its start, and its only stop.          *)
IsFinal(tx, p, input, stop) ==
  /\ tx.plan = p /\ tx.events = input /\ tx.mode = "FINAL" /\ tx.stopped = TRUE
  /\ tx.start = Start /\ tx.meterStart = MeterStart
  /\ tx.end = stop.ts /\ tx.meterStop = stop.wh /\ tx.reason = stop.info
  /\ stop \in EventSet /\ tx.start \in Nat /\ tx.end \in Nat /\ tx.start <= tx.end

(* The instants of a transaction that was stopped.                         *)
LEMMA FinalTimeline ==
  ASSUME NEW p, NEW input, NEW n, WellFormed(input, n),
         NEW stop \in input, OfKind(input, "TX_STOP") = {stop}
  PROVE  IsFinal(Timeline(p, input, "FINAL", 0), p, input, stop)
<1> DEFINE tx == Timeline(p, input, "FINAL", 0)
           start == TheOne(OfKind(input, "TX_START"))
           stops == {e \in OfKind(input, "TX_STOP") : e.ts >= start.ts}
<1>1. start = StartEvent /\ start.ts = Start /\ start.wh = MeterStart
  <2>1. OfKind(input, "TX_START") = {StartEvent}
    BY DEF WellFormed
  <2>2. StartEvent.ts = Start /\ StartEvent.wh = MeterStart
    BY DEF StartEvent, Event
  <2> QED BY <2>1, <2>2, Single
<1>2. stop \in EventSet /\ stop.ts \in Nat /\ Start <= stop.ts
  BY DEF WellFormed, EventSet
<1>3. stops = {stop} /\ TheOne(stops) = stop
  BY <1>1, <1>2, Single
<1>4. /\ tx.plan = p /\ tx.events = input /\ tx.mode = "FINAL"
      /\ tx.start = start.ts /\ tx.meterStart = start.wh
      /\ tx.stopped = (stops # {})
      /\ tx.end = IF stops = {} THEN Max({e.ts : e \in input}) ELSE TheOne(stops).ts
      /\ tx.meterStop = IF stops = {} THEN 0 ELSE TheOne(stops).wh
      /\ tx.reason = IF stops = {} THEN NoInfo ELSE TheOne(stops).info
  BY DEF Timeline
<1> HIDE DEF tx, start, stops
<1>5. IsFinal(tx, p, input, stop)
  BY <1>1, <1>2, <1>3, <1>4 DEF IsFinal
<1> QED BY <1>5 DEF tx

(* The parts of a cost.                                                    *)
LEMMA CostParts ==
  ASSUME NEW tx, CostOf(tx).ok
  PROVE  LET r == CostOf(tx)
             lines == Adjusted(tx.plan, BaseLines(tx, Quantities(tx, Segments(tx), r.charging, r.billable)))
             amounts == AmountsOf(tx.plan, lines)
         IN  /\ r.charging = Charging(tx) /\ r.observed = Observed(tx)
             /\ r.billable = Billable(tx, Observed(tx))
             /\ r.energy = EnergyAt(Segments(tx), tx.end) /\ r.lines = lines
             /\ r.subtotal = amounts[1] /\ r.tax = amounts[2] /\ r.total = amounts[1] + amounts[2]
             /\ \A dim \in {"ENERGY", "TIME"} :
                  ~ Unmatched(tx, dim, Quantities(tx, Segments(tx), r.charging, r.billable)[dim])
<1> DEFINE times == TimesOf(tx, Observed(tx))
           quantity == Quantities(tx, Segments(tx), times.charging, times.billable)
           lines == Adjusted(tx.plan, BaseLines(tx, quantity))
           bad == \E dim \in {"ENERGY", "TIME"} : Unmatched(tx, dim, quantity[dim])
           cost == Cost(tx, Segments(tx), times, lines, AmountsOf(tx.plan, lines))
           r == CostOf(tx)
<1>1. r = IF bad THEN Failed ELSE cost
  BY DEF CostOf, CostOfTimes, CostOfQuantities, CostOfLines
<1>2. ~bad /\ r = cost
  BY <1>1 DEF Failed
<1>3. /\ times.charging = Charging(tx) /\ times.observed = Observed(tx)
      /\ times.billable = Billable(tx, Observed(tx))
  BY DEF TimesOf
<1> HIDE DEF times, lines, bad
<1>4. /\ cost.charging = times.charging /\ cost.observed = times.observed
      /\ cost.billable = times.billable
      /\ cost.energy = EnergyAt(Segments(tx), tx.end) /\ cost.lines = lines
      /\ cost.subtotal = AmountsOf(tx.plan, lines)[1] /\ cost.tax = AmountsOf(tx.plan, lines)[2]
      /\ cost.total = AmountsOf(tx.plan, lines)[1] + AmountsOf(tx.plan, lines)[2]
  BY DEF Cost
<1> HIDE DEF cost, r
<1> QED BY <1>2, <1>3, <1>4 DEF bad, lines, quantity, r

(* The intervals of a set of ticks hold no others.                         *)
LEMMA TicksOfRuns == ASSUME NEW S \in SUBSET Int PROVE Ticks(Runs(S)) \subseteq S
<1> SUFFICES ASSUME NEW t \in Ticks(Runs(S)) PROVE t \in S
  OBVIOUS
<1>1. PICK v \in Runs(S) : t \in v[1] .. v[2] - 1
  BY DEF Ticks
<1>2. PICK q \in S \X S : v = <<q[1], q[2] + 1>> /\ \A u \in q[1] .. q[2] : u \in S
  BY <1>1 DEF Runs
<1>3. q[1] \in Int /\ q[2] \in Int /\ v[1] = q[1] /\ v[2] = q[2] + 1
  BY <1>2
<1> QED BY <1>1, <1>2, <1>3

(* The intervals of a set of instants are between instants.                *)
LEMMA RunsOfInts == ASSUME NEW S \in SUBSET Int, NEW v \in Runs(S) PROVE v[1] \in Int /\ v[2] \in Int
<1>1. PICK q \in S \X S : v = <<q[1], q[2] + 1>>
  BY DEF Runs
<1>2. q[1] \in Int /\ q[2] \in Int
  BY <1>1
<1> QED BY <1>1, <1>2

(* The least of a finite set of instants is one of them,                   *)
LEMMA MinIn ==
  ASSUME NEW T \in SUBSET Nat, T # {}
  PROVE  Min(T) \in T /\ \A t \in T : Min(T) <= t
BY Least DEF Min

(* and so is the greatest.                                                 *)
LEMMA MaxIn ==
  ASSUME NEW T \in SUBSET Nat, T # {}, NEW n \in Nat, \A t \in T : t <= n
  PROVE  Max(T) \in T /\ \A t \in T : t <= Max(T)
<1>1. \E m \in T : \A t \in T : t <= m
  BY Greatest
<1>2. \E m \in T : \A t \in T : m >= t
  BY <1>1
<1>3. Max(T) \in T /\ \A t \in T : Max(T) >= t
  BY <1>2, Zenon DEF Max
<1> QED BY <1>3

(* The first of the numbers of I, less than b of them before each, are no  *)
(* more than b.                                                            *)
LEMMA FirstOnes ==
  ASSUME NEW I \in SUBSET Nat, NEW n \in Nat, \A t \in I : t <= n, NEW b \in Nat
  PROVE  LET B == {t \in I : Cardinality({u \in I : u < t}) < b}
         IN  IsFiniteSet(B) /\ Cardinality(B) <= b
<1> DEFINE B == {t \in I : Cardinality({u \in I : u < t}) < b}
<1> SUFFICES IsFiniteSet(B) /\ Cardinality(B) <= b
  OBVIOUS
<1>1. IsFiniteSet(I) /\ IsFiniteSet(B)
  BY FS_BoundedSetOfNaturals, FS_Subset
<1>2. CASE B = {}
  <2> HIDE DEF B
  <2> QED BY <1>1, <1>2, FS_EmptySet
<1>3. CASE B # {}
  <2>1. PICK t \in B : \A u \in B : u <= t
    <3>1. B \in SUBSET Nat /\ \A u \in B : u <= n
      OBVIOUS
    <3> HIDE DEF B
    <3> QED BY <1>3, <3>1, Greatest
  <2> DEFINE C == {u \in I : u < t}
  <2>2. IsFiniteSet(C) /\ Cardinality(C) \in Nat /\ Cardinality(C) < b
    BY <1>1, FS_Subset, FS_CardinalityType
  <2>3. IsFiniteSet(C \cup {t}) /\ Cardinality(C \cup {t}) = Cardinality(C) + 1
    <3>1. t \notin C
      OBVIOUS
    <3> HIDE DEF C
    <3> QED BY <2>2, <3>1, FS_AddElement
  <2>4. ASSUME NEW u \in B PROVE u \in C \cup {t}
    <3>1. u \in I /\ t \in I /\ u <= t
      BY <2>1
    <3>2. u \in Nat /\ t \in Nat
      BY <3>1
    <3> QED BY <3>1, <3>2
  <2>5. Cardinality(B) \in Nat /\ Cardinality(B) <= Cardinality(C \cup {t})
    <3> B \subseteq C \cup {t}
      BY <2>4
    <3> HIDE DEF B, C
    <3> QED BY <1>1, <2>3, FS_Subset, FS_CardinalityType
  <2> QED BY <1>1, <2>2, <2>3, <2>5
<1> QED BY <1>2, <1>3

IdlePolicy(p) == p.idle.grace \in Nat /\ p.idle.max \in Nat

(* Every tariff has a policy for the idle time.                            *)
LEMMA PlanIdle == ASSUME NEW p \in Plans PROVE IdlePolicy(p)
BY DEF PlanSet, IdlePolicy

(* The idle time ends at an instant.                                       *)
LEMMA IdleUntilType ==
  ASSUME NEW tx, tx.events \subseteq EventSet, tx.end \in Nat, tx.mode = "RUNNING" => tx.horizon \in Nat,
         NEW n \in Nat, \A e \in tx.events : e.ts <= n, tx.events # {}
  PROVE  IdleUntil(tx) \in Nat
<1> DEFINE ends == {e.ts : e \in {i \in OfKind(tx.events, "IDLE_END") : i.ts >= tx.end}}
           all == {e.ts : e \in tx.events}
<1>1. ends \in SUBSET Nat
  BY DEF OfKind, EventSet
<1>2. all \in SUBSET Nat /\ all # {} /\ \A t \in all : t <= n
  BY DEF EventSet
<1>3. ends # {} => Min(ends) \in Nat
  <2> HIDE DEF ends
  <2> QED BY <1>1, MinIn
<1>4. Max(all) \in Nat
  <2> HIDE DEF all
  <2> QED BY <1>2, MaxIn
<1>5. \/ IdleUntil(tx) \in {tx.end, Max(all)} \/ (ends # {} /\ IdleUntil(tx) = Min(ends))
      \/ tx.mode = "RUNNING" /\ IdleUntil(tx) = tx.horizon
  BY DEF IdleUntil
<1> QED BY <1>3, <1>4, <1>5

(* What is observed as idle is no charging time, and ends.                 *)
LEMMA ObservedTicks ==
  ASSUME NEW tx, tx.events \subseteq EventSet, tx.start \in Nat, tx.end \in Nat,
         tx.mode = "RUNNING" => tx.horizon \in Nat,
         NEW n \in Nat, \A e \in tx.events : e.ts <= n, tx.events # {}
  PROVE  /\ \E m \in Nat : \A t \in Ticks(Observed(tx)) :
              t \in Nat /\ t <= m /\ t \notin Ticks(Charging(tx))
         /\ \A v \in Observed(tx) : v[1] \in Int /\ v[2] \in Int
<1> DEFINE before == IF tx.plan.idle.start = "TRANSACTION_END" THEN {} ELSE Suspended(tx)
           after == IF ~tx.stopped \/ tx.plan.idle.start = "SUSPENDED_EV" THEN {}
                    ELSE tx.end .. IdleUntil(tx) - 1
           billed == {t \in tx.start .. tx.end - 1 : StatusAt(tx, t) = "Charging"}
           m == tx.end + IdleUntil(tx)
<1>1. IdleUntil(tx) \in Nat
  BY IdleUntilType
<1>2. Observed(tx) = {} \/ Observed(tx) = Runs(before \cup after)
  BY DEF Observed
<1>3. before \cup after \in SUBSET Int /\ billed \in SUBSET Int
  BY <1>1 DEF Suspended
<1>4. m \in Nat /\ \A t \in before \cup after : t \in Nat /\ t <= m /\ t \notin billed
  BY <1>1 DEF Suspended
<1>5. Ticks(Charging(tx)) \subseteq billed
  BY <1>3, TicksOfRuns DEF Charging
<1> HIDE DEF before, after, billed, m
<1>6. Ticks(Observed(tx)) \subseteq before \cup after
  <2>1. Ticks({}) = {}
    BY DEF Ticks
  <2> QED BY <1>2, <1>3, <2>1, TicksOfRuns
<1>7. \A v \in Observed(tx) : v[1] \in Int /\ v[2] \in Int
  BY <1>2, <1>3, RunsOfInts
<1> QED BY <1>4, <1>5, <1>6, <1>7

(* What is billed of it.                                                   *)
LEMMA BillableTicks ==
  ASSUME NEW tx, NEW observed, IdlePolicy(tx.plan),
         \A v \in observed : v[1] \in Int /\ v[2] \in Int,
         NEW n \in Nat, \A t \in Ticks(observed) : t \in Nat /\ t <= n
  PROVE  /\ Ticks(Billable(tx, observed)) \subseteq Ticks(observed)
         /\ Cardinality(Ticks(Billable(tx, observed))) <= tx.plan.idle.max
<1> DEFINE idle == UNION {v[1] + tx.plan.idle.grace .. v[2] - 1 : v \in observed}
           B == {t \in idle : Cardinality({u \in idle : u < t}) < tx.plan.idle.max}
<1>0. tx.plan.idle.grace \in Nat /\ tx.plan.idle.max \in Nat
  BY DEF IdlePolicy
<1>1. idle \subseteq Ticks(observed)
  <2> SUFFICES ASSUME NEW v \in observed, NEW t \in v[1] + tx.plan.idle.grace .. v[2] - 1
               PROVE  t \in v[1] .. v[2] - 1
    BY DEF Ticks
  <2> QED BY <1>0
<1>2. idle \in SUBSET Nat /\ \A t \in idle : t <= n
  BY <1>1
<1> HIDE DEF idle
<1>3. IsFiniteSet(B) /\ Cardinality(B) <= tx.plan.idle.max
  BY <1>0, <1>2, FirstOnes
<1>4. B \subseteq idle /\ B \in SUBSET Int
  <2>1. B \subseteq idle
    OBVIOUS
  <2> HIDE DEF B
  <2>2. idle \subseteq Int
    BY <1>2
  <2> QED BY <2>1, <2>2
<1>5. Billable(tx, observed) = {} \/ Billable(tx, observed) = Runs(B)
  BY DEF Billable, idle
<1> HIDE DEF B
<1>6. Ticks(Billable(tx, observed)) \subseteq B
  <2>1. Ticks({}) = {}
    BY DEF Ticks
  <2> QED BY <1>4, <1>5, <2>1, TicksOfRuns
<1>7. /\ Cardinality(Ticks(Billable(tx, observed))) <= Cardinality(B)
      /\ Cardinality(Ticks(Billable(tx, observed))) \in Nat /\ Cardinality(B) \in Nat
  BY <1>3, <1>6, FS_Subset, FS_CardinalityType
<1>8. Cardinality(Ticks(Billable(tx, observed))) <= tx.plan.idle.max
  BY <1>0, <1>3, <1>7
<1> QED BY <1>1, <1>4, <1>6, <1>8

(* What is billed comes after its grace, all of which was observed.        *)
LEMMA GraceTicks ==
  ASSUME NEW tx, NEW observed, IdlePolicy(tx.plan),
         \A v \in observed : v[1] \in Int /\ v[2] \in Int,
         NEW t \in Ticks(Billable(tx, observed)), NEW u \in t - tx.plan.idle.grace .. t
  PROVE  u \in Ticks(observed)
<1> DEFINE idle == UNION {v[1] + tx.plan.idle.grace .. v[2] - 1 : v \in observed}
           B == {k \in idle : Cardinality({j \in idle : j < k}) < tx.plan.idle.max}
<1>0. tx.plan.idle.grace \in Nat
  BY DEF IdlePolicy
<1>1. B \subseteq idle /\ idle \subseteq Int
  BY <1>0
<1>2. Billable(tx, observed) = {} \/ Billable(tx, observed) = Runs(B)
  BY DEF Billable
<1> HIDE DEF B
<1>3. t \in idle
  <2>1. Ticks({}) = {}
    BY DEF Ticks
  <2>2. B \in SUBSET Int
    BY <1>1
  <2>3. Ticks(Billable(tx, observed)) \subseteq B
    BY <1>2, <2>1, <2>2, TicksOfRuns
  <2> QED BY <1>1, <2>3
<1>4. PICK v \in observed : t \in v[1] + tx.plan.idle.grace .. v[2] - 1
  BY <1>3
<1>5. u \in v[1] .. v[2] - 1
  BY <1>0, <1>4
<1> QED BY <1>4, <1>5 DEF Ticks

(* The status in force is the last that was told.                          *)
LEMMA SuspendedWasTold ==
  ASSUME NEW tx, tx.events \subseteq EventSet, tx.start \in Nat, tx.end \in Nat, tx.start = Start,
         NEW n \in Nat, \A e \in tx.events : e.ts <= n, NEW t \in Suspended(tx)
  PROVE  \E e \in {x \in OfKind(tx.events, "STATUS") : Start < x.ts /\ x.ts <= t} :
           /\ e.info = "SuspendedEV"
           /\ \A f \in {x \in OfKind(tx.events, "STATUS") : Start < x.ts /\ x.ts <= t} : f.ts <= e.ts
<1> DEFINE past == {e \in OfKind(tx.events, "STATUS") : tx.start < e.ts /\ e.ts <= t /\ e.ts < tx.end}
           told == {x \in OfKind(tx.events, "STATUS") : Start < x.ts /\ x.ts <= t}
           last == CHOOSE e \in past : \A f \in past : f.ts <= e.ts
           times == {e.ts : e \in past}
<1>1. t \in Int /\ t < tx.end /\ StatusAt(tx, t) = "SuspendedEV"
  BY DEF Suspended
<1>2. past = told
  <2>1. \A x \in OfKind(tx.events, "STATUS") : x.ts \in Nat
    BY DEF OfKind, EventSet
  <2> QED BY <1>1, <2>1
<1>3. StatusAt(tx, t) = IF past = {} THEN "Charging" ELSE last.info
  BY DEF StatusAt
<1>4. past # {} /\ last.info = "SuspendedEV"
  BY <1>1, <1>3
<1>5. times \in SUBSET Nat /\ \A k \in times : k <= n
  BY DEF OfKind, EventSet
<1>6. \E e \in past : \A f \in past : f.ts <= e.ts
  <2>1. times # {}
    BY <1>4
  <2> HIDE DEF times
  <2>2. PICK m \in times : \A k \in times : k <= m
    BY <1>5, <2>1, Greatest
  <2> USE DEF times
  <2> QED BY <2>2
<1>7. last \in past /\ \A f \in past : f.ts <= last.ts
  <2> HIDE DEF past
  <2> QED BY <1>6, Zenon
<1> HIDE DEF past, last
<1>8. \E e \in told : e.info = "SuspendedEV" /\ \A f \in told : f.ts <= e.ts
  BY <1>2, <1>4, <1>7
<1> QED BY <1>8

(* What the engine observes as idle is idle by what the messages say.      *)
LEMMA ObservedIdles ==
  ASSUME NEW tx, NEW input, NEW stop, IsFinal(tx, plan, input, stop), OfKind(input, "TX_STOP") = {stop},
         input \subseteq EventSet, NEW n \in Nat, \A e \in input : e.ts <= n,
         NEW t \in Ticks(Observed(tx))
  PROVE  Idles(input, t)
<1> DEFINE before == IF tx.plan.idle.start = "TRANSACTION_END" THEN {} ELSE Suspended(tx)
           after == IF ~tx.stopped \/ tx.plan.idle.start = "SUSPENDED_EV" THEN {}
                    ELSE tx.end .. IdleUntil(tx) - 1
           ends == {e.ts : e \in {i \in OfKind(input, "IDLE_END") : i.ts >= tx.end}}
<1>0. /\ tx.plan = plan /\ tx.events = input /\ tx.mode = "FINAL" /\ tx.start = Start
      /\ tx.end = stop.ts /\ tx.reason = stop.info /\ tx.start \in Nat /\ tx.end \in Nat
  BY DEF IsFinal
<1>1. StopOf(input) = stop
  BY Single DEF StopOf
<1>2. IdleUntil(tx) \in Nat
  <2>1. stop \in input
    BY DEF OfKind
  <2> QED BY <1>0, <2>1, IdleUntilType
<1>3. t \in before \cup after /\ tx.reason \notin NoIdleReasons
  <2>1. before \cup after \in SUBSET Int
    BY <1>2, <1>0 DEF Suspended
  <2>2. Observed(tx) = IF tx.reason \in NoIdleReasons THEN {} ELSE Runs(before \cup after)
    BY DEF Observed
  <2>3. Ticks({}) = {}
    BY DEF Ticks
  <2> HIDE DEF before, after
  <2> QED BY <2>1, <2>2, <2>3, TicksOfRuns
<1>4. CASE t \in before
  <2>1. plan.idle.start # "TRANSACTION_END" /\ t \in Suspended(tx)
    BY <1>0, <1>4
  <2>2. t < stop.ts
    BY <1>0, <2>1 DEF Suspended
  <2>3. \E e \in {x \in OfKind(input, "STATUS") : Start < x.ts /\ x.ts <= t} :
           /\ e.info = "SuspendedEV"
           /\ \A f \in {x \in OfKind(input, "STATUS") : Start < x.ts /\ x.ts <= t} : f.ts <= e.ts
    BY <1>0, <2>1, SuspendedWasTold
  <2> HIDE DEF before, after, ends
  <2> QED BY <1>0, <1>1, <1>3, <2>1, <2>2, <2>3, Zenon DEF Idles
<1>5. CASE t \in after
  <2>1. plan.idle.start # "SUSPENDED_EV" /\ t \in tx.end .. IdleUntil(tx) - 1
    BY <1>0, <1>5
  <2>2. ~ (t < stop.ts) /\ t \in Int /\ t < IdleUntil(tx)
    BY <1>0, <1>2, <2>1
  <2>3. stop.info # "EVDisconnected"
    BY <1>0, <1>2, <2>2 DEF IdleUntil
  <2>4. ASSUME NEW e \in OfKind(input, "IDLE_END"), stop.ts <= e.ts PROVE t < e.ts
    <3>1. e.ts \in Nat /\ e.ts \in ends
      BY <1>0, <2>4 DEF OfKind, EventSet
    <3>2. ends \in SUBSET Nat
      BY DEF OfKind, EventSet
    <3>3. IdleUntil(tx) = Min(ends)
      BY <1>0, <2>3, <3>1 DEF IdleUntil
    <3> HIDE DEF ends
    <3>4. Min(ends) \in Nat /\ Min(ends) <= e.ts
      BY <3>1, <3>2, MinIn
    <3> QED BY <2>2, <3>1, <3>3, <3>4
  <2> HIDE DEF before, after, ends
  <2> QED BY <1>0, <1>1, <1>3, <2>1, <2>2, <2>3, <2>4, Zenon DEF Idles
<1> QED BY <1>3, <1>4, <1>5

(* For every tariff and whatever the charger told, an instant that is      *)
(* billed as idle is not billed as charging, the messages say that the     *)
(* vehicle was idle then and all through the grace before it, and what is  *)
(* billed is within the maximum (idleIntervals, suspendedIntervals).       *)
THEOREM IdleTimeIsIdle == Spec => []IdleIsIdle
<1>1. ASSUME PInv PROVE IdleIsIdle
  <2> SUFFICES ASSUME NEW c \in ToSet(calcs)
               PROVE  /\ \A t \in Ticks(c.result.billable) :
                           /\ t \notin Ticks(c.result.charging)
                           /\ \A u \in t - plan.idle.grace .. t : Idles(c.input, u)
                      /\ Cardinality(Ticks(c.result.billable)) <= plan.idle.max
    BY DEF IdleIsIdle
  <2>1. PICK i \in DOMAIN calcs : c = calcs[i]
    BY DEF ToSet
  <2> DEFINE input == c.input
             r == c.result
             tx == Timeline(plan, input, "FINAL", 0)
  <2>2. /\ WellFormed(input, clock) /\ StoppedOnce(input) /\ clock \in Nat /\ plan \in Plans
        /\ r = CostOf(tx) /\ CostOf(tx).ok
    <3>1. phase = "SETTLED"
      BY <1>1, <2>1 DEF PInv, Computed
    <3> QED BY <1>1, <2>1, <3>1 DEF PInv, Types, Computed, Compute
  <2>3. PICK stop \in input : OfKind(input, "TX_STOP") = {stop}
    BY <2>2 DEF StoppedOnce
  <2>4. IsFinal(tx, plan, input, stop)
    BY <2>2, <2>3, FinalTimeline
  <2>5. /\ r.charging = Charging(tx) /\ r.observed = Observed(tx)
        /\ r.billable = Billable(tx, Observed(tx))
    <3> HIDE DEF tx, r
    <3> QED BY <2>2, CostParts
  <2> HIDE DEF tx, input, r
  <2>6. input \subseteq EventSet /\ input # {} /\ \A e \in input : e.ts <= clock
    BY <2>2, <2>3 DEF WellFormed
  <2>7. tx.plan = plan /\ tx.events = input /\ tx.mode = "FINAL" /\ tx.start \in Nat /\ tx.end \in Nat
    BY <2>4 DEF IsFinal
  <2>8. PICK m \in Nat : \A t \in Ticks(Observed(tx)) : t \in Nat /\ t <= m /\ t \notin Ticks(Charging(tx))
    BY <2>2, <2>6, <2>7, ObservedTicks
  <2>9. \A v \in Observed(tx) : v[1] \in Int /\ v[2] \in Int
    BY <2>2, <2>6, <2>7, ObservedTicks
  <2>10. IdlePolicy(tx.plan)
    BY <2>2, <2>7, PlanIdle
  <2>11. /\ Ticks(r.billable) \subseteq Ticks(Observed(tx))
         /\ Cardinality(Ticks(r.billable)) <= plan.idle.max
    BY <2>5, <2>7, <2>8, <2>9, <2>10, BillableTicks
  <2>12. ASSUME NEW t \in Ticks(r.billable), NEW u \in t - plan.idle.grace .. t
         PROVE  Idles(input, u)
    <3>1. u \in Ticks(Observed(tx))
      BY <2>5, <2>7, <2>9, <2>10, <2>12, GraceTicks
    <3> QED BY <2>2, <2>3, <2>4, <2>6, <3>1, ObservedIdles
  <2> QED BY <2>5, <2>8, <2>11, <2>12 DEF input, r
<1> QED BY <1>1, PInvInvariant, PTL

-----------------------------------------------------------------------------
(* Rounding                                                                *)

(* Division with rest.                                                     *)
LEMMA DivMod ==
  ASSUME NEW a \in Nat, NEW d \in Nat \ {0}
  PROVE  a \div d \in Nat /\ a % d \in Nat /\ a = d * (a \div d) + (a % d) /\ a % d < d
<1>1. a \div d \in Int /\ a \div d >= 0
  OBVIOUS
<1>2. a % d \in 0 .. d - 1
  OBVIOUS
<1>3. a = d * (a \div d) + (a % d)
  OBVIOUS
<1> QED BY <1>1, <1>2, <1>3

(* The rounding of a magnitude is the quotient or the next number.         *)
LEMMA RoundNat ==
  ASSUME NEW a \in Nat, NEW d \in Nat \ {0}, NEW k \in Nat, NEW q \in Nat, NEW r \in Nat, a = d * q + r, r < d
  PROVE  /\ k * d <= a => k <= q
         /\ a <= k * d => q <= k
         /\ a <= k * d /\ r > 0 => q + 1 <= k
<1>1. ASSUME k * d <= a PROVE k <= q
  <2> SUFFICES ASSUME q + 1 <= k PROVE FALSE
    OBVIOUS
  <2>1. (q + 1) * d <= k * d
    OBVIOUS
  <2>2. (q + 1) * d = d * q + d
    OBVIOUS
  <2> QED BY <1>1, <2>1, <2>2
<1>2. ASSUME a <= k * d PROVE q <= k
  <2> SUFFICES ASSUME k + 1 <= q PROVE FALSE
    OBVIOUS
  <2>1. (k + 1) * d <= q * d
    OBVIOUS
  <2>2. (k + 1) * d = k * d + d
    OBVIOUS
  <2> QED BY <1>2, <2>1, <2>2
<1>3. ASSUME a <= k * d, r > 0 PROVE q + 1 <= k
  <2> SUFFICES ASSUME k <= q PROVE FALSE
    OBVIOUS
  <2>1. k * d <= q * d
    OBVIOUS
  <2> QED BY <1>3, <2>1
<1> QED BY <1>1, <1>2, <1>3

(* The magnitude of a quotient, rounded in any mode, keeps to every whole  *)
(* number that the quotient keeps to.                                      *)
LEMMA SizeBounds ==
  ASSUME NEW a \in Nat, NEW d \in Nat \ {0}, NEW mode, NEW k \in Nat
  PROVE  LET q == a \div d
             size == IF RoundsUp(mode, q, a % d, d) THEN q + 1 ELSE q
         IN  size \in Nat /\ (k * d <= a => k <= size) /\ (a <= k * d => size <= k)
<1> DEFINE q == a \div d
           r == a % d
           size == IF RoundsUp(mode, q, r, d) THEN q + 1 ELSE q
<1>1. q \in Nat /\ r \in Nat /\ a = d * q + r /\ r < d
  BY DivMod
<1>2. RoundsUp(mode, q, r, d) => r > 0
  BY <1>1 DEF RoundsUp
<1>3. size = q \/ (size = q + 1 /\ r > 0)
  BY <1>2
<1> HIDE DEF q, r, size
<1>4. /\ k * d <= a => k <= q
      /\ a <= k * d => q <= k
      /\ a <= k * d /\ r > 0 => q + 1 <= k
  BY <1>1, RoundNat
<1>5. size \in Nat /\ (k * d <= a => k <= size) /\ (a <= k * d => size <= k)
  BY <1>1, <1>3, <1>4
<1> QED BY <1>5 DEF size, q, r

(* divideRounded passes no whole number that the exact quotient does not   *)
(* pass, in every mode.                                                    *)
LEMMA RoundedBounds ==
  ASSUME NEW n \in Int, NEW d \in Nat \ {0}, NEW mode, NEW k \in Int
  PROVE  /\ DivideRounded(n, d, mode) \in Int
         /\ k * d <= n => k <= DivideRounded(n, d, mode)
         /\ n <= k * d => DivideRounded(n, d, mode) <= k
<1> DEFINE a == Absolute(n)
           q == a \div d
           size == IF RoundsUp(mode, q, a % d, d) THEN q + 1 ELSE q
<1>1. a \in Nat /\ (n < 0 => a = -n) /\ (n >= 0 => a = n)
  BY DEF Absolute
<1>2. DivideRounded(n, d, mode) = IF n < 0 THEN -size ELSE size
  BY DEF DivideRounded
<1> HIDE DEF a
<1>3. \A j \in Nat : size \in Nat /\ (j * d <= a => j <= size) /\ (a <= j * d => size <= j)
  BY <1>1, SizeBounds
<1> HIDE DEF size, q
<1>4. size \in Nat
  BY <1>3
<1>5. CASE n >= 0
  <2>1. DivideRounded(n, d, mode) = size /\ a = n
    BY <1>1, <1>2, <1>5
  <2>2. CASE k >= 0
    BY <1>3, <2>1, <2>2
  <2>3. CASE k < 0
    <3>1. k * d < 0
      BY <2>3
    <3> QED BY <1>4, <1>5, <2>1, <2>3, <3>1
  <2> QED BY <2>2, <2>3
<1>6. CASE n < 0
  <2>1. DivideRounded(n, d, mode) = -size /\ a = -n
    BY <1>1, <1>2, <1>6
  <2>2. CASE k <= 0
    <3>1. -k \in Nat /\ (-k) * d = -(k * d)
      BY <2>2
    <3>2. ((-k) * d <= a => -k <= size) /\ (a <= (-k) * d => size <= -k)
      BY <1>3, <3>1
    <3>3. k * d \in Int
      OBVIOUS
    <3> QED BY <1>4, <2>1, <3>1, <3>2, <3>3
  <2>3. CASE k > 0
    <3>1. k * d > 0
      BY <2>3
    <3> QED BY <1>4, <1>6, <2>1, <2>3, <3>1
  <2> QED BY <2>2, <2>3
<1> QED BY <1>5, <1>6

-----------------------------------------------------------------------------
(* What the register counts                                                *)

(* What the engine makes of well-formed events, in either mode.            *)
TxOK(tx) ==
  /\ tx.plan \in PlanSet
  /\ tx.events \subseteq EventSet
  /\ tx.start \in Nat /\ tx.end \in Nat /\ tx.start <= tx.end
  /\ tx.meterStart \in Nat /\ tx.meterStop \in Nat
  /\ tx.stopped \in BOOLEAN

(* There are finitely many pairs of neighbours.                            *)
LEMMA ConsecutiveFinite ==
  ASSUME NEW C, IsFiniteSet(C)
  PROVE  IsFiniteSet(Consecutive(C))
<1>1. IsFiniteSet(C \X C)
  BY FS_Product
<1>2. Consecutive(C) \subseteq C \X C
  BY DEF Consecutive
<1> QED BY <1>1, <1>2, FS_Subset

(* Between two neighbours there is nothing, and between the least and the  *)
(* greatest everything is between neighbours.                              *)
LEMMA Neighbours ==
  ASSUME NEW C \in SUBSET Nat, NEW p \in Consecutive(C)
  PROVE  /\ p[1] \in C /\ p[2] \in C /\ p[1] < p[2]
         /\ p[1] \in Nat /\ p[2] \in Nat /\ p = <<p[1], p[2]>>
         /\ \A c \in C : c <= p[1] \/ p[2] <= c
<1>1. p \in C \X C /\ p[1] < p[2] /\ \A c \in C : c <= p[1] \/ p[2] <= c
  BY DEF Consecutive
<1>2. p[1] \in C /\ p[2] \in C /\ p = <<p[1], p[2]>>
  BY <1>1
<1>3. p[1] \in Nat /\ p[2] \in Nat
  BY <1>2
<1> QED BY <1>1, <1>2, <1>3

(* A value between two of a finite set is between two neighbours.          *)
LEMMA Between ==
  ASSUME NEW C \in SUBSET Nat, NEW a \in C, NEW b \in C, NEW x \in Nat, a <= x, x < b
  PROVE  \E p \in Consecutive(C) : p[1] <= x /\ x < p[2]
<1> DEFINE L == {c \in C : c <= x}
           R == {c \in C : x < c}
<1>1. PICK l \in L : \A c \in L : c <= l
  <2>1. L \in SUBSET Nat /\ L # {} /\ \A c \in L : c <= x
    OBVIOUS
  <2> HIDE DEF L
  <2> QED BY <2>1, Greatest
<1>2. PICK r \in R : \A c \in R : r <= c
  <2>1. R \in SUBSET Nat /\ R # {}
    OBVIOUS
  <2> HIDE DEF R
  <2> QED BY <2>1, Least
<1>3. l \in C /\ r \in C /\ l \in Nat /\ r \in Nat /\ l <= x /\ x < r
  BY <1>1, <1>2
<1>4. ASSUME NEW c \in C PROVE c <= l \/ r <= c
  <2>1. c \in Nat /\ (c \in L \/ c \in R)
    OBVIOUS
  <2> QED BY <1>1, <1>2, <2>1
<1>5. <<l, r>> \in Consecutive(C)
  BY <1>3, <1>4 DEF Consecutive
<1>6. <<l, r>>[1] = l /\ <<l, r>>[2] = r
  OBVIOUS
<1> HIDE DEF L, R
<1> QED BY <1>3, <1>5, <1>6

(* The readings that count are finitely many, from the start to the end.   *)
LEMMA ReadingsType ==
  ASSUME NEW tx, TxOK(tx)
  PROVE  /\ Readings(tx) \in SUBSET Nat /\ IsFiniteSet(Readings(tx))
         /\ \A t \in Readings(tx) : tx.start <= t /\ t <= tx.end
         /\ tx.start \in Readings(tx)
         /\ tx.stopped => tx.end \in Readings(tx)
<1>1. ASSUME NEW t \in Readings(tx) PROVE t \in Nat /\ tx.start <= t /\ t <= tx.end
  <2>1. \/ t = tx.start
        \/ \E e \in tx.events : tx.start <= e.ts /\ e.ts <= tx.end /\ t = e.ts
        \/ tx.stopped /\ t = tx.end
    BY DEF Readings, OfKind, TxOK
  <2>2. \A e \in tx.events : e.ts \in Nat
    BY DEF TxOK, EventSet
  <2> QED BY <2>1, <2>2 DEF TxOK
<1>2. Readings(tx) \in SUBSET Nat
  BY <1>1
<1>3. IsFiniteSet(Readings(tx))
  BY <1>1, <1>2, FS_BoundedSetOfNaturals DEF TxOK
<1>4. tx.start \in Readings(tx) /\ (tx.stopped => tx.end \in Readings(tx))
  BY DEF Readings
<1> QED BY <1>1, <1>2, <1>3, <1>4

(* The register shows a natural number.                                    *)
LEMMA RegisterType ==
  ASSUME NEW tx, TxOK(tx), NEW t
  PROVE  Register(tx, t) \in Nat
<1>1. CASE MetersAt(tx, t) # {}
  <2>1. TheOne(MetersAt(tx, t)) \in MetersAt(tx, t)
    BY <1>1 DEF TheOne
  <2>2. MetersAt(tx, t) \subseteq EventSet
    BY DEF MetersAt, OfKind, TxOK
  <2>3. TheOne(MetersAt(tx, t)).wh \in Nat
    BY <2>1, <2>2 DEF EventSet
  <2> QED BY <2>3 DEF Register, TxOK
<1>2. CASE MetersAt(tx, t) = {}
  BY <1>2 DEF Register, TxOK
<1> QED BY <1>1, <1>2

Past(tx, t) == {p \in Consecutive(Readings(tx)) : p[2] <= t}

Increments(tx, t) ==
  [p \in Past(tx, t) |-> Larger(0, Register(tx, p[2]) - Register(tx, p[1]))]

(* What is counted up to an instant is a finite sum of naturals.           *)
LEMMA CountedSum ==
  ASSUME NEW tx, TxOK(tx), NEW t
  PROVE  /\ Counted(tx, t) = SumFunctionOnSet(Increments(tx, t), Past(tx, t))
         /\ IsFiniteSet(Past(tx, t))
         /\ \A p \in Past(tx, t) : Increments(tx, t)[p] \in Nat
<1>1. Counted(tx, t) = SumFunctionOnSet(Increments(tx, t), Past(tx, t))
  BY DEF Counted, SumFunction, Increments, Past
<1>2. IsFiniteSet(Past(tx, t))
  <2>1. IsFiniteSet(Consecutive(Readings(tx)))
    BY ReadingsType, ConsecutiveFinite
  <2>2. Past(tx, t) \subseteq Consecutive(Readings(tx))
    BY DEF Past
  <2> QED BY <2>1, <2>2, FS_Subset
<1>3. ASSUME NEW p \in Past(tx, t) PROVE Increments(tx, t)[p] \in Nat
  <2>1. Register(tx, p[2]) \in Nat /\ Register(tx, p[1]) \in Nat
    BY RegisterType
  <2> QED BY <2>1 DEF Increments, Larger
<1> QED BY <1>1, <1>2, <1>3

(* It is a natural number,                                                 *)
LEMMA CountedType ==
  ASSUME NEW tx, TxOK(tx), NEW t
  PROVE  Counted(tx, t) \in Nat
BY CountedSum, SumNat

(* does not fall,                                                          *)
LEMMA CountedGrows ==
  ASSUME NEW tx, TxOK(tx), NEW s \in Nat, NEW t \in Nat, s <= t
  PROVE  Counted(tx, s) <= Counted(tx, t)
<1> DEFINE f == Increments(tx, s)
           g == Increments(tx, t)
<1>1. Past(tx, s) \in SUBSET Past(tx, t)
  <2>1. \A p \in Consecutive(Readings(tx)) : p[2] \in Nat
    BY ReadingsType, Neighbours
  <2> QED BY <2>1 DEF Past
<1>2. \A p \in Past(tx, s) : f[p] = g[p]
  BY <1>1 DEF Increments
<1>3. SumFunctionOnSet(f, Past(tx, s)) = SumFunctionOnSet(g, Past(tx, s))
  <2>1. IsFiniteSet(Past(tx, s)) /\ \A p \in Past(tx, s) : f[p] \in Int /\ f[p] = g[p]
    BY <1>2, CountedSum
  <2> HIDE DEF f, g
  <2> QED BY <2>1, SumSame
<1>4. SumFunctionOnSet(g, Past(tx, s)) <= SumFunctionOnSet(g, Past(tx, t))
  <2>1. IsFiniteSet(Past(tx, t)) /\ \A p \in Past(tx, t) : g[p] \in Nat
    BY CountedSum
  <2> HIDE DEF g
  <2> QED BY <1>1, <2>1, SumMonotone
<1> QED BY <1>3, <1>4, CountedSum

(* and is nothing at the start.                                            *)
LEMMA CountedStart ==
  ASSUME NEW tx, TxOK(tx)
  PROVE  Counted(tx, tx.start) = 0
<1>1. Past(tx, tx.start) = {}
  <2> SUFFICES ASSUME NEW p \in Past(tx, tx.start) PROVE FALSE
    OBVIOUS
  <2>1. p \in Consecutive(Readings(tx)) /\ p[2] <= tx.start
    BY DEF Past
  <2>2. p[1] \in Readings(tx) /\ p[1] < p[2] /\ p[1] \in Nat /\ p[2] \in Nat
    BY <2>1, ReadingsType, Neighbours
  <2>3. tx.start <= p[1] /\ tx.start \in Nat
    BY <2>2, ReadingsType
  <2> QED BY <2>1, <2>2, <2>3
<1> QED BY <1>1, CountedSum, SumEmpty

(* reconcile: the energy at the readings starts at 0 and never falls,      *)
(* though the register goes back or the stop counts less than the          *)
(* readings.                                                               *)
LEMMA SegmentsType ==
  ASSUME NEW tx, TxOK(tx)
  PROVE  /\ DOMAIN Segments(tx) = Readings(tx)
         /\ \A t \in Readings(tx) : Segments(tx)[t] = Reconciled(tx, t) /\ Segments(tx)[t] \in Nat
         /\ \A s, t \in Readings(tx) : s <= t => Segments(tx)[s] <= Segments(tx)[t]
         /\ Segments(tx)[tx.start] = 0
<1> DEFINE due == tx.meterStop - tx.meterStart
<1>0. due \in Int /\ \A t \in Readings(tx) : t \in Nat /\ tx.start <= t /\ t <= tx.end
  BY ReadingsType DEF TxOK
<1>1. DOMAIN Segments(tx) = Readings(tx) /\ \A t \in Readings(tx) : Segments(tx)[t] = Reconciled(tx, t)
  BY DEF Segments
<1>2. \A t \in Readings(tx) : Counted(tx, t) \in Nat
  BY CountedType
<1>3. \A t \in Readings(tx) : Reconciled(tx, t) =
         IF ~tx.stopped \/ due < 0 THEN Counted(tx, t)
         ELSE IF t = tx.end /\ tx.start < tx.end THEN due
         ELSE Smaller(Counted(tx, t), due)
  BY DEF Reconciled
<1> HIDE DEF due
<1>4. \A t \in Readings(tx) : Reconciled(tx, t) \in Nat
  BY <1>0, <1>2, <1>3 DEF Smaller
<1>5. ASSUME NEW s \in Readings(tx), NEW t \in Readings(tx), s <= t
      PROVE  Reconciled(tx, s) <= Reconciled(tx, t)
  <2>1. Counted(tx, s) <= Counted(tx, t)
    BY <1>0, <1>5, CountedGrows
  <2>2. s = tx.end => t = tx.end
    BY <1>0, <1>5 DEF TxOK
  <2> QED BY <1>0, <1>2, <1>3, <2>1, <2>2 DEF Smaller
<1>6. Reconciled(tx, tx.start) = 0
  <2>1. Counted(tx, tx.start) = 0 /\ tx.start \in Readings(tx) /\ (tx.start = tx.end => ~ (tx.start < tx.end))
    BY CountedStart, ReadingsType DEF TxOK
  <2> QED BY <1>0, <1>3, <2>1 DEF Smaller
<1> QED BY <1>1, <1>4, <1>5, <1>6, ReadingsType

-----------------------------------------------------------------------------
(* The quotient does not fall when what is divided grows.                  *)
LEMMA QuotientGrows ==
  ASSUME NEW d \in Nat \ {0}, NEW q \in Nat, NEW r \in Nat, r < d,
         NEW u \in Nat, NEW v \in Nat, v < d, d * q + r <= d * u + v
  PROVE  q < u \/ (q = u /\ r <= v)
<1>1. CASE u < q
  <2>1. d * (u + 1) <= d * q
    BY <1>1
  <2>2. d * (u + 1) = d * u + d
    OBVIOUS
  <2>3. d * q \in Nat /\ d * u \in Nat
    OBVIOUS
  <2> QED BY <2>1, <2>2, <2>3
<1>2. CASE q = u
  <2>1. d * q \in Nat
    OBVIOUS
  <2> QED BY <1>2, <2>1
<1>3. CASE q < u
  BY <1>3
<1> QED BY <1>1, <1>2, <1>3

(* divideRounded does not fall when what is divided grows.                 *)
LEMMA RoundedGrows ==
  ASSUME NEW n \in Nat, NEW m \in Nat, n <= m, NEW d \in Nat \ {0}, NEW mode
  PROVE  DivideRounded(n, d, mode) <= DivideRounded(m, d, mode)
<1> DEFINE q == n \div d
           r == n % d
           u == m \div d
           v == m % d
           small == IF RoundsUp(mode, q, r, d) THEN q + 1 ELSE q
           large == IF RoundsUp(mode, u, v, d) THEN u + 1 ELSE u
<1>1. DivideRounded(n, d, mode) = small /\ DivideRounded(m, d, mode) = large
  <2>1. Absolute(n) = n /\ Absolute(m) = m /\ ~ (n < 0) /\ ~ (m < 0)
    BY DEF Absolute
  <2> QED BY <2>1 DEF DivideRounded
<1>2. /\ q \in Nat /\ r \in Nat /\ n = d * q + r /\ r < d
      /\ u \in Nat /\ v \in Nat /\ m = d * u + v /\ v < d
  BY DivMod
<1> HIDE DEF q, r, u, v
<1>3. q < u \/ (q = u /\ r <= v)
  BY <1>2, QuotientGrows
<1>4. CASE q < u
  BY <1>1, <1>2, <1>4
<1>5. CASE q = u /\ r <= v
  <2>1. RoundsUp(mode, q, r, d) => RoundsUp(mode, u, v, d)
    BY <1>2, <1>5 DEF RoundsUp
  <2> QED BY <1>1, <1>2, <1>5, <2>1
<1> QED BY <1>3, <1>4, <1>5

-----------------------------------------------------------------------------
(* A count that never falls, from lo on.                                   *)
Curve(f, lo, hi) ==
  /\ DOMAIN f \in SUBSET Nat /\ lo \in DOMAIN f /\ hi \in Nat
  /\ \A t \in DOMAIN f : lo <= t /\ t <= hi /\ f[t] \in Nat
  /\ \A s, t \in DOMAIN f : s <= t => f[s] <= f[t]

LastAt(f, t) == Max({r \in DOMAIN f : r <= t})
After(f, t) == {r \in DOMAIN f : t < r}

(* The last reading until an instant,                                      *)
LEMMA LastAtIn ==
  ASSUME NEW f, NEW lo, NEW hi, Curve(f, lo, hi), NEW t \in Nat, lo <= t
  PROVE  /\ LastAt(f, t) \in DOMAIN f /\ LastAt(f, t) \in Nat /\ LastAt(f, t) <= t
         /\ \A r \in DOMAIN f : r <= t => r <= LastAt(f, t)
<1> DEFINE T == {r \in DOMAIN f : r <= t}
<1>1. T \in SUBSET Nat /\ T # {} /\ \A r \in T : r <= t
  BY DEF Curve
<1>2. Max(T) \in T /\ \A r \in T : r <= Max(T)
  <2> HIDE DEF T
  <2> QED BY <1>1, MaxIn
<1>3. LastAt(f, t) = Max(T)
  BY DEF LastAt
<1> QED BY <1>1, <1>2, <1>3

(* and the first after it.                                                 *)
LEMMA AfterIn ==
  ASSUME NEW f, NEW lo, NEW hi, Curve(f, lo, hi), NEW t \in Nat, After(f, t) # {}
  PROVE  /\ Min(After(f, t)) \in DOMAIN f /\ Min(After(f, t)) \in Nat /\ t < Min(After(f, t))
         /\ \A r \in DOMAIN f : t < r => Min(After(f, t)) <= r
<1>1. After(f, t) \in SUBSET Nat
  BY DEF After, Curve
<1>2. Min(After(f, t)) \in After(f, t) /\ \A r \in After(f, t) : Min(After(f, t)) <= r
  BY <1>1, MinIn
<1> QED BY <1>1, <1>2 DEF After

(* Between two readings the energy is between theirs.                      *)
LEMMA EnergyWithin ==
  ASSUME NEW f, NEW lo, NEW hi, Curve(f, lo, hi), NEW t \in Nat, lo <= t
  PROVE  /\ EnergyAt(f, t) \in Nat
         /\ f[LastAt(f, t)] <= EnergyAt(f, t)
         /\ After(f, t) # {} => EnergyAt(f, t) <= f[Min(After(f, t))]
         /\ t \in DOMAIN f => EnergyAt(f, t) = f[t]
<1> DEFINE a == LastAt(f, t)
           b == Min(After(f, t))
           num == (f[b] - f[a]) * (t - a)
<1>1. EnergyAt(f, t) = IF After(f, t) = {} THEN f[a]
                       ELSE f[a] + DivideRounded(num, b - a, "HALF_UP")
  BY DEF EnergyAt, LastAt, After
<1>2. a \in DOMAIN f /\ a \in Nat /\ a <= t /\ f[a] \in Nat
  BY LastAtIn DEF Curve
<1>3. t \in DOMAIN f => a = t
  BY LastAtIn
<1>4. CASE After(f, t) = {}
  BY <1>1, <1>2, <1>3, <1>4
<1>5. CASE After(f, t) # {}
  <2>1. b \in DOMAIN f /\ b \in Nat /\ t < b /\ f[b] \in Nat
    BY <1>5, AfterIn DEF Curve
  <2>2. a <= b /\ f[a] <= f[b]
    BY <1>2, <2>1 DEF Curve
  <2>3. EnergyAt(f, t) = f[a] + DivideRounded(num, b - a, "HALF_UP")
    BY <1>1, <1>5
  <2> HIDE DEF a, b
  <2>4. ASSUME NEW y \in Nat, NEW x \in Nat, NEW d \in Nat, x <= d
        PROVE  y * x \in Int /\ 0 * d <= y * x /\ y * x <= y * d
    BY <2>4
  <2>5. f[b] - f[a] \in Nat /\ t - a \in Nat /\ b - a \in Nat \ {0} /\ t - a <= b - a
    BY <1>2, <2>1, <2>2
  <2>6. num \in Int /\ 0 * (b - a) <= num /\ num <= (f[b] - f[a]) * (b - a)
    BY <2>4, <2>5
  <2> HIDE DEF num
  <2>7. /\ DivideRounded(num, b - a, "HALF_UP") \in Int
        /\ 0 <= DivideRounded(num, b - a, "HALF_UP")
        /\ DivideRounded(num, b - a, "HALF_UP") <= f[b] - f[a]
    BY <2>5, <2>6, RoundedBounds
  <2>8. t \in DOMAIN f => DivideRounded(num, b - a, "HALF_UP") <= 0
    <3> SUFFICES ASSUME a = t PROVE num <= 0 * (b - a)
      BY <1>3, <2>5, <2>6, RoundedBounds
    <3> QED BY <2>1, <1>2, <2>5 DEF num
  <2> QED BY <1>2, <1>3, <1>5, <2>1, <2>3, <2>7, <2>8 DEF a, b
<1> QED BY <1>4, <1>5

(* The energy never falls.                                                 *)
LEMMA EnergyGrows ==
  ASSUME NEW f, NEW lo, NEW hi, Curve(f, lo, hi), NEW s \in Nat, NEW t \in Nat, lo <= s, s <= t
  PROVE  EnergyAt(f, s) <= EnergyAt(f, t)
<1> DEFINE a == LastAt(f, s)
           c == LastAt(f, t)
<1>0. lo \in Nat /\ lo <= t
  BY DEF Curve
<1>1. a \in DOMAIN f /\ a \in Nat /\ a <= s /\ c \in DOMAIN f /\ c \in Nat /\ c <= t /\ a <= c
  BY <1>0, LastAtIn
<1>2. \A r \in DOMAIN f : f[r] \in Nat
  BY DEF Curve
<1>3. /\ EnergyAt(f, s) \in Nat /\ f[a] <= EnergyAt(f, s)
      /\ After(f, s) # {} => EnergyAt(f, s) <= f[Min(After(f, s))]
      /\ EnergyAt(f, t) \in Nat /\ f[c] <= EnergyAt(f, t)
  BY <1>0, EnergyWithin
<1>4. CASE a = c
  <2>1. After(f, s) = After(f, t)
    <3> SUFFICES ASSUME NEW r \in DOMAIN f, r <= t PROVE r <= s
      BY <1>0 DEF After, Curve
    <3>1. r <= c /\ r \in Nat
      BY <1>0, LastAtIn DEF Curve
    <3> QED BY <1>1, <1>4, <3>1
  <2> DEFINE b == Min(After(f, s))
             rise == f[b] - f[a]
             n == rise * (s - a)
             m == rise * (t - a)
  <2>2. /\ EnergyAt(f, s) = IF After(f, s) = {} THEN f[a]
                            ELSE f[a] + DivideRounded(n, b - a, "HALF_UP")
        /\ EnergyAt(f, t) = IF After(f, s) = {} THEN f[a]
                            ELSE f[a] + DivideRounded(m, b - a, "HALF_UP")
    BY <1>4, <2>1 DEF EnergyAt, LastAt, After
  <2>3. CASE After(f, s) = {}
    BY <1>1, <1>2, <2>2, <2>3
  <2>4. CASE After(f, s) # {}
    <3>1. b \in DOMAIN f /\ b \in Nat /\ s < b
      BY <2>4, AfterIn
    <3>2. rise \in Nat /\ b - a \in Nat \ {0} /\ s - a \in Nat /\ t - a \in Nat /\ s - a <= t - a
      <4>1. f[a] \in Nat /\ f[b] \in Nat /\ f[a] <= f[b]
        BY <1>1, <1>2, <3>1 DEF Curve
      <4> QED BY <1>1, <3>1, <4>1
    <3> HIDE DEF b, rise
    <3>3. n \in Nat /\ m \in Nat /\ n <= m
      <4>1. ASSUME NEW x \in Nat, NEW y \in Nat, NEW z \in Nat, x <= y
            PROVE  z * x \in Nat /\ z * y \in Nat /\ z * x <= z * y
        BY <4>1
      <4> HIDE DEF a
      <4> QED BY <3>2, <4>1
    <3> HIDE DEF n, m
    <3>4. /\ DivideRounded(n, b - a, "HALF_UP") <= DivideRounded(m, b - a, "HALF_UP")
          /\ DivideRounded(n, b - a, "HALF_UP") \in Int /\ DivideRounded(m, b - a, "HALF_UP") \in Int
      BY <3>2, <3>3, RoundedGrows, RoundedBounds
    <3>5. f[a] \in Nat
      BY <1>1, <1>2
    <3> HIDE DEF a
    <3> QED BY <2>2, <2>4, <3>4, <3>5
  <2> QED BY <2>3, <2>4
<1>5. CASE a # c
  <2>1. s < c /\ After(f, s) # {}
    <3>1. c <= s => c <= a
      BY <1>1, LastAtIn
    <3> QED BY <1>1, <1>5, <3>1 DEF After
  <2>2. Min(After(f, s)) \in DOMAIN f /\ Min(After(f, s)) <= c
    BY <1>1, <2>1, AfterIn
  <2>3. f[Min(After(f, s))] <= f[c]
    BY <1>1, <2>2 DEF Curve
  <2>4. f[Min(After(f, s))] \in Nat /\ f[c] \in Nat
    BY <1>1, <1>2, <2>2
  <2> QED BY <1>3, <2>1, <2>3, <2>4
<1> QED BY <1>4, <1>5

(* The engine's segments are such a count, from 0 at the start to what the *)
(* register counted at the stop.                                           *)
LEMMA SegmentsCurve ==
  ASSUME NEW tx, TxOK(tx)
  PROVE  /\ Curve(Segments(tx), tx.start, tx.end) /\ DOMAIN Segments(tx) = Readings(tx)
         /\ EnergyAt(Segments(tx), tx.start) = 0
         /\ tx.stopped /\ tx.start < tx.end /\ tx.meterStart <= tx.meterStop =>
              EnergyAt(Segments(tx), tx.end) = tx.meterStop - tx.meterStart
<1>1. /\ DOMAIN Segments(tx) = Readings(tx)
      /\ \A t \in Readings(tx) : Segments(tx)[t] = Reconciled(tx, t) /\ Segments(tx)[t] \in Nat
      /\ \A s, t \in Readings(tx) : s <= t => Segments(tx)[s] <= Segments(tx)[t]
      /\ Segments(tx)[tx.start] = 0
  BY SegmentsType
<1>2. /\ Readings(tx) \in SUBSET Nat
      /\ \A t \in Readings(tx) : tx.start <= t /\ t <= tx.end
      /\ tx.start \in Readings(tx) /\ (tx.stopped => tx.end \in Readings(tx))
      /\ tx.start \in Nat /\ tx.end \in Nat /\ tx.start <= tx.end
  BY ReadingsType DEF TxOK
<1>3. Curve(Segments(tx), tx.start, tx.end)
  BY <1>1, <1>2 DEF Curve
<1>4. EnergyAt(Segments(tx), tx.start) = 0
  BY <1>1, <1>2, <1>3, EnergyWithin
<1>5. ASSUME tx.stopped, tx.start < tx.end, tx.meterStart <= tx.meterStop
      PROVE  EnergyAt(Segments(tx), tx.end) = tx.meterStop - tx.meterStart
  <2>1. EnergyAt(Segments(tx), tx.end) = Reconciled(tx, tx.end)
    BY <1>1, <1>2, <1>3, <1>5, EnergyWithin
  <2>2. ~ (tx.meterStop - tx.meterStart < 0)
    BY <1>5 DEF TxOK
  <2> QED BY <1>5, <2>1, <2>2 DEF Reconciled
<1> QED BY <1>1, <1>3, <1>4, <1>5

-----------------------------------------------------------------------------
(* The energy of the parts                                                 *)

(* What a part bills, Wh by Wh.                                            *)
Units(part) == part.cum .. part.cum + part.wh - 1

SplitCuts(p, from, to) == {from, to} \cup {w \in Thresholds(p) : from < w /\ w < to}

(* When the energy passes a cut, from when it passed the one before.       *)
CutBelow(C, w) == Max({u \in C : u < w})

AtStep(C, a, b, from, to, at, w) ==
  IF w = from THEN a
  ELSE LET v == CutBelow(C, w) IN at[v] + ((b - at[v]) * (w - v)) \div (to - v)

At(C, a, b, from, to) == CHOOSE at : at = [w \in C |-> AtStep(C, a, b, from, to, at, w)]

(* Split with its recursive function under a name of its own.              *)
LEMMA SplitForm ==
  ASSUME NEW p, NEW a, NEW b, NEW from, NEW to
  PROVE  Split(p, a, b, from, to) =
           {[at |-> At(SplitCuts(p, from, to), a, b, from, to)[q[1]], cum |-> q[1], wh |-> q[2] - q[1]] :
              q \in Consecutive(SplitCuts(p, from, to))}
BY Zenon DEF Split, SplitCuts, At, AtStep, CutBelow

CutsOK(C, from, to) ==
  /\ C \in SUBSET Nat /\ from \in C /\ to \in C
  /\ \A w \in C : from <= w /\ w <= to

(* The cut before another.                                                 *)
LEMMA CutBefore ==
  ASSUME NEW C, NEW from, NEW to, CutsOK(C, from, to), NEW w \in C, w # from
  PROVE  /\ CutBelow(C, w) \in C /\ CutBelow(C, w) \in Nat
         /\ CutBelow(C, w) < w /\ w \in Nat /\ w <= to /\ to \in Nat
<1> DEFINE T == {u \in C : u < w}
<1>1. w \in Nat /\ from \in Nat /\ from < w /\ w <= to /\ to \in Nat
  BY DEF CutsOK
<1>2. T \in SUBSET Nat /\ T # {} /\ \A u \in T : u <= w
  <2>1. from \in T
    BY <1>1 DEF CutsOK
  <2>2. T \in SUBSET Nat
    BY DEF CutsOK
  <2> HIDE DEF T
  <2>3. \A u \in T : u <= w
    BY <1>1, <2>2 DEF T
  <2> QED BY <2>1, <2>2, <2>3
<1>3. Max(T) \in T
  <2> HIDE DEF T
  <2> QED BY <1>1, <1>2, MaxIn
<1> QED BY <1>1, <1>2, <1>3 DEF CutBelow

(* The step to a cut depends on the one before only.                       *)
LEMMA AtStepSame ==
  ASSUME NEW C, NEW a, NEW b, NEW from, NEW to, CutsOK(C, from, to), NEW w \in C, NEW g, NEW h,
         \A v \in C : v < w => g[v] = h[v]
  PROVE  AtStep(C, a, b, from, to, g, w) = AtStep(C, a, b, from, to, h, w)
<1> DEFINE v == CutBelow(C, w)
<1>1. CASE w = from
  BY <1>1 DEF AtStep
<1>2. CASE w # from
  <2>1. g[v] = h[v]
    BY <1>2, CutBefore
  <2>2. /\ AtStep(C, a, b, from, to, g, w) = g[v] + ((b - g[v]) * (w - v)) \div (to - v)
        /\ AtStep(C, a, b, from, to, h, w) = h[v] + ((b - h[v]) * (w - v)) \div (to - v)
    BY <1>2 DEF AtStep
  <2> HIDE DEF v
  <2> QED BY <2>1, <2>2
<1> QED BY <1>1, <1>2

(* There is such a function.                                               *)
LEMMA AtExists ==
  ASSUME NEW C, NEW a, NEW b, NEW from, NEW to, CutsOK(C, from, to)
  PROVE  At(C, a, b, from, to) = [w \in C |-> AtStep(C, a, b, from, to, At(C, a, b, from, to), w)]
<1> DEFINE F(g, w) == AtStep(C, a, b, from, to, g, w)
           Good(g, n) == \A w \in C : w < n => g[w] = F(g, w)
           T == {n \in Nat : \E g : Good(g, n)}
<1>0. \A g, h : \A w \in C : (\A v \in C : v < w => g[v] = h[v]) => F(g, w) = F(h, w)
  BY AtStepSame
<1>00. \A w \in C : w \in Nat /\ w < to + 1
  BY DEF CutsOK
<1> HIDE DEF F
<1>1. 0 \in T
  <2>1. Good([w \in C |-> 0], 0)
    BY <1>00
  <2> HIDE DEF Good
  <2> QED BY <2>1
<1>2. ASSUME NEW n \in T PROVE n + 1 \in T
  <2>1. PICK g : Good(g, n)
    OBVIOUS
  <2> DEFINE h == [w \in C |-> F(g, w)]
  <2>2. \A v \in C : v < n => h[v] = g[v]
    BY <2>1
  <2>3. ASSUME NEW w \in C, w < n + 1 PROVE h[w] = F(h, w)
    <3>1. \A v \in C : v < w => g[v] = h[v]
      BY <1>00, <2>2, <2>3
    <3>2. h[w] = F(g, w)
      OBVIOUS
    <3> HIDE DEF h
    <3> QED BY <1>0, <3>1, <3>2
  <2> HIDE DEF h
  <2>4. Good(h, n + 1)
    BY <2>3
  <2> HIDE DEF Good
  <2> QED BY <2>4
<1>3. T = Nat
  <2> T \in SUBSET Nat
    OBVIOUS
  <2> HIDE DEF T
  <2> QED BY <1>1, <1>2, SetInduction
<1>4. to + 1 \in T
  BY <1>3 DEF CutsOK
<1>5. PICK g : Good(g, to + 1)
  BY <1>4
<1> DEFINE h == [w \in C |-> F(g, w)]
<1>6. \A v \in C : g[v] = h[v]
  BY <1>00, <1>5
<1>7. h = [w \in C |-> F(h, w)]
  <2>1. ASSUME NEW w \in C PROVE F(g, w) = F(h, w)
    <3> HIDE DEF h
    <3> QED BY <1>0, <1>6
  <2>2. h = [w \in C |-> F(g, w)]
    OBVIOUS
  <2> HIDE DEF h
  <2> QED BY <2>1, <2>2
<1> HIDE DEF h
<1> QED BY <1>7, Zenon DEF At, F

(* The instants lie between those of the ends.                             *)
LEMMA AtType ==
  ASSUME NEW C, NEW a \in Nat, NEW b \in Nat, a <= b, NEW from, NEW to, CutsOK(C, from, to)
  PROVE  \A w \in C : At(C, a, b, from, to)[w] \in Nat
<1> DEFINE at == At(C, a, b, from, to)
           T == {n \in Nat : \A w \in C : w < n => at[w] \in a .. b}
<1>1. at = [w \in C |-> AtStep(C, a, b, from, to, at, w)]
  BY AtExists
<1> HIDE DEF at
<1>2. \A w \in C : at[w] = AtStep(C, a, b, from, to, at, w)
  BY <1>1
<1>3. \A w \in C : w \in Nat /\ w < to + 1
  BY DEF CutsOK
<1>4. 0 \in T
  BY <1>3
<1>5. ASSUME NEW n \in T PROVE n + 1 \in T
  <2> SUFFICES ASSUME NEW w \in C, w < n + 1 PROVE at[w] \in a .. b
    OBVIOUS
  <2>1. CASE w = from
    <3>1. at[w] = a
      BY <1>2, <2>1, Zenon DEF AtStep
    <3> QED BY <3>1
  <2>2. CASE w # from
    <3> DEFINE v == CutBelow(C, w)
               k == (b - at[v]) * (w - v)
    <3>1. v \in C /\ v \in Nat /\ v < w /\ w \in Nat /\ w <= to /\ to \in Nat
      BY <2>2, CutBefore
    <3>2. at[v] \in a .. b
      BY <3>1
    <3>3. at[w] = at[v] + k \div (to - v)
      BY <1>2, <2>2 DEF AtStep
    <3> HIDE DEF v
    <3>4. to - v \in Nat \ {0} /\ w - v \in Nat /\ b - at[v] \in Nat /\ w - v <= to - v
      BY <3>1, <3>2
    <3>5. k \in Nat /\ k <= (b - at[v]) * (to - v)
      <4>1. \A x, y, z \in Nat : x <= y => z * x \in Nat /\ z * x <= z * y
        OBVIOUS
      <4> QED BY <3>4, <4>1
    <3> HIDE DEF k
    <3>6. k \div (to - v) \in Nat /\ k \div (to - v) <= b - at[v]
      <4>1. /\ k \div (to - v) \in Nat /\ k % (to - v) \in Nat
            /\ k = (to - v) * (k \div (to - v)) + (k % (to - v)) /\ k % (to - v) < to - v
        BY <3>4, <3>5, DivMod
      <4> QED BY <3>4, <3>5, <4>1, RoundNat
    <3> QED BY <3>2, <3>3, <3>6
  <2> QED BY <2>1, <2>2
<1>6. T = Nat
  <2> T \in SUBSET Nat
    OBVIOUS
  <2> HIDE DEF T
  <2> QED BY <1>4, <1>5, SetInduction
<1>7. to + 1 \in T
  BY <1>6 DEF CutsOK
<1> QED BY <1>3, <1>7 DEF at

(* The thresholds of the elements are finitely many.                       *)
LEMMA ThresholdsType ==
  ASSUME NEW p \in PlanSet
  PROVE  Thresholds(p) \in SUBSET Nat
<1> SUFFICES ASSUME NEW i \in ElementsOf(p, "ENERGY")
             PROVE  p.elements[i].restr.minWh \in Nat /\ p.elements[i].restr.maxWh \in Nat
  BY DEF Thresholds
<1>1. p.elements \in Seq(ElementSet) /\ i \in DOMAIN p.elements
  BY DEF PlanSet, ElementsOf
<1>2. p.elements[i] \in ElementSet
  BY <1>1
<1>3. p.elements[i].restr \in RestrictionSet
  BY <1>2 DEF ElementSet
<1> QED BY <1>3 DEF RestrictionSet

(* So are the cuts of a piece, which are between its ends.                 *)
LEMMA SplitCutsType ==
  ASSUME NEW p \in PlanSet, NEW from \in Nat, NEW to \in Nat, from <= to
  PROVE  /\ SplitCuts(p, from, to) \in SUBSET Nat /\ IsFiniteSet(SplitCuts(p, from, to))
         /\ \A w \in SplitCuts(p, from, to) : from <= w /\ w <= to
         /\ CutsOK(SplitCuts(p, from, to), from, to)
<1>1. SplitCuts(p, from, to) \in SUBSET Nat /\ \A w \in SplitCuts(p, from, to) : from <= w /\ w <= to
  BY ThresholdsType DEF SplitCuts
<1>2. IsFiniteSet(SplitCuts(p, from, to))
  BY <1>1, FS_BoundedSetOfNaturals
<1> QED BY <1>1, <1>2 DEF SplitCuts, CutsOK

(* The parts of a split have their energy between its ends, each its own,  *)
(* and all of it.                                                          *)
LEMMA SplitUnits ==
  ASSUME NEW p \in PlanSet, NEW a \in Nat, NEW b \in Nat, a <= b, NEW from \in Nat, NEW to \in Nat, from <= to
  PROVE  /\ IsFiniteSet(Split(p, a, b, from, to))
         /\ \A x \in Split(p, a, b, from, to) :
              /\ x.at \in Nat /\ x.cum \in Nat /\ x.wh \in Nat \ {0}
              /\ from <= x.cum /\ x.cum + x.wh <= to
              /\ \A w \in Thresholds(p) : x.cum < w => x.cum + x.wh <= w
         /\ \A x, y \in Split(p, a, b, from, to) : x # y => Units(x) \cap Units(y) = {}
         /\ \A w \in Nat : from <= w /\ w < to => \E x \in Split(p, a, b, from, to) : w \in Units(x)
<1> DEFINE C == SplitCuts(p, from, to)
           S == Split(p, a, b, from, to)
           at == At(C, a, b, from, to)
<1>1. S = {[at |-> at[q[1]], cum |-> q[1], wh |-> q[2] - q[1]] : q \in Consecutive(C)}
  BY SplitForm
<1> DEFINE part(q) == [at |-> at[q[1]], cum |-> q[1], wh |-> q[2] - q[1]]
<1>2. /\ C \in SUBSET Nat /\ IsFiniteSet(C) /\ from \in C /\ to \in C
      /\ \A w \in C : from <= w /\ w <= to /\ at[w] \in Nat
  BY SplitCutsType, AtType DEF CutsOK
<1>3. \A w \in Thresholds(p) : w \in Nat /\ (from < w /\ w < to => w \in C)
  BY ThresholdsType DEF SplitCuts
<1> HIDE DEF C, S, at
<1>4. ASSUME NEW q \in Consecutive(C)
      PROVE  /\ q[1] \in C /\ q[2] \in C /\ q[1] < q[2] /\ q[1] \in Nat /\ q[2] \in Nat
             /\ q = <<q[1], q[2]>> /\ \A c \in C : c <= q[1] \/ q[2] <= c
  BY <1>2, Neighbours
<1>5. ASSUME NEW q \in Consecutive(C)
      PROVE  /\ part(q).at = at[q[1]] /\ part(q).cum = q[1] /\ part(q).wh = q[2] - q[1]
             /\ Units(part(q)) = q[1] .. q[2] - 1
  <2>1. q[1] \in Nat /\ q[2] \in Nat
    BY <1>4
  <2>2. part(q).at = at[q[1]] /\ part(q).cum = q[1] /\ part(q).wh = q[2] - q[1]
    OBVIOUS
  <2>3. part(q).cum + part(q).wh - 1 = q[2] - 1
    BY <2>1, <2>2
  <2> QED BY <2>1, <2>2, <2>3 DEF Units
<1>6. S = {part(q) : q \in Consecutive(C)}
  BY <1>1
<1> HIDE DEF part
<1>7. IsFiniteSet(S)
  <2> DEFINE f == [q \in Consecutive(C) |-> part(q)]
  <2>1. IsFiniteSet({f[q] : q \in Consecutive(C)})
    <3> HIDE DEF f
    <3> QED BY <1>2, ConsecutiveFinite, FiniteImage
  <2>2. {f[q] : q \in Consecutive(C)} = S
    BY <1>6
  <2> QED BY <2>1, <2>2
<1>8. ASSUME NEW x \in S
      PROVE  /\ x.at \in Nat /\ x.cum \in Nat /\ x.wh \in Nat \ {0} /\ from <= x.cum /\ x.cum + x.wh <= to
             /\ \A w \in Thresholds(p) : x.cum < w => x.cum + x.wh <= w
  <2>1. PICK q \in Consecutive(C) : x = part(q)
    BY <1>6
  <2>0. x.cum = q[1] /\ x.wh = q[2] - q[1] /\ x.at = at[q[1]]
    BY <1>5, <2>1
  <2>2. /\ x.cum = q[1] /\ x.wh = q[2] - q[1] /\ q[1] \in Nat /\ q[2] \in Nat /\ q[1] < q[2]
        /\ q[1] \in C /\ q[2] \in C /\ x.cum + x.wh = q[2] /\ x.at = at[q[1]]
    BY <1>4, <2>0
  <2>3. from <= q[1] /\ q[2] <= to /\ at[q[1]] \in Nat
    BY <1>2, <2>2
  <2>4. ASSUME NEW w \in Thresholds(p), q[1] < w PROVE q[2] <= w
    <3>1. w \in Nat /\ (w < to => w \in C)
      BY <1>3, <2>2, <2>3, <2>4
    <3>2. w \in C => q[2] <= w
      BY <1>4, <2>2, <2>4, <3>1
    <3> QED BY <2>2, <2>3, <3>1, <3>2
  <2> QED BY <2>2, <2>3, <2>4
<1>9. ASSUME NEW x \in S, NEW y \in S, x # y PROVE Units(x) \cap Units(y) = {}
  <2>1. PICK q \in Consecutive(C) : x = part(q)
    BY <1>6
  <2>2. PICK r \in Consecutive(C) : y = part(r)
    BY <1>6
  <2>3. q[1] # r[1]
    <3> SUFFICES ASSUME q[1] = r[1] PROVE q = r
      BY <1>9, <2>1, <2>2
    <3>1. r[2] <= q[1] \/ q[2] <= r[2]
      BY <1>4
    <3>2. q[2] <= r[1] \/ r[2] <= q[2]
      BY <1>4
    <3>3. /\ q[1] \in Nat /\ q[2] \in Nat /\ q[1] < q[2]
          /\ r[1] \in Nat /\ r[2] \in Nat /\ r[1] < r[2]
      BY <1>4
    <3>4. q[2] = r[2]
      BY <3>1, <3>2, <3>3
    <3> QED BY <1>4, <3>4
  <2>4. q[2] <= r[1] \/ r[2] <= q[1]
    BY <1>4, <2>3
  <2>5. Units(x) = q[1] .. q[2] - 1 /\ q[1] \in Nat /\ q[2] \in Nat
    BY <1>4, <1>5, <2>1
  <2>6. Units(y) = r[1] .. r[2] - 1 /\ r[1] \in Nat /\ r[2] \in Nat
    BY <1>4, <1>5, <2>2
  <2>7. ASSUME NEW w \in Units(x), w \in Units(y) PROVE FALSE
    <3>1. q[1] <= w /\ w < q[2]
      BY <2>5, <2>7
    <3>2. r[1] <= w /\ w < r[2]
      BY <2>6, <2>7
    <3> QED BY <2>4, <2>5, <2>6, <3>1, <3>2
  <2> QED BY <2>7
<1>10. ASSUME NEW w \in Nat, from <= w, w < to PROVE \E x \in S : w \in Units(x)
  <2>1. PICK q \in Consecutive(C) : q[1] <= w /\ w < q[2]
    BY <1>2, <1>10, Between
  <2>2. Units(part(q)) = q[1] .. q[2] - 1
    BY <1>5, <2>1
  <2>3. q[1] \in Nat /\ q[2] \in Nat
    BY <1>4, <2>1
  <2>4. w \in q[1] .. q[2] - 1
    BY <1>10, <2>1, <2>3
  <2>5. w \in Units(part(q))
    BY <2>2, <2>4
  <2> QED BY <1>6, <2>1, <2>5
<1> QED BY <1>7, <1>8, <1>9, <1>10 DEF S

EnergyCuts(tx) == Readings(tx) \cup Boundaries(tx, "ENERGY", tx.start, tx.end)

(* The instants between which the energy is divided are finitely many, the *)
(* start and the end among them.                                           *)
LEMMA EnergyCutsType ==
  ASSUME NEW tx, TxOK(tx)
  PROVE  /\ EnergyCuts(tx) \in SUBSET Nat /\ IsFiniteSet(EnergyCuts(tx)) /\ tx.start \in EnergyCuts(tx)
         /\ \A t \in EnergyCuts(tx) : tx.start <= t /\ t <= tx.end
         /\ EnergyPieces(tx, Segments(tx)) = Consecutive(EnergyCuts(tx))
         /\ tx.stopped => tx.end \in EnergyCuts(tx)
<1>1. /\ Readings(tx) \in SUBSET Nat /\ \A t \in Readings(tx) : tx.start <= t /\ t <= tx.end
      /\ tx.start \in Readings(tx) /\ (tx.stopped => tx.end \in Readings(tx))
      /\ tx.start \in Nat /\ tx.end \in Nat
  BY ReadingsType DEF TxOK
<1>2. \A t \in Boundaries(tx, "ENERGY", tx.start, tx.end) : t \in Nat /\ tx.start <= t /\ t <= tx.end
  BY <1>1 DEF Boundaries
<1>3. EnergyCuts(tx) \in SUBSET Nat /\ \A t \in EnergyCuts(tx) : tx.start <= t /\ t <= tx.end
  BY <1>1, <1>2 DEF EnergyCuts
<1>4. IsFiniteSet(EnergyCuts(tx))
  BY <1>1, <1>3, FS_BoundedSetOfNaturals
<1>5. EnergyPieces(tx, Segments(tx)) = Consecutive(EnergyCuts(tx))
  BY SegmentsCurve DEF EnergyPieces, EnergyCuts
<1> QED BY <1>1, <1>3, <1>4, <1>5 DEF EnergyCuts

(* The parts of a whole transaction have its energy, each its own.         *)
PartOK(tx, x) ==
  /\ x.at \in Nat /\ x.cum \in Nat /\ x.wh \in Nat \ {0}
  /\ \A w \in Thresholds(tx.plan) : x.cum < w => x.cum + x.wh <= w

(* Every Wh from the start to the end is in exactly one of the parts, and  *)
(* every part of the energy is between the thresholds next to it.          *)
LEMMA EnergyUnits ==
  ASSUME NEW tx, TxOK(tx)
  PROVE  LET parts == EnergyParts(tx, Segments(tx))
             whole == EnergyAt(Segments(tx), tx.end)
         IN  /\ IsFiniteSet(parts) /\ \A x \in parts : PartOK(tx, x) /\ x.cum + x.wh <= whole
             /\ \A x, y \in parts : x # y => Units(x) \cap Units(y) = {}
             /\ tx.stopped => \A w \in Nat : w < whole => \E x \in parts : w \in Units(x)
<1> DEFINE E(t) == EnergyAt(Segments(tx), t)
           C == EnergyCuts(tx)
           P == Consecutive(C)
           F == [p \in P |-> Split(tx.plan, p[1], p[2], E(p[1]), E(p[2]))]
           parts == EnergyParts(tx, Segments(tx))
<1>1. /\ C \in SUBSET Nat /\ IsFiniteSet(C) /\ tx.start \in C /\ (tx.stopped => tx.end \in C)
      /\ \A t \in C : tx.start <= t /\ t <= tx.end
  BY EnergyCutsType
<1>2. parts = UnionOf(F, P)
  BY EnergyCutsType DEF EnergyParts, UnionOf
<1>3. tx.plan \in PlanSet /\ tx.start \in Nat /\ tx.end \in Nat
  BY DEF TxOK
<1>4. /\ \A t \in C : E(t) \in Nat
      /\ \A s, t \in C : s <= t => E(s) <= E(t)
      /\ E(tx.start) = 0 /\ E(tx.end) \in Nat /\ \A t \in C : E(t) <= E(tx.end)
  BY <1>1, <1>3, SegmentsCurve, EnergyWithin, EnergyGrows DEF TxOK
<1> HIDE DEF E, C, parts
<1>5. ASSUME NEW p \in P
      PROVE  /\ p[1] \in C /\ p[2] \in C /\ p[1] \in Nat /\ p[2] \in Nat /\ p[1] < p[2]
             /\ p = <<p[1], p[2]>> /\ \A c \in C : c <= p[1] \/ p[2] <= c
             /\ E(p[1]) \in Nat /\ E(p[2]) \in Nat /\ E(p[1]) <= E(p[2]) /\ E(p[2]) <= E(tx.end)
  <2>1. /\ p[1] \in C /\ p[2] \in C /\ p[1] \in Nat /\ p[2] \in Nat /\ p[1] < p[2]
        /\ p = <<p[1], p[2]>> /\ \A c \in C : c <= p[1] \/ p[2] <= c
    BY <1>1, Neighbours
  <2>2. p[1] <= p[2]
    BY <2>1
  <2> QED BY <1>4, <2>1, <2>2
<1>6. ASSUME NEW p \in P
      PROVE  /\ IsFiniteSet(F[p])
             /\ \A x \in F[p] : /\ PartOK(tx, x)
                                /\ E(p[1]) <= x.cum /\ x.cum + x.wh <= E(p[2])
             /\ \A x, y \in F[p] : x # y => Units(x) \cap Units(y) = {}
             /\ \A w \in Nat : E(p[1]) <= w /\ w < E(p[2]) => \E x \in F[p] : w \in Units(x)
  <2>1. F[p] = Split(tx.plan, p[1], p[2], E(p[1]), E(p[2]))
    OBVIOUS
  <2>2. E(p[1]) \in Nat /\ E(p[2]) \in Nat /\ E(p[1]) <= E(p[2])
    BY <1>5
  <2>4. p[1] \in Nat /\ p[2] \in Nat /\ p[1] <= p[2]
    BY <1>5
  <2>3. \A from, to \in Nat : from <= to =>
          LET S == Split(tx.plan, p[1], p[2], from, to) IN
          /\ IsFiniteSet(S)
          /\ \A x \in S : PartOK(tx, x) /\ from <= x.cum /\ x.cum + x.wh <= to
          /\ \A x, y \in S : x # y => Units(x) \cap Units(y) = {}
          /\ \A w \in Nat : from <= w /\ w < to => \E x \in S : w \in Units(x)
    <3> SUFFICES ASSUME NEW from \in Nat, NEW to \in Nat, from <= to
                 PROVE  LET S == Split(tx.plan, p[1], p[2], from, to) IN
                        /\ IsFiniteSet(S)
                        /\ \A x \in S : PartOK(tx, x) /\ from <= x.cum /\ x.cum + x.wh <= to
                        /\ \A x, y \in S : x # y => Units(x) \cap Units(y) = {}
                        /\ \A w \in Nat : from <= w /\ w < to => \E x \in S : w \in Units(x)
      OBVIOUS
    <3>1. tx.plan \in PlanSet /\ p[1] \in Nat /\ p[2] \in Nat /\ p[1] <= p[2]
      BY <1>3, <2>4
    <3> QED BY <3>1, SplitUnits DEF PartOK
  <2> HIDE DEF F
  <2> QED BY <2>1, <2>2, <2>3
<1> HIDE DEF F
<1>7. IsFiniteSet(parts)
  BY <1>1, <1>2, <1>6, ConsecutiveFinite, FiniteUnion
<1>8. ASSUME NEW x \in parts PROVE PartOK(tx, x) /\ x.cum + x.wh <= E(tx.end)
  <2>1. PICK p \in P : x \in F[p]
    BY <1>2 DEF UnionOf
  <2>2. PartOK(tx, x) /\ x.cum + x.wh <= E(p[2])
    BY <1>6, <2>1
  <2>3. x.cum \in Nat /\ x.wh \in Nat
    BY <2>2 DEF PartOK
  <2> QED BY <1>4, <1>5, <2>2, <2>3
<1>9. ASSUME NEW x \in parts, NEW y \in parts, x # y PROVE Units(x) \cap Units(y) = {}
  <2>1. PICK p \in P : x \in F[p]
    BY <1>2 DEF UnionOf
  <2>2. PICK r \in P : y \in F[r]
    BY <1>2 DEF UnionOf
  <2>3. CASE p = r
    BY <1>6, <1>9, <2>1, <2>2, <2>3
  <2>4. CASE p # r
    <3>1. p[2] <= r[1] \/ r[2] <= p[1]
      <4>1. p[1] # r[1] \/ p[2] # r[2]
        BY <1>5, <2>4
      <4>2. \A c \in {r[1], r[2]} : c <= p[1] \/ p[2] <= c
        BY <1>5
      <4>3. \A c \in {p[1], p[2]} : c <= r[1] \/ r[2] <= c
        BY <1>5
      <4>4. /\ p[1] \in Nat /\ p[2] \in Nat /\ p[1] < p[2]
            /\ r[1] \in Nat /\ r[2] \in Nat /\ r[1] < r[2]
        BY <1>5
      <4> QED BY <4>1, <4>2, <4>3, <4>4
    <3>2. E(p[2]) <= E(r[1]) \/ E(r[2]) <= E(p[1])
      BY <1>4, <1>5, <3>1
    <3>3. /\ E(p[1]) <= x.cum /\ x.cum + x.wh <= E(p[2]) /\ x.cum \in Nat /\ x.wh \in Nat
          /\ E(r[1]) <= y.cum /\ y.cum + y.wh <= E(r[2]) /\ y.cum \in Nat /\ y.wh \in Nat
      BY <1>6, <2>1, <2>2 DEF PartOK
    <3>4. E(p[1]) \in Nat /\ E(p[2]) \in Nat /\ E(r[1]) \in Nat /\ E(r[2]) \in Nat
      BY <1>5
    <3> QED BY <3>2, <3>3, <3>4 DEF Units
  <2> QED BY <2>3, <2>4
<1>10. ASSUME tx.stopped, NEW w \in Nat, w < E(tx.end) PROVE \E x \in parts : w \in Units(x)
  <2> DEFINE T == {c \in C : w < E(c)}
  <2>1. PICK b \in T : \A c \in T : b <= c
    <3>1. T \in SUBSET Nat /\ T # {}
      BY <1>1, <1>10
    <3> HIDE DEF T
    <3> QED BY <3>1, Least
  <2>2. b \in C /\ b \in Nat /\ w < E(b) /\ \A c \in C : c \in Nat /\ (c < b => E(c) <= w)
    <3>1. ASSUME NEW c \in C, c < b PROVE E(c) <= w
      <4>1. c \notin T
        BY <1>1, <2>1, <3>1
      <4>2. E(c) \in Nat
        BY <1>4
      <4> QED BY <4>1, <4>2
    <3> QED BY <1>1, <2>1, <3>1
  <2> HIDE DEF T
  <2>3. tx.start < b
    <3>1. tx.start # b
      BY <1>4, <2>2
    <3> QED BY <1>1, <1>3, <2>2, <3>1
  <2>4. PICK p \in P : p[1] <= b - 1 /\ b - 1 < p[2]
    <3>1. b - 1 \in Nat /\ tx.start <= b - 1 /\ b - 1 < b
      BY <1>3, <2>2, <2>3
    <3> QED BY <1>1, <2>2, <3>1, Between
  <2>5. p[2] = b /\ p[1] < b
    <3>1. b <= p[1] \/ p[2] <= b
      BY <1>5, <2>2
    <3> QED BY <1>5, <2>2, <2>4, <3>1
  <2>6. E(p[1]) <= w /\ w < E(p[2])
    BY <1>5, <2>2, <2>5
  <2>7. PICK x \in F[p] : w \in Units(x)
    BY <1>6, <2>6
  <2> QED BY <1>2, <2>7 DEF UnionOf
<1> QED BY <1>7, <1>8, <1>9, <1>10 DEF parts, E

-----------------------------------------------------------------------------
(* Lines                                                                   *)

(* The elements of a dimension are elements of the tariff.                 *)
LEMMA ElementsType ==
  ASSUME NEW p \in PlanSet, NEW dim, NEW i \in ElementsOf(p, dim)
  PROVE  /\ i \in Nat \ {0} /\ i \in DOMAIN p.elements
         /\ p.elements[i] \in ElementSet /\ p.elements[i].dim = dim
         /\ p.elements[i].price \in Nat /\ p.elements[i].step \in Nat \ {0}
         /\ p.elements[i].vat \in Nat
         /\ p.elements[i].restr.minWh \in Nat /\ p.elements[i].restr.maxWh \in Nat
<1>1. p.elements \in Seq(ElementSet) /\ i \in DOMAIN p.elements /\ p.elements[i].dim = dim
  BY DEF PlanSet, ElementsOf
<1>2. i \in Nat \ {0} /\ p.elements[i] \in ElementSet
  BY <1>1
<1>3. p.elements[i].restr \in RestrictionSet
  BY <1>2 DEF ElementSet
<1> QED BY <1>1, <1>2, <1>3 DEF ElementSet, RestrictionSet

(* The element that is found is one of the dimension's, and matches.       *)
LEMMA FirstMatchIn ==
  ASSUME NEW p \in PlanSet, NEW dim, NEW start, NEW t, NEW cum
  PROVE  LET i == FirstMatch(p, dim, start, t, cum)
         IN  i = 0 \/ (i \in ElementsOf(p, dim) /\ Matches(p.elements[i].restr, start, t, cum))
<1> DEFINE fit == {i \in ElementsOf(p, dim) : Matches(p.elements[i].restr, start, t, cum)}
<1>1. fit \in SUBSET Nat
  BY ElementsType
<1>2. fit # {} => Min(fit) \in fit
  <2> HIDE DEF fit
  <2> QED BY <1>1, MinIn
<1>3. FirstMatch(p, dim, start, t, cum) = IF fit = {} THEN 0 ELSE Min(fit)
  BY DEF FirstMatch
<1> QED BY <1>2, <1>3

Mine(tx, dim, parts, i) == {p \in parts : ElementAt(tx, dim, p) = i}
Whs(S) == [p \in S |-> p.wh]
Raw(tx, dim, parts, i) == SumFunctionOnSet(Whs(Mine(tx, dim, parts, i)), Mine(tx, dim, parts, i))

FirstOf(tx, dim, parts, i) == Min({p.at : p \in Mine(tx, dim, parts, i)})

LineOf(tx, dim, parts, per, i) ==
  [dim |-> dim, of |-> <<>>, el |-> i, raw |-> Raw(tx, dim, parts, i), rate |-> tx.plan.elements[i].vat,
   first |-> FirstOf(tx, dim, parts, i),
   gross |-> DivideRounded(CeilToStep(Raw(tx, dim, parts, i), tx.plan.elements[i].step) * tx.plan.elements[i].price,
                           per, tx.plan.rounding)]

Found(tx, dim, parts) == {ElementAt(tx, dim, p) : p \in parts} \ {0}

(* LinesOf with its local functions under names of their own.              *)
LEMMA LinesForm ==
  ASSUME NEW tx, NEW dim, NEW parts, NEW per
  PROVE  LinesOf(tx, dim, parts, per) = {LineOf(tx, dim, parts, per, i) : i \in Found(tx, dim, parts)}
BY Zenon DEF LinesOf, LineOf, FirstOf, Raw, Whs, Mine, Found, SumFunction

(* The fields of a line.                                                   *)
LEMMA LineFields ==
  ASSUME NEW tx, NEW dim, NEW parts, NEW per, NEW i
  PROVE  LET l == LineOf(tx, dim, parts, per, i)
         IN  /\ l.dim = dim /\ l.el = i /\ l.raw = Raw(tx, dim, parts, i) /\ l.rate = tx.plan.elements[i].vat
             /\ l.first = FirstOf(tx, dim, parts, i)
             /\ l.gross = DivideRounded(CeilToStep(l.raw, tx.plan.elements[i].step) * tx.plan.elements[i].price,
                                        per, tx.plan.rounding)
<1> DEFINE r == Raw(tx, dim, parts, i)
           g == DivideRounded(CeilToStep(r, tx.plan.elements[i].step) * tx.plan.elements[i].price,
                                        per, tx.plan.rounding)
           v == tx.plan.elements[i].vat
           m == FirstOf(tx, dim, parts, i)
<1>1. LineOf(tx, dim, parts, per, i) =
        [dim |-> dim, of |-> <<>>, el |-> i, raw |-> r, rate |-> v, first |-> m, gross |-> g]
  BY DEF LineOf
<1>2. \A l : l = [dim |-> dim, of |-> <<>>, el |-> i, raw |-> r, rate |-> v, first |-> m, gross |-> g] =>
         l.dim = dim /\ l.el = i /\ l.raw = r /\ l.rate = v /\ l.first = m /\ l.gross = g
  <2> HIDE DEF r, g, v, m
  <2> QED OBVIOUS
<1> QED BY <1>1, <1>2

(* A quantity in steps is a natural number.                                *)
LEMMA CeilType ==
  ASSUME NEW raw \in Nat, NEW step \in Nat \ {0}
  PROVE  CeilToStep(raw, step) \in Nat
<1>1. (raw + step - 1) \div step \in Nat
  <2>1. raw + step - 1 \in Nat
    OBVIOUS
  <2> QED BY <2>1, DivMod
<1>2. \A q \in Nat : q * step \in Nat
  OBVIOUS
<1> QED BY <1>1, <1>2 DEF CeilToStep

(* A line of the engine: a natural quantity of one of the elements of its  *)
(* dimension, and a natural price.                                         *)
IsBill(tx, dim, parts, lines) ==
  /\ IsFiniteSet(lines)
  /\ \A l \in lines : /\ l.dim = dim /\ l.rate \in Nat /\ l.gross \in Nat /\ l.raw \in Nat /\ l.first \in Nat
                       /\ l.el \in Found(tx, dim, parts) /\ l.raw = Raw(tx, dim, parts, l.el)
  /\ \A i \in Found(tx, dim, parts) : \E l \in lines : l.el = i
  /\ \A l, m \in lines : l.el = m.el => l = m

(* There is one line for each element that matches a part, and it bills    *)
(* the sum of the parts.                                                   *)
LEMMA LinesType ==
  ASSUME NEW tx, tx.plan \in PlanSet, NEW dim, NEW parts, IsFiniteSet(parts),
         \A x \in parts : x.at \in Nat /\ x.wh \in Nat, NEW per \in Nat \ {0}
  PROVE  IsBill(tx, dim, parts, LinesOf(tx, dim, parts, per))
<1> DEFINE I == Found(tx, dim, parts)
           L == LinesOf(tx, dim, parts, per)
           line(i) == LineOf(tx, dim, parts, per, i)
<1>1. L = {line(i) : i \in I}
  BY LinesForm
<1>2. IsFiniteSet(I)
  <2> DEFINE f == [x \in parts |-> ElementAt(tx, dim, x)]
  <2>1. IsFiniteSet({f[x] : x \in parts})
    <3> HIDE DEF f
    <3> QED BY FiniteImage
  <2>2. I \subseteq {f[x] : x \in parts}
    BY DEF Found
  <2> HIDE DEF f
  <2> QED BY <2>1, <2>2, FS_Subset
<1>3. IsFiniteSet(L)
  <2> DEFINE f == [i \in I |-> line(i)]
  <2>1. IsFiniteSet({f[i] : i \in I})
    <3> HIDE DEF f
    <3> QED BY <1>2, FiniteImage
  <2>2. {f[i] : i \in I} = L
    BY <1>1
  <2> QED BY <2>1, <2>2
<1>4. ASSUME NEW i \in I
      PROVE  /\ line(i).dim = dim /\ line(i).rate \in Nat /\ line(i).gross \in Nat /\ line(i).raw \in Nat
             /\ line(i).first \in Nat
             /\ line(i).el = i /\ line(i).raw = Raw(tx, dim, parts, i)
  <2>1. i \in ElementsOf(tx.plan, dim)
    <3>1. PICK x \in parts : i = ElementAt(tx, dim, x) /\ i # 0
      BY DEF Found
    <3> QED BY <3>1, FirstMatchIn DEF ElementAt
  <2> DEFINE first == FirstOf(tx, dim, parts, i)
  <2>0. first \in Nat
    <3> DEFINE A == {p.at : p \in Mine(tx, dim, parts, i)}
    <3>1. A \in SUBSET Nat /\ A # {}
      BY DEF Mine, Found
    <3> HIDE DEF A
    <3>2. Min(A) \in Nat
      BY <3>1, MinIn
    <3> QED BY <3>2 DEF A, FirstOf
  <2> DEFINE e == tx.plan.elements[i]
             r == Raw(tx, dim, parts, i)
             c == CeilToStep(r, e.step)
  <2>2. e.price \in Nat /\ e.step \in Nat \ {0} /\ e.vat \in Nat
    BY <2>1, ElementsType
  <2>3. r \in Nat
    <3> DEFINE M == Mine(tx, dim, parts, i)
    <3>1. IsFiniteSet(M) /\ \A x \in M : Whs(M)[x] \in Nat
      BY FS_Subset DEF Mine, Whs
    <3> HIDE DEF M
    <3>2. SumFunctionOnSet(Whs(M), M) \in Nat
      BY <3>1, SumNat
    <3> QED BY <3>2 DEF M, Raw
  <2>4. /\ line(i).dim = dim /\ line(i).el = i /\ line(i).raw = r /\ line(i).rate = e.vat
        /\ line(i).first = first
        /\ line(i).gross = DivideRounded(c * e.price, per, tx.plan.rounding)
    <3>1. LET l == LineOf(tx, dim, parts, per, i)
          IN  /\ l.dim = dim /\ l.el = i /\ l.raw = Raw(tx, dim, parts, i) /\ l.rate = tx.plan.elements[i].vat
              /\ l.first = FirstOf(tx, dim, parts, i)
              /\ l.gross = DivideRounded(CeilToStep(l.raw, tx.plan.elements[i].step) * tx.plan.elements[i].price,
                                         per, tx.plan.rounding)
      BY LineFields
    <3> QED BY <3>1
  <2> HIDE DEF r, e, line, first
  <2>5. c \in Nat
    BY <2>2, <2>3, CeilType
  <2> HIDE DEF c
  <2>6. c * e.price \in Nat
    BY <2>2, <2>5
  <2>7. DivideRounded(c * e.price, per, tx.plan.rounding) \in Int /\ 0 <= DivideRounded(c * e.price, per, tx.plan.rounding)
    <3> DEFINE n == c * e.price
    <3>1. 0 \in Int /\ n \in Int /\ 0 * per <= n
      BY <2>6
    <3> HIDE DEF n
    <3>2. DivideRounded(n, per, tx.plan.rounding) \in Int /\ 0 <= DivideRounded(n, per, tx.plan.rounding)
      BY <3>1, RoundedBounds
    <3> QED BY <3>2 DEF n
  <2> QED BY <2>2, <2>3, <2>4, <2>7, <2>0 DEF r
<1> HIDE DEF I, L, line
<1>5. ASSUME NEW l \in L
      PROVE  /\ l.dim = dim /\ l.rate \in Nat /\ l.gross \in Nat /\ l.raw \in Nat /\ l.first \in Nat
             /\ l.el \in I /\ l.raw = Raw(tx, dim, parts, l.el) /\ l = line(l.el)
  <2>1. PICK i \in I : l = line(i)
    BY <1>1
  <2> QED BY <1>4, <2>1
<1>6. ASSUME NEW i \in I PROVE \E l \in L : l.el = i
  BY <1>1, <1>4
<1>7. ASSUME NEW l \in L, NEW m \in L, l.el = m.el PROVE l = m
  BY <1>5, <1>7
<1> QED BY <1>3, <1>5, <1>6, <1>7 DEF I, L, IsBill

(* The lines of the energy bill what the register counted, and no element  *)
(* more than lies between its thresholds.                                  *)
LEMMA EnergyLines ==
  ASSUME NEW tx, TxOK(tx), tx.stopped, NEW per \in Nat \ {0},
         ~ Unmatched(tx, "ENERGY", EnergyParts(tx, Segments(tx)))
  PROVE  LET lines == LinesOf(tx, "ENERGY", EnergyParts(tx, Segments(tx)), per)
         IN  /\ IsFiniteSet(lines)
             /\ SumFunction([l \in lines |-> l.raw]) = EnergyAt(Segments(tx), tx.end)
             /\ \A l \in lines : LET r == tx.plan.elements[l.el].restr IN l.raw <= r.maxWh - r.minWh
<1> DEFINE parts == EnergyParts(tx, Segments(tx))
           whole == EnergyAt(Segments(tx), tx.end)
           lines == LinesOf(tx, "ENERGY", parts, per)
           mine(i) == Mine(tx, "ENERGY", parts, i)
           V(i) == UNION {Units(x) : x \in mine(i)}
<1>1. /\ IsFiniteSet(parts) /\ \A x \in parts : PartOK(tx, x) /\ x.cum + x.wh <= whole
      /\ \A x, y \in parts : x # y => Units(x) \cap Units(y) = {}
      /\ \A w \in Nat : w < whole => \E x \in parts : w \in Units(x)
  BY EnergyUnits
<1>2. whole \in Nat /\ tx.plan \in PlanSet
  <2>1. Curve(Segments(tx), tx.start, tx.end)
    BY SegmentsCurve
  <2> QED BY <2>1, EnergyWithin DEF TxOK
<1>3. \A x \in parts : ElementAt(tx, "ENERGY", x) # 0
  BY DEF Unmatched
<1> HIDE DEF parts, whole
<1>4. \A x \in parts : x.at \in Nat /\ x.cum \in Nat /\ x.wh \in Nat \ {0}
  BY <1>1 DEF PartOK
<1>5. ASSUME NEW x \in parts
      PROVE  IsFiniteSet(Units(x)) /\ x.wh = Cardinality(Units(x))
  <2>1. Units(x) = x.cum .. x.cum + x.wh - 1 /\ x.cum \in Int /\ x.cum + x.wh - 1 \in Int
    BY <1>4 DEF Units
  <2>2. /\ IsFiniteSet(Units(x))
        /\ Cardinality(Units(x)) =
             IF x.cum > x.cum + x.wh - 1 THEN 0 ELSE (x.cum + x.wh - 1) - x.cum + 1
    BY <2>1, FS_Interval
  <2> QED BY <1>4, <2>2
<1>6. ASSUME NEW i
      PROVE  IsFiniteSet(V(i)) /\ Raw(tx, "ENERGY", parts, i) = Cardinality(V(i))
  <2> DEFINE M == mine(i)
             U == [x \in M |-> Units(x)]
             wh == Whs(M)
  <2>1. M \subseteq parts /\ IsFiniteSet(M)
    BY <1>1, FS_Subset DEF Mine
  <2>2. \A x \in M : IsFiniteSet(U[x]) /\ wh[x] = Cardinality(U[x])
    BY <1>5, <2>1 DEF Whs
  <2>3. \A x, y \in M : x # y => U[x] \cap U[y] = {}
    BY <1>1, <2>1
  <2>4. UnionOf(U, M) = V(i)
    BY DEF UnionOf
  <2>5. Raw(tx, "ENERGY", parts, i) = SumFunctionOnSet(wh, M)
    BY DEF Raw
  <2> HIDE DEF U, M, wh, V
  <2>6. IsFiniteSet(UnionOf(U, M)) /\ SumFunctionOnSet(wh, M) = Cardinality(UnionOf(U, M))
    BY <2>1, <2>2, <2>3, SumOfSizes
  <2> QED BY <2>4, <2>5, <2>6
<1>7. /\ IsFiniteSet(lines)
      /\ \A l \in lines : l.el \in Found(tx, "ENERGY", parts) /\ l.raw = Raw(tx, "ENERGY", parts, l.el)
      /\ \A i \in Found(tx, "ENERGY", parts) : \E l \in lines : l.el = i
      /\ \A l, m \in lines : l.el = m.el => l = m
  <2>1. IsBill(tx, "ENERGY", parts, lines)
    BY <1>1, <1>2, <1>4, LinesType
  <2> HIDE DEF lines
  <2> QED BY <2>1 DEF IsBill
<1> HIDE DEF lines
<1>8. \A w : (\E l \in lines : w \in V(l.el)) <=> w \in 0 .. whole - 1
  <2>1. ASSUME NEW l \in lines, NEW w \in V(l.el) PROVE w \in 0 .. whole - 1
    <3>1. PICK x \in parts : w \in Units(x)
      BY <2>1 DEF Mine
    <3> QED BY <1>1, <1>2, <1>4, <3>1 DEF Units
  <2>2. ASSUME NEW w \in 0 .. whole - 1 PROVE \E l \in lines : w \in V(l.el)
    <3>1. PICK x \in parts : w \in Units(x)
      BY <1>1, <1>2
    <3>2. ElementAt(tx, "ENERGY", x) \in Found(tx, "ENERGY", parts)
      BY <1>3 DEF Found
    <3>3. PICK l \in lines : l.el = ElementAt(tx, "ENERGY", x)
      BY <1>7, <3>2
    <3>4. x \in mine(l.el)
      BY <3>3 DEF Mine
    <3> QED BY <3>1, <3>4
  <2> QED BY <2>1, <2>2
<1>9. \A l, m \in lines : l # m => V(l.el) \cap V(m.el) = {}
  <2> SUFFICES ASSUME NEW l \in lines, NEW m \in lines, l.el # m.el,
                      NEW x \in mine(l.el), NEW y \in mine(m.el)
               PROVE  Units(x) \cap Units(y) = {}
    BY <1>7
  <2>1. x \in parts /\ y \in parts /\ x # y
    BY DEF Mine
  <2> QED BY <1>1, <2>1
<1>10. SumFunction([l \in lines |-> l.raw]) = whole
  <2> DEFINE f == [l \in lines |-> l.raw]
             F == [l \in lines |-> V(l.el)]
  <2>1. SumFunction(f) = SumFunctionOnSet(f, lines)
    BY DEF SumFunction
  <2>2. \A l \in lines : IsFiniteSet(F[l]) /\ f[l] = Cardinality(F[l])
    BY <1>6, <1>7
  <2>3. \A l, m \in lines : l # m => F[l] \cap F[m] = {}
    <3> HIDE DEF V
    <3> QED BY <1>9
  <2>4. UnionOf(F, lines) = 0 .. whole - 1
    <3> HIDE DEF V
    <3> QED BY <1>8 DEF UnionOf
  <2> HIDE DEF f, F
  <2>5. SumFunctionOnSet(f, lines) = Cardinality(0 .. whole - 1)
    BY <1>7, <2>2, <2>3, <2>4, SumOfSizes
  <2>6. Cardinality(0 .. whole - 1) = whole
    <3>1. 0 \in Int /\ whole - 1 \in Int
      BY <1>2
    <3>2. Cardinality(0 .. whole - 1) = IF 0 > whole - 1 THEN 0 ELSE (whole - 1) - 0 + 1
      BY <3>1, FS_Interval
    <3> QED BY <1>2, <3>2
  <2> QED BY <2>1, <2>5, <2>6 DEF f
<1>11. ASSUME NEW l \in lines
       PROVE  LET r == tx.plan.elements[l.el].restr IN l.raw <= r.maxWh - r.minWh
  <2> DEFINE r == tx.plan.elements[l.el].restr
             from == r.minWh
             to == r.maxWh
  <2>1. PICK z \in parts : l.el = ElementAt(tx, "ENERGY", z)
    BY <1>7 DEF Found
  <2>2. l.el \in ElementsOf(tx.plan, "ENERGY") /\ l.el # 0
    BY <1>2, <1>3, <2>1, FirstMatchIn DEF ElementAt
  <2>3. from \in Nat /\ to \in Nat
    BY <1>2, <2>2, ElementsType
  <2>4. to \in Thresholds(tx.plan)
    BY <2>2 DEF Thresholds
  <2>5. ASSUME NEW x \in mine(l.el) PROVE from <= x.cum /\ x.cum < to /\ x.cum + x.wh <= to
    <3>1. x \in parts /\ ElementAt(tx, "ENERGY", x) = l.el
      BY DEF Mine
    <3>2. Matches(r, tx.start, x.at, x.cum)
      BY <1>2, <2>2, <3>1, FirstMatchIn DEF ElementAt
    <3>3. from <= x.cum /\ x.cum < to
      BY <3>2 DEF Matches
    <3> QED BY <1>1, <2>4, <3>1, <3>3 DEF PartOK
  <2> HIDE DEF from, to, r
  <2>6. from < to
    <3>1. z \in mine(l.el) /\ z.cum \in Nat
      BY <1>4, <2>1 DEF Mine
    <3> QED BY <2>3, <2>5, <3>1
  <2>7. V(l.el) \subseteq from .. to - 1
    <3> SUFFICES ASSUME NEW x \in mine(l.el), NEW w \in Units(x) PROVE w \in from .. to - 1
      OBVIOUS
    <3>1. x.cum \in Nat /\ x.wh \in Nat
      BY <1>4 DEF Mine
    <3> QED BY <2>3, <2>5, <3>1 DEF Units
  <2>9. Cardinality(V(l.el)) <= to - from
    <3> HIDE DEF V
    <3> QED BY <2>3, <2>6, <2>7, SizeWithin
  <2>10. l.raw = Cardinality(V(l.el))
    BY <1>6, <1>7
  <2> QED BY <2>9, <2>10 DEF from, to, r
<1> QED BY <1>7, <1>10, <1>11 DEF lines, parts, whole

-----------------------------------------------------------------------------
(* What the charging and the idle time make                                *)

USE EngineAssumption

(* Intervals of the past, finitely many.                                   *)
Intervals(S) == IsFiniteSet(S) /\ \A v \in S : v[1] \in Nat /\ v[2] \in Nat

(* The runs of a bounded set of instants are intervals.                    *)
LEMMA RunsIntervals ==
  ASSUME NEW S \in SUBSET Nat, IsFiniteSet(S)
  PROVE  Intervals(Runs(S))
<1> DEFINE f == [p \in S \X S |-> <<p[1], p[2] + 1>>]
           A == {f[p] : p \in S \X S}
<1>1. IsFiniteSet(A)
  <2>1. IsFiniteSet(S \X S)
    BY FS_Product
  <2> HIDE DEF f
  <2> QED BY <2>1, FiniteImage
<1>2. Runs(S) \subseteq A
  BY DEF Runs
<1>3. ASSUME NEW v \in Runs(S) PROVE v[1] \in Nat /\ v[2] \in Nat
  <2>1. PICK q \in S \X S : v = <<q[1], q[2] + 1>>
    BY DEF Runs
  <2>2. q[1] \in Nat /\ q[2] \in Nat
    BY <2>1
  <2> QED BY <2>1, <2>2
<1> HIDE DEF A
<1>4. IsFiniteSet(Runs(S))
  BY <1>1, <1>2, FS_Subset
<1> QED BY <1>3, <1>4 DEF Intervals

(* The charging time is made of intervals,                                 *)
LEMMA ChargingIntervals ==
  ASSUME NEW tx, TxOK(tx)
  PROVE  Intervals(Charging(tx))
<1> DEFINE S == {t \in tx.start .. tx.end - 1 : StatusAt(tx, t) = "Charging"}
<1>1. S \in SUBSET Nat /\ \A t \in S : t <= tx.end
  BY DEF TxOK
<1>2. IsFiniteSet(S)
  BY <1>1, FS_BoundedSetOfNaturals DEF TxOK
<1>3. Charging(tx) = Runs(S)
  BY DEF Charging
<1> HIDE DEF S
<1> QED BY <1>1, <1>2, <1>3, RunsIntervals

(* and so is the idle time that is billed.                                 *)
LEMMA BillableIntervals ==
  ASSUME NEW tx, NEW observed, IdlePolicy(tx.plan),
         \A v \in observed : v[1] \in Int /\ v[2] \in Int,
         NEW n \in Nat, \A t \in Ticks(observed) : t \in Nat /\ t <= n
  PROVE  Intervals(Billable(tx, observed))
<1> DEFINE idle == UNION {v[1] + tx.plan.idle.grace .. v[2] - 1 : v \in observed}
           B == {t \in idle : Cardinality({u \in idle : u < t}) < tx.plan.idle.max}
<1>1. \A t \in idle : t \in Ticks(observed)
  <2> SUFFICES ASSUME NEW v \in observed, NEW t \in v[1] + tx.plan.idle.grace .. v[2] - 1
               PROVE  t \in v[1] .. v[2] - 1
    BY DEF Ticks
  <2> QED BY DEF IdlePolicy
<1>2. B \subseteq idle
  OBVIOUS
<1>3. Billable(tx, observed) = {} \/ Billable(tx, observed) = Runs(B)
  BY DEF Billable
<1> HIDE DEF idle, B
<1>4. B \in SUBSET Nat /\ \A t \in B : t <= n
  BY <1>1, <1>2
<1>5. IsFiniteSet(B)
  BY <1>4, FS_BoundedSetOfNaturals
<1>6. Intervals({})
  BY FS_EmptySet DEF Intervals
<1> QED BY <1>3, <1>4, <1>5, <1>6, RunsIntervals

(* The pieces of an interval are finitely many, of a natural length.       *)
LEMMA PiecesType ==
  ASSUME NEW tx, NEW dim, NEW a \in Nat, NEW b \in Nat
  PROVE  /\ IsFiniteSet(Pieces(tx, dim, a, b))
         /\ \A p \in Pieces(tx, dim, a, b) : p[1] \in Nat /\ p[2] \in Nat /\ p[1] < p[2]
<1> DEFINE C == {a, b} \cup Boundaries(tx, dim, a, b)
<1>1. C \in SUBSET Nat /\ a + b \in Nat /\ \A t \in C : t <= a + b
  BY DEF Boundaries
<1>2. IsFiniteSet(C)
  <2> HIDE DEF C
  <2> QED BY <1>1, FS_BoundedSetOfNaturals
<1>3. Pieces(tx, dim, a, b) = Consecutive(C)
  BY DEF Pieces
<1> HIDE DEF C
<1> QED BY <1>1, <1>2, <1>3, ConsecutiveFinite, Neighbours

TimePart(segments, p) == [at |-> p[1], cum |-> EnergyAt(segments, p[1]), wh |-> p[2] - p[1]]

(* The parts of the time are finitely many, of a natural length.           *)
LEMMA TimePartsType ==
  ASSUME NEW tx, NEW segments, NEW dim, NEW S, Intervals(S)
  PROVE  /\ IsFiniteSet(TimeParts(tx, segments, dim, S))
         /\ \A x \in TimeParts(tx, segments, dim, S) : x.at \in Nat /\ x.wh \in Nat
<1> DEFINE P(v) == Pieces(tx, dim, v[1], v[2])
           F == [v \in S |-> {TimePart(segments, p) : p \in P(v)}]
<1>1. TimeParts(tx, segments, dim, S) = UnionOf(F, S)
  BY DEF TimeParts, UnionOf, TimePart
<1>2. ASSUME NEW v \in S
      PROVE  IsFiniteSet(F[v]) /\ \A x \in F[v] : x.at \in Nat /\ x.wh \in Nat
  <2>0. v[1] \in Nat /\ v[2] \in Nat
    BY DEF Intervals
  <2>1. IsFiniteSet(P(v)) /\ \A p \in P(v) : p[1] \in Nat /\ p[2] \in Nat /\ p[1] < p[2]
    BY <2>0, PiecesType
  <2> DEFINE Q == P(v)
             f == [p \in Q |-> TimePart(segments, p)]
  <2>2. IsFiniteSet({f[p] : p \in Q})
    <3> HIDE DEF f
    <3> QED BY <2>1, FiniteImage
  <2>3. F[v] = {f[p] : p \in Q}
    OBVIOUS
  <2> HIDE DEF Q
  <2>4. ASSUME NEW x \in F[v] PROVE x.at \in Nat /\ x.wh \in Nat
    <3>1. PICK p \in Q : x = TimePart(segments, p)
      BY <2>3
    <3>2. x.at = p[1] /\ x.wh = p[2] - p[1]
      BY <3>1 DEF TimePart
    <3> QED BY <2>1, <3>2 DEF Q
  <2> QED BY <2>2, <2>3, <2>4
<1> HIDE DEF F
<1>3. IsFiniteSet(S)
  BY DEF Intervals
<1>4. IsFiniteSet(UnionOf(F, S))
  BY <1>2, <1>3, FiniteUnion
<1>5. \A x \in UnionOf(F, S) : x.at \in Nat /\ x.wh \in Nat
  BY <1>2 DEF UnionOf
<1> QED BY <1>1, <1>4, <1>5

-----------------------------------------------------------------------------
(* The lines before the adjustments                                        *)

Dimensions == {"FLAT", "ENERGY", "TIME", "PARKING_TIME"}

LineOK(l) ==
  /\ l.dim \in Dimensions
  /\ l.rate \in Nat /\ l.gross \in Nat /\ l.first \in Nat /\ l.el \in Nat

(* The lines of a dimension are of that dimension, with a net amount that  *)
(* is not negative.                                                        *)
LEMMA BillOK ==
  ASSUME NEW tx, tx.plan \in PlanSet, NEW dim \in Dimensions, NEW parts, IsFiniteSet(parts),
         \A x \in parts : x.at \in Nat /\ x.wh \in Nat, NEW per \in Nat \ {0}
  PROVE  /\ IsFiniteSet(LinesOf(tx, dim, parts, per))
         /\ \A l \in LinesOf(tx, dim, parts, per) : LineOK(l) /\ l.dim = dim /\ l.el # 0
<1> DEFINE L == LinesOf(tx, dim, parts, per)
<1>1. IsBill(tx, dim, parts, L)
  BY LinesType
<1>2. \A i \in Found(tx, dim, parts) : i \in Nat \ {0}
  BY FirstMatchIn, ElementsType DEF Found, ElementAt
<1> HIDE DEF L
<1>3. /\ IsFiniteSet(L)
      /\ \A l \in L : LineOK(l) /\ l.dim = dim /\ l.el # 0
  BY <1>1, <1>2 DEF IsBill, LineOK
<1> QED BY <1>3 DEF L

(* So is the line of the fee for the start.                                *)
LEMMA FlatOK ==
  ASSUME NEW tx, TxOK(tx)
  PROVE  IsFiniteSet(FlatLines(tx)) /\ \A l \in FlatLines(tx) : LineOK(l) /\ l.dim = "FLAT"
<1> DEFINE i == FirstMatch(tx.plan, "FLAT", tx.start, tx.start, 0)
           v == tx.plan.elements[i].vat
           g == tx.plan.elements[i].price
           l == [dim |-> "FLAT", of |-> <<>>, el |-> i, raw |-> 1, rate |-> v,
                 first |-> tx.start, gross |-> g]
<1>1. FlatLines(tx) = IF i = 0 THEN {} ELSE {l}
  BY DEF FlatLines
<1>2. i # 0 => i \in Nat /\ v \in Nat /\ g \in Nat
  BY FirstMatchIn, ElementsType DEF TxOK
<1> HIDE DEF i, v, g
<1>3. l.dim = "FLAT" /\ l.rate = v /\ l.gross = g /\ l.first = tx.start /\ l.el = i
  OBVIOUS
<1> HIDE DEF l
<1>4. i # 0 => LineOK(l) /\ l.dim = "FLAT"
  BY <1>2, <1>3 DEF LineOK, Dimensions, TxOK
<1>5. IsFiniteSet(FlatLines(tx))
  <2>1. IsFiniteSet({l}) /\ IsFiniteSet({})
    BY FS_EmptySet, FS_Singleton
  <2> QED BY <1>1, <2>1
<1>6. \A m \in FlatLines(tx) : i # 0 /\ m = l
  BY <1>1
<1> QED BY <1>4, <1>5, <1>6

(* Two sets of intervals, of the charging and of the billable idle time,   *)
(* make finitely many lines, those of the energy among them.               *)
LEMMA BaseOK ==
  ASSUME NEW tx, TxOK(tx), NEW charging, NEW billable, Intervals(charging), Intervals(billable)
  PROVE  LET quantity == Quantities(tx, Segments(tx), charging, billable)
             base == BaseLines(tx, quantity)
         IN  /\ IsFiniteSet(base) /\ \A l \in base : LineOK(l)
             /\ quantity.ENERGY = EnergyParts(tx, Segments(tx)) /\ quantity["ENERGY"] = quantity.ENERGY
             /\ {l \in base : l.dim = "ENERGY"} = LinesOf(tx, "ENERGY", EnergyParts(tx, Segments(tx)), KWh)
             /\ \A l \in LinesOf(tx, "ENERGY", EnergyParts(tx, Segments(tx)), KWh) : l.el # 0
<1> DEFINE quantity == Quantities(tx, Segments(tx), charging, billable)
           base == BaseLines(tx, quantity)
           metered == EnergyParts(tx, Segments(tx))
           time == IF ElementsOf(tx.plan, "TIME") = {} THEN {} ELSE TimeParts(tx, Segments(tx), "TIME", charging)
           parking == TimeParts(tx, Segments(tx), "PARKING_TIME", billable)
           E == LinesOf(tx, "ENERGY", metered, KWh)
           T == LinesOf(tx, "TIME", time, Hour)
           P == LinesOf(tx, "PARKING_TIME", parking, Hour)
<1>1. quantity = [ENERGY |-> metered, TIME |-> time, PARKING_TIME |-> parking]
  BY DEF Quantities
<1>2. tx.plan \in PlanSet /\ KWh \in Nat \ {0} /\ Hour \in Nat \ {0}
  BY DEF TxOK
<1>3. IsFiniteSet(metered) /\ \A x \in metered : x.at \in Nat /\ x.wh \in Nat
  BY EnergyUnits DEF PartOK
<1>4. IsFiniteSet(time) /\ \A x \in time : x.at \in Nat /\ x.wh \in Nat
  BY TimePartsType, FS_EmptySet
<1>5. IsFiniteSet(parking) /\ \A x \in parking : x.at \in Nat /\ x.wh \in Nat
  BY TimePartsType
<1> HIDE DEF metered, time, parking, quantity
<1>6. quantity.ENERGY = metered /\ quantity["ENERGY"] = metered /\ quantity["TIME"] = time /\ quantity["PARKING_TIME"] = parking
  BY <1>1
<1>7. base = (FlatLines(tx) \cup E) \cup (T \cup P)
  BY <1>6 DEF BaseLines
<1>8. IsFiniteSet(E) /\ \A l \in E : LineOK(l) /\ l.dim = "ENERGY" /\ l.el # 0
  BY <1>2, <1>3, BillOK DEF Dimensions
<1>9. IsFiniteSet(T) /\ \A l \in T : LineOK(l) /\ l.dim = "TIME"
  BY <1>2, <1>4, BillOK DEF Dimensions
<1>10. IsFiniteSet(P) /\ \A l \in P : LineOK(l) /\ l.dim = "PARKING_TIME"
  BY <1>2, <1>5, BillOK DEF Dimensions
<1>11. IsFiniteSet(FlatLines(tx)) /\ \A l \in FlatLines(tx) : LineOK(l) /\ l.dim = "FLAT"
  BY FlatOK
<1> HIDE DEF base, E, T, P
<1>12. IsFiniteSet(base)
  BY <1>7, <1>8, <1>9, <1>10, <1>11, FS_Union
<1>13. {l \in base : l.dim = "ENERGY"} = E
  BY <1>7, <1>8, <1>9, <1>10, <1>11
<1>14. \A l \in base : LineOK(l)
  BY <1>7, <1>8, <1>9, <1>10, <1>11
<1> QED BY <1>6, <1>8, <1>12, <1>13, <1>14 DEF base, quantity, metered, E

-----------------------------------------------------------------------------
(* What lines amount to                                                    *)

Gross(S) == [l \in S |-> l.gross]
Priced(S) == IsFiniteSet(S) /\ \A l \in S : l.gross \in Int /\ l.rate \in Nat

(* GrossOf is the sum of the library.                                      *)
LEMMA GrossForm == ASSUME NEW S PROVE GrossOf(S) = SumFunctionOnSet(Gross(S), S)
BY DEF GrossOf, Gross, SumFunction

(* Lines amount to a whole number of minor units,                          *)
LEMMA GrossInt == ASSUME NEW S, Priced(S) PROVE GrossOf(S) \in Int
<1>1. IsFiniteSet(S) /\ \A l \in S : Gross(S)[l] \in Int
  BY DEF Gross, Priced
<1> QED BY <1>1, GrossForm, SumInt

(* that is not negative if no line is.                                     *)
LEMMA GrossNat ==
  ASSUME NEW S, IsFiniteSet(S), \A l \in S : l.gross \in Nat
  PROVE  GrossOf(S) \in Nat
<1>1. \A l \in S : Gross(S)[l] \in Nat
  BY DEF Gross
<1> QED BY <1>1, GrossForm, SumNat

(* No lines amount to nothing.                                             *)
LEMMA GrossNone == GrossOf({}) = 0
BY GrossForm, SumEmpty

(* Any line can be taken apart from the others.                            *)
LEMMA GrossAny ==
  ASSUME NEW S, Priced(S), NEW a \in S
  PROVE  GrossOf(S) = a.gross + GrossOf(S \ {a})
<1> DEFINE R == S \ {a}
<1>1. IsFiniteSet(S) /\ \A l \in S : Gross(S)[l] \in Int
  BY DEF Gross, Priced
<1>2. SumFunctionOnSet(Gross(S), S) = Gross(S)[a] + SumFunctionOnSet(Gross(S), S \ {a})
  BY <1>1, SumAny
<1>3. IsFiniteSet(R) /\ \A l \in R : Gross(S)[l] \in Int /\ Gross(S)[l] = Gross(R)[l]
  BY <1>1, FS_Subset DEF Gross
<1> HIDE DEF R
<1>4. SumFunctionOnSet(Gross(S), R) = SumFunctionOnSet(Gross(R), R)
  BY <1>3, SumSame
<1>5. Gross(S)[a] = a.gross
  BY DEF Gross
<1> QED BY <1>2, <1>4, <1>5, GrossForm DEF R

(* Of lines of two kinds.                                                  *)
LEMMA GrossUnion ==
  ASSUME NEW A, NEW B, Priced(A), Priced(B), A \cap B = {}
  PROVE  Priced(A \cup B) /\ GrossOf(A \cup B) = GrossOf(A) + GrossOf(B)
<1>0. Priced(A \cup B)
  BY FS_Union DEF Priced
<1> DEFINE G == {s \in SUBSET B : GrossOf(A \cup s) = GrossOf(A) + GrossOf(s)}
<1>1. {} \in G
  <2>1. A \cup {} = A /\ GrossOf(A) \in Int
    BY GrossInt
  <2> QED BY <2>1, GrossNone
<1>2. ASSUME NEW s \in SUBSET B, NEW x \in s, s \ {x} \in G PROVE s \in G
  <2>1. Priced(s) /\ Priced(A \cup s) /\ Priced(s \ {x}) /\ Priced(A)
    BY <1>0, FS_Subset DEF Priced
  <2>2. GrossOf(s) = x.gross + GrossOf(s \ {x})
    BY <2>1, GrossAny
  <2>3. GrossOf(A \cup s) = x.gross + GrossOf((A \cup s) \ {x})
    BY <2>1, GrossAny
  <2>4. (A \cup s) \ {x} = A \cup (s \ {x})
    OBVIOUS
  <2>5. GrossOf(A \cup (s \ {x})) = GrossOf(A) + GrossOf(s \ {x})
    BY <1>2
  <2>6. x.gross \in Int /\ GrossOf(A) \in Int /\ GrossOf(s \ {x}) \in Int
    BY <2>1, GrossInt DEF Priced
  <2>7. GrossOf((A \cup s) \ {x}) = GrossOf(A \cup (s \ {x}))
    BY <2>4
  <2>8. GrossOf(A \cup s) = GrossOf(A) + GrossOf(s)
    BY <2>2, <2>3, <2>5, <2>6, <2>7
  <2> QED BY <2>8
<1>3. G \in SUBSET SUBSET B
  OBVIOUS
<1>4. B \in G
  <2> HIDE DEF G
  <2> QED BY <1>1, <1>2, <1>3, SubsetInduction DEF Priced
<1> QED BY <1>0, <1>4

(* A part of the lines amounts to no more than all.                        *)
LEMMA GrossPart ==
  ASSUME NEW S, IsFiniteSet(S), \A l \in S : l.gross \in Nat /\ l.rate \in Nat, NEW R \in SUBSET S
  PROVE  GrossOf(R) \in Nat /\ GrossOf(R) <= GrossOf(S)
<1> DEFINE D == S \ R
<1>1. IsFiniteSet(R) /\ IsFiniteSet(D) /\ Priced(R) /\ Priced(D) /\ R \cap D = {} /\ R \cup D = S
  BY FS_Subset DEF Priced
<1>2. GrossOf(R) \in Nat /\ GrossOf(D) \in Nat
  BY <1>1, GrossNat
<1>3. GrossOf(R \cup D) = GrossOf(R) + GrossOf(D)
  BY <1>1, GrossUnion
<1>4. GrossOf(R \cup D) = GrossOf(S)
  BY <1>1
<1> HIDE DEF D
<1> QED BY <1>2, <1>3, <1>4

-----------------------------------------------------------------------------
(* Taxes                                                                   *)

(* The tax of an amount that is not negative is not negative.              *)
LEMMA TaxType ==
  ASSUME NEW p, NEW g \in Int, NEW r \in Nat
  PROVE  TaxOf(p, g, r) \in Int /\ (g >= 0 => TaxOf(p, g, r) >= 0)
<1> DEFINE d == IF p.included THEN 100 + r ELSE 100
<1>1. d \in Nat \ {0} /\ g * r \in Int /\ (g >= 0 => 0 * d <= g * r)
  OBVIOUS
<1>2. TaxOf(p, g, r) = DivideRounded(g * r, d, p.rounding)
  BY DEF TaxOf
<1> HIDE DEF d
<1> QED BY <1>1, <1>2, RoundedBounds

(* Nor is the tax of lines of which none is negative.                      *)
LEMMA TaxOfLinesType ==
  ASSUME NEW p, NEW S, Priced(S)
  PROVE  TaxOfLines(p, S) \in Int /\ ((\A l \in S : l.gross >= 0) => TaxOfLines(p, S) >= 0)
<1> DEFINE R == {l.rate : l \in S}
           group(r) == {l \in S : l.rate = r}
           f == [r \in R |-> TaxOf(p, GrossOf(group(r)), r)]
           g == [l \in S |-> TaxOf(p, l.gross, l.rate)]
<1>1. TaxOfLines(p, S) = IF p.perGroup THEN SumFunctionOnSet(f, R) ELSE SumFunctionOnSet(g, S)
  BY DEF TaxOfLines, SumFunction
<1>2. IsFiniteSet(S) /\ IsFiniteSet(R)
  <2> DEFINE h == [l \in S |-> l.rate]
  <2>1. IsFiniteSet({h[l] : l \in S})
    <3> HIDE DEF h
    <3> QED BY FiniteImage DEF Priced
  <2>2. {h[l] : l \in S} = R
    OBVIOUS
  <2> QED BY <2>1, <2>2 DEF Priced
<1>3. \A l \in S : g[l] \in Int /\ (l.gross >= 0 => g[l] \in Nat)
  BY TaxType DEF Priced
<1>4. ASSUME NEW r \in R PROVE f[r] \in Int /\ ((\A l \in S : l.gross >= 0) => f[r] \in Nat)
  <2>1. Priced(group(r)) /\ r \in Nat
    BY <1>2, FS_Subset DEF Priced
  <2>2. GrossOf(group(r)) \in Int
    BY <2>1, GrossInt
  <2>3. (\A l \in S : l.gross >= 0) => GrossOf(group(r)) >= 0
    <3> SUFFICES ASSUME \A l \in S : l.gross >= 0 PROVE GrossOf(group(r)) >= 0
      OBVIOUS
    <3>1. \A l \in group(r) : l.gross \in Nat
      BY <2>1 DEF Priced
    <3>2. IsFiniteSet(group(r))
      BY <2>1 DEF Priced
    <3> HIDE DEF group
    <3> QED BY <3>1, <3>2, GrossNat
  <2>4. f[r] = TaxOf(p, GrossOf(group(r)), r)
    OBVIOUS
  <2> HIDE DEF f, group
  <2> QED BY <2>1, <2>2, <2>3, <2>4, TaxType
<1> HIDE DEF f, g, R
<1>5. SumFunctionOnSet(f, R) \in Int /\ SumFunctionOnSet(g, S) \in Int
  BY <1>2, <1>3, <1>4, SumInt
<1>6. ASSUME \A l \in S : l.gross >= 0
      PROVE  SumFunctionOnSet(f, R) \in Nat /\ SumFunctionOnSet(g, S) \in Nat
  BY <1>2, <1>3, <1>4, <1>6, SumNat
<1> QED BY <1>1, <1>5, <1>6

-----------------------------------------------------------------------------
(* Adjustments                                                             *)

(* Rounding makes a whole number.                                          *)
LEMMA RoundedInt ==
  ASSUME NEW n \in Int, NEW d \in Nat \ {0}, NEW mode
  PROVE  DivideRounded(n, d, mode) \in Int
<1>1. 0 \in Int
  OBVIOUS
<1> QED BY <1>1, RoundedBounds

Targets(p, n, base) == {l \in base : p.adjustments[n].dim \in {"ALL", l.dim}}
OfRate(S, r) == {l \in S : l.rate = r}
SameKind(p, n, previous, r) ==
  {l \in previous : l.rate = r /\ (p.adjustments[n].dim = "ALL" \/ l.of = <<"PERCENT", p.adjustments[n].dim>>)}

PercentOff(p, n, base, previous, r) ==
  Capped(GrossOf(OfRate(Targets(p, n, base), r)), GrossOf(SameKind(p, n, previous, r)),
         DivideRounded(GrossOf(OfRate(Targets(p, n, base), r)) * p.adjustments[n].value, 100, p.rounding))

AmountOff(p, n, base, previous) ==
  Capped(GrossOf(Targets(p, n, base)), GrossOf(previous), p.adjustments[n].value)

AdjustmentLine(p, n, r, g) ==
  [dim |-> "ADJUSTMENT", of |-> <<p.adjustments[n].type, p.adjustments[n].dim>>, el |-> n, raw |-> 0,
   rate |-> r, first |-> 0, gross |-> g]

Foremost(S) == {f \in S : \A m \in S \ {f} : Precedes(f, m)}

PercentLines(p, n, base, previous) ==
  {AdjustmentLine(p, n, l.rate, PercentOff(p, n, base, previous, l.rate)) : l \in Targets(p, n, base)}
AmountLines(p, n, base, previous) ==
  {AdjustmentLine(p, n, l.rate, AmountOff(p, n, base, previous)) : l \in Foremost(Targets(p, n, base))}

(* AdjustmentFor with its local functions under names of their own.        *)
LEMMA AdjustmentForm ==
  ASSUME NEW p, NEW n, NEW base, NEW previous
  PROVE  AdjustmentFor(p, n, base, previous) =
           {l \in IF p.adjustments[n].type = "PERCENT" THEN PercentLines(p, n, base, previous)
                  ELSE AmountLines(p, n, base, previous) : l.gross # 0}
BY Zenon DEF AdjustmentFor, PercentLines, AmountLines, AdjustmentLine, AmountOff, PercentOff, SameKind, OfRate, Targets, Foremost

(* What is capped does not take more than is left.                         *)
LEMMA CappedType ==
  ASSUME NEW b \in Int, NEW already \in Int, NEW amount \in Int
  PROVE  Capped(b, already, amount) \in Int /\ b + already + Capped(b, already, amount) >= 0
BY DEF Capped

(* The fields of the line of an adjustment.                                *)
LEMMA LineFieldsOfAdjustment ==
  ASSUME NEW p, NEW n, NEW r, NEW g
  PROVE  LET l == AdjustmentLine(p, n, r, g) IN l.dim = "ADJUSTMENT" /\ l.rate = r /\ l.gross = g
BY DEF AdjustmentLine

(* An adjustment makes finitely many lines, all of them adjustments.       *)
LEMMA AdjustmentType ==
  ASSUME NEW p, NEW n, NEW base, NEW previous, Priced(base), Priced(previous),
         p.adjustments[n].value \in Int
  PROVE  Priced(AdjustmentFor(p, n, base, previous))
         /\ \A l \in AdjustmentFor(p, n, base, previous) : l.dim = "ADJUSTMENT"
<1> DEFINE T == Targets(p, n, base)
           A == AdjustmentFor(p, n, base, previous)
<1>1. Priced(T)
  BY FS_Subset DEF Priced, Targets
<1>2. ASSUME NEW r PROVE PercentOff(p, n, base, previous, r) \in Int
  <2>1. Priced(OfRate(T, r)) /\ Priced(SameKind(p, n, previous, r))
    BY <1>1, FS_Subset DEF Priced, OfRate, SameKind
  <2> DEFINE g == GrossOf(OfRate(T, r))
             k == GrossOf(SameKind(p, n, previous, r))
             v == g * p.adjustments[n].value
  <2>2. g \in Int /\ k \in Int
    BY <2>1, GrossInt
  <2>3. PercentOff(p, n, base, previous, r) = Capped(g, k, DivideRounded(v, 100, p.rounding))
    BY DEF PercentOff
  <2> HIDE DEF g, k
  <2>4. v \in Int
    BY <2>2
  <2> HIDE DEF v
  <2>5. DivideRounded(v, 100, p.rounding) \in Int
    <3>1. 100 \in Nat \ {0}
      OBVIOUS
    <3> QED BY <2>4, <3>1, RoundedInt
  <2> QED BY <2>2, <2>3, <2>5, CappedType
<1>3. AmountOff(p, n, base, previous) \in Int
  <2>1. GrossOf(T) \in Int /\ GrossOf(previous) \in Int
    BY <1>1, GrossInt
  <2> QED BY <2>1, CappedType DEF AmountOff
<1> DEFINE f == [l \in T |-> AdjustmentLine(p, n, l.rate, PercentOff(p, n, base, previous, l.rate))]
           g == [l \in T |-> AdjustmentLine(p, n, l.rate, AmountOff(p, n, base, previous))]
           F == {f[l] : l \in T}
           G == {g[l] : l \in T}
<1>4. A \subseteq F \cup G
  <2>1. PercentLines(p, n, base, previous) \subseteq F
    BY DEF PercentLines
  <2>2. AmountLines(p, n, base, previous) \subseteq G
    BY DEF AmountLines, Foremost
  <2>3. A \subseteq PercentLines(p, n, base, previous) \cup AmountLines(p, n, base, previous)
    BY AdjustmentForm
  <2> QED BY <2>1, <2>2, <2>3
<1>5. \A x \in F \cup G : x.dim = "ADJUSTMENT" /\ x.rate \in Nat /\ x.gross \in Int
  <2>1. ASSUME NEW l \in T
        PROVE  /\ f[l].dim = "ADJUSTMENT" /\ f[l].rate \in Nat /\ f[l].gross \in Int
               /\ g[l].dim = "ADJUSTMENT" /\ g[l].rate \in Nat /\ g[l].gross \in Int
    <3>1. l.rate \in Nat
      BY <1>1 DEF Priced
    <3>2. f[l] = AdjustmentLine(p, n, l.rate, PercentOff(p, n, base, previous, l.rate))
      OBVIOUS
    <3>3. g[l] = AdjustmentLine(p, n, l.rate, AmountOff(p, n, base, previous))
      OBVIOUS
    <3> HIDE DEF f, g
    <3> QED BY <1>2, <1>3, <3>1, <3>2, <3>3, LineFieldsOfAdjustment
  <2> HIDE DEF f, g
  <2> QED BY <2>1
<1>6. IsFiniteSet(F) /\ IsFiniteSet(G)
  <2>1. IsFiniteSet(T)
    BY <1>1 DEF Priced
  <2> HIDE DEF f, g, T
  <2> QED BY <2>1, FiniteImage
<1> HIDE DEF F, G, A
<1>7. IsFiniteSet(A)
  BY <1>4, <1>6, FS_Union, FS_Subset
<1>8. Priced(A) /\ \A l \in A : l.dim = "ADJUSTMENT"
  BY <1>4, <1>5, <1>7 DEF Priced
<1> QED BY <1>8 DEF A

(* The adjustments one after another, each with the lines of those before. *)
DoneStep(p, base, done, n) ==
  IF n = 0 THEN {} ELSE done[n - 1] \cup AdjustmentFor(p, n, base, done[n - 1])

Done(p, base) ==
  CHOOSE done : done = [n \in 0 .. Len(p.adjustments) |-> DoneStep(p, base, done, n)]

(* AdjustmentLines with its recursive function under a name of its own.    *)
LEMMA AdjustmentsForm ==
  ASSUME NEW p, NEW base
  PROVE  AdjustmentLines(p, base) = Done(p, base)[Len(p.adjustments)]
BY Zenon DEF AdjustmentLines, Done, DoneStep

(* That function is defined: each of its values by the one before.         *)
LEMMA DoneExists ==
  ASSUME NEW p, NEW base, Len(p.adjustments) \in Nat
  PROVE  Done(p, base) = [n \in 0 .. Len(p.adjustments) |-> DoneStep(p, base, Done(p, base), n)]
<1> DEFINE N == 0 .. Len(p.adjustments)
           F(g, n) == DoneStep(p, base, g, n)
           Good(g, m) == \A n \in N : n < m => g[n] = F(g, n)
           T == {m \in Nat : \E g : Good(g, m)}
<1>0. ASSUME NEW g, NEW h, NEW n \in N, \A m \in N : m < n => g[m] = h[m]
      PROVE  F(g, n) = F(h, n)
  <2>1. CASE n = 0
    BY <2>1 DEF DoneStep
  <2>2. CASE n # 0
    <3>1. g[n - 1] = h[n - 1]
      BY <1>0, <2>2
    <3> QED BY <2>2, <3>1 DEF DoneStep
  <2> QED BY <2>1, <2>2
<1>00. \A n \in N : n \in Nat /\ n < Len(p.adjustments) + 1
  OBVIOUS
<1> HIDE DEF F, N
<1>1. 0 \in T
  <2>1. Good([n \in N |-> 0], 0)
    BY <1>00
  <2> HIDE DEF Good
  <2> QED BY <2>1
<1>2. ASSUME NEW m \in T PROVE m + 1 \in T
  <2>1. PICK g : Good(g, m)
    OBVIOUS
  <2> DEFINE h == [n \in N |-> F(g, n)]
  <2>2. \A n \in N : n < m => h[n] = g[n]
    BY <2>1
  <2>3. ASSUME NEW n \in N, n < m + 1 PROVE h[n] = F(h, n)
    <3>1. \A k \in N : k < n => g[k] = h[k]
      BY <1>00, <2>2, <2>3
    <3>2. h[n] = F(g, n)
      OBVIOUS
    <3> HIDE DEF h
    <3> QED BY <1>0, <3>1, <3>2
  <2> HIDE DEF h
  <2>4. Good(h, m + 1)
    BY <2>3
  <2> HIDE DEF Good
  <2> QED BY <2>4
<1>3. T = Nat
  <2> T \in SUBSET Nat
    OBVIOUS
  <2> HIDE DEF T
  <2> QED BY <1>1, <1>2, SetInduction
<1>4. Len(p.adjustments) + 1 \in T
  <2>1. Len(p.adjustments) + 1 \in Nat
    OBVIOUS
  <2> HIDE DEF T
  <2> QED BY <1>3, <2>1
<1>5. PICK g : Good(g, Len(p.adjustments) + 1)
  BY <1>4
<1> DEFINE h == [n \in N |-> F(g, n)]
<1>6. \A n \in N : g[n] = h[n]
  BY <1>00, <1>5
<1>7. h = [n \in N |-> F(h, n)]
  <2>1. ASSUME NEW n \in N PROVE F(g, n) = F(h, n)
    <3> HIDE DEF h
    <3> QED BY <1>0, <1>6
  <2>2. h = [n \in N |-> F(g, n)]
    OBVIOUS
  <2> HIDE DEF h
  <2> QED BY <2>1, <2>2
<1> HIDE DEF h
<1> QED BY <1>7, Zenon DEF Done, F, N

(* Their lines: adjustments, finitely many, none without an adjustment and *)
(* those of the only one.                                                  *)
LEMMA AdjustmentsType ==
  ASSUME NEW p \in PlanSet, NEW base, Priced(base)
  PROVE  /\ Priced(AdjustmentLines(p, base))
         /\ \A l \in AdjustmentLines(p, base) : l.dim = "ADJUSTMENT"
         /\ p.adjustments = <<>> => AdjustmentLines(p, base) = {}
         /\ Len(p.adjustments) = 1 => AdjustmentLines(p, base) = AdjustmentFor(p, 1, base, {})
<1> DEFINE n == Len(p.adjustments)
           done == Done(p, base)
           Fine(S) == Priced(S) /\ \A l \in S : l.dim = "ADJUSTMENT"
           T == {m \in Nat : m <= n => Fine(done[m])}
<1>0. n \in Nat /\ \A m \in 1 .. n : p.adjustments[m].value \in Int
  <2>1. p.adjustments \in Seq(AdjustmentSet)
    BY DEF PlanSet
  <2>2. n \in Nat /\ \A m \in 1 .. n : p.adjustments[m] \in AdjustmentSet
    BY <2>1
  <2> QED BY <2>2 DEF AdjustmentSet
<1>1. done = [m \in 0 .. n |-> DoneStep(p, base, done, m)]
  BY <1>0, DoneExists
<1>2. AdjustmentLines(p, base) = done[n]
  BY AdjustmentsForm
<1> HIDE DEF done
<1>3. \A m \in 0 .. n : done[m] = DoneStep(p, base, done, m)
  BY <1>1
<1>4. done[0] = {}
  <2>1. done[0] = DoneStep(p, base, done, 0)
    BY <1>0, <1>3
  <2> QED BY <2>1, Zenon DEF DoneStep
<1>5. ASSUME NEW m \in Nat, m + 1 <= n
      PROVE  done[m + 1] = done[m] \cup AdjustmentFor(p, m + 1, base, done[m])
  <2>1. m + 1 \in 0 .. n /\ m + 1 # 0 /\ m + 1 - 1 = m
    BY <1>0, <1>5
  <2>2. done[m + 1] = DoneStep(p, base, done, m + 1)
    BY <1>3, <2>1
  <2>3. ASSUME NEW k, k # 0
        PROVE  DoneStep(p, base, done, k) = done[k - 1] \cup AdjustmentFor(p, k, base, done[k - 1])
    BY <2>3, Zenon DEF DoneStep
  <2>4. DoneStep(p, base, done, m + 1) = done[m + 1 - 1] \cup AdjustmentFor(p, m + 1, base, done[m + 1 - 1])
    <3> DEFINE k == m + 1
    <3>1. k # 0 /\ k - 1 = m
      BY <2>1
    <3> HIDE DEF k
    <3>2. DoneStep(p, base, done, k) = done[k - 1] \cup AdjustmentFor(p, k, base, done[k - 1])
      BY <2>3, <3>1
    <3> QED BY <3>2 DEF k
  <2> QED BY <2>1, <2>2, <2>4
<1>6. 0 \in T
  BY <1>4, FS_EmptySet DEF Priced
<1>7. ASSUME NEW m \in T PROVE m + 1 \in T
  <2> SUFFICES ASSUME m + 1 <= n PROVE Fine(done[m + 1])
    OBVIOUS
  <2>1. Fine(done[m]) /\ m + 1 \in 1 .. n
    BY <1>0
  <2> DEFINE more == AdjustmentFor(p, m + 1, base, done[m])
  <2>2. Fine(more)
    BY <1>0, <2>1, AdjustmentType
  <2>3. done[m + 1] = done[m] \cup more
    BY <1>5
  <2> HIDE DEF more
  <2>4. IsFiniteSet(done[m]) /\ IsFiniteSet(more)
    BY <2>1, <2>2 DEF Priced
  <2>5. IsFiniteSet(done[m] \cup more)
    BY <2>4, FS_Union
  <2>6. Fine(done[m] \cup more)
    BY <2>1, <2>2, <2>5 DEF Priced
  <2> QED BY <2>3, <2>6
<1>8. T = Nat
  <2> T \in SUBSET Nat
    OBVIOUS
  <2> HIDE DEF T
  <2> QED BY <1>6, <1>7, SetInduction
<1>9. Fine(done[n])
  <2>1. n \in T /\ n <= n
    BY <1>0, <1>8
  <2> QED BY <2>1
<1>10. n = 1 => done[n] = AdjustmentFor(p, 1, base, {})
  <2> SUFFICES ASSUME n = 1 PROVE done[1] = AdjustmentFor(p, 1, base, {})
    OBVIOUS
  <2>1. done[0 + 1] = done[0] \cup AdjustmentFor(p, 0 + 1, base, done[0])
    BY <1>5
  <2> QED BY <1>4, <2>1
<1> QED BY <1>2, <1>4, <1>9, <1>10

-----------------------------------------------------------------------------
(* The cost of a transaction                                               *)

(* A calculation is the cost of a transaction that was stopped.            *)
(* The instants of a transaction that are billed are intervals.            *)
LEMMA BilledIntervals ==
  ASSUME NEW tx, TxOK(tx), tx.mode = "RUNNING" => tx.horizon \in Nat, IdlePolicy(tx.plan),
         NEW n \in Nat, \A e \in tx.events : e.ts <= n, tx.events # {}
  PROVE  Intervals(Charging(tx)) /\ Intervals(Billable(tx, Observed(tx)))
<1>1. Intervals(Charging(tx))
  BY ChargingIntervals
<1>2. tx.events \subseteq EventSet /\ tx.start \in Nat /\ tx.end \in Nat
  BY DEF TxOK
<1>3. PICK m \in Nat : \A t \in Ticks(Observed(tx)) : t \in Nat /\ t <= m /\ t \notin Ticks(Charging(tx))
  BY <1>2, ObservedTicks
<1>4. \A v \in Observed(tx) : v[1] \in Int /\ v[2] \in Int
  BY <1>2, ObservedTicks
<1>5. Intervals(Billable(tx, Observed(tx)))
  BY <1>3, <1>4, BillableIntervals
<1> QED BY <1>1, <1>5

IsCalc(calc, tx, stop) ==
  /\ plan \in Plans /\ IsFinal(tx, plan, calc.input, stop) /\ TxOK(tx)
  /\ stop \in calc.input /\ OfKind(calc.input, "TX_STOP") = {stop}
  /\ calc.result = CostOf(tx) /\ CostOf(tx).ok
  /\ Intervals(Charging(tx)) /\ Intervals(Billable(tx, Observed(tx)))

(* Every calculation is the cost of a transaction that was stopped.        *)
LEMMA CalcIsCost ==
  ASSUME PInv, NEW calc \in ToSet(calcs)
  PROVE  \E tx, stop : IsCalc(calc, tx, stop)
<1>1. PICK i \in DOMAIN calcs : calc = calcs[i]
  BY DEF ToSet
<1> DEFINE input == calc.input
           tx == Timeline(plan, input, "FINAL", 0)
<1>2. /\ WellFormed(input, clock) /\ StoppedOnce(input) /\ clock \in Nat /\ plan \in Plans
      /\ calc.result = CostOf(tx) /\ CostOf(tx).ok
  <2>1. phase = "SETTLED"
    BY <1>1 DEF PInv, Computed
  <2> QED BY <1>1, <2>1 DEF PInv, Types, Computed, Compute
<1>3. PICK stop \in input : OfKind(input, "TX_STOP") = {stop}
  BY <1>2 DEF StoppedOnce
<1>4. IsFinal(Timeline(plan, input, "FINAL", 0), plan, input, stop)
  BY <1>2, <1>3, FinalTimeline
<1>5. IsFinal(tx, plan, input, stop)
  BY <1>4
<1> HIDE DEF tx, input
<1>6. TxOK(tx)
  <2>1. tx.plan \in PlanSet
    BY <1>2, <1>5 DEF IsFinal
  <2>2. stop \in EventSet /\ input \subseteq EventSet
    BY <1>2, <1>3 DEF WellFormed
  <2>3. stop.wh \in Nat
    BY <2>2 DEF EventSet
  <2>4. tx.events \subseteq EventSet
    BY <1>5, <2>2 DEF IsFinal
  <2>5. /\ tx.start \in Nat /\ tx.end \in Nat /\ tx.start <= tx.end
        /\ tx.meterStart \in Nat /\ tx.meterStop \in Nat
    BY <1>5, <2>3 DEF IsFinal, MeterStart
  <2>6. tx.stopped \in BOOLEAN
    BY <1>5 DEF IsFinal
  <2> QED BY <2>1, <2>4, <2>5, <2>6, Zenon DEF TxOK
<1>7. tx.events \subseteq EventSet /\ tx.events # {} /\ \A e \in tx.events : e.ts <= clock
  BY <1>2, <1>3, <1>5 DEF WellFormed, IsFinal
<1>8. tx.mode = "FINAL" /\ tx.plan = plan /\ clock \in Nat
  BY <1>2, <1>5 DEF IsFinal
<1>9. Intervals(Charging(tx)) /\ Intervals(Billable(tx, Observed(tx)))
  <2>1. IdlePolicy(tx.plan)
    BY <1>2, <1>8, PlanIdle
  <2> QED BY <1>6, <1>7, <1>8, <2>1, BilledIntervals
<1>10. IsCalc(calc, tx, stop)
  BY <1>2, <1>3, <1>5, <1>6, <1>9 DEF IsCalc, input
<1> QED BY <1>10

(* Its lines, and what is charged for them.                                *)
CostLines(tx, base) ==
  LET r == CostOf(tx)
      metered == EnergyParts(tx, Segments(tx)) IN
  /\ IsFiniteSet(base) /\ \A l \in base : LineOK(l)
  /\ r.lines = Adjusted(tx.plan, base)
  /\ r.subtotal = AmountsOf(tx.plan, r.lines)[1]
  /\ r.total = AmountsOf(tx.plan, r.lines)[1] + AmountsOf(tx.plan, r.lines)[2]
  /\ r.energy = EnergyAt(Segments(tx), tx.end)
  /\ {l \in base : l.dim = "ENERGY"} = LinesOf(tx, "ENERGY", metered, KWh)
  /\ \A l \in LinesOf(tx, "ENERGY", metered, KWh) : l.el # 0
  /\ ~ Unmatched(tx, "ENERGY", metered)

(* A cost is made of lines before the adjustments, those of the energy are *)
(* the ones that the parts of the energy make.                             *)
LEMMA CostLinesExist ==
  ASSUME NEW tx, TxOK(tx), CostOf(tx).ok, Intervals(Charging(tx)), Intervals(Billable(tx, Observed(tx)))
  PROVE  \E base : CostLines(tx, base)
<1> DEFINE charging == Charging(tx)
           billable == Billable(tx, Observed(tx))
           quantity == Quantities(tx, Segments(tx), charging, billable)
           base == BaseLines(tx, quantity)
           metered == EnergyParts(tx, Segments(tx))
           r == CostOf(tx)
<1>1. /\ r.lines = Adjusted(tx.plan, base)
      /\ r.subtotal = AmountsOf(tx.plan, r.lines)[1]
      /\ r.total = AmountsOf(tx.plan, r.lines)[1] + AmountsOf(tx.plan, r.lines)[2]
      /\ r.energy = EnergyAt(Segments(tx), tx.end)
      /\ ~ Unmatched(tx, "ENERGY", quantity["ENERGY"])
  BY CostParts
<1>2. /\ IsFiniteSet(base) /\ \A l \in base : LineOK(l)
      /\ quantity["ENERGY"] = metered
      /\ {l \in base : l.dim = "ENERGY"} = LinesOf(tx, "ENERGY", metered, KWh)
      /\ \A l \in LinesOf(tx, "ENERGY", metered, KWh) : l.el # 0
  <2> HIDE DEF charging, billable
  <2>1. Intervals(charging) /\ Intervals(billable)
    BY DEF charging, billable
  <2>2. LET q == Quantities(tx, Segments(tx), charging, billable)
            b == BaseLines(tx, q)
         IN  /\ IsFiniteSet(b) /\ \A l \in b : LineOK(l)
             /\ q.ENERGY = EnergyParts(tx, Segments(tx)) /\ q["ENERGY"] = q.ENERGY
             /\ {l \in b : l.dim = "ENERGY"} = LinesOf(tx, "ENERGY", EnergyParts(tx, Segments(tx)), KWh)
             /\ \A l \in LinesOf(tx, "ENERGY", EnergyParts(tx, Segments(tx)), KWh) : l.el # 0
    BY <2>1, BaseOK
  <2> QED BY <2>2
<1> HIDE DEF base, r
<1>3. CostLines(tx, base)
  <2>1. ~ Unmatched(tx, "ENERGY", metered)
    BY <1>1, <1>2
  <2> HIDE DEF quantity, metered
  <2> QED BY <1>1, <1>2, <2>1 DEF CostLines, r, metered
<1> QED BY <1>3

(* The lines of the energy are not changed by the adjustments.             *)
LEMMA EnergyOfAdjusted ==
  ASSUME NEW p \in PlanSet, NEW base, IsFiniteSet(base), \A l \in base : LineOK(l)
  PROVE  /\ Priced(base) /\ Priced(AdjustmentLines(p, base)) /\ base \cap AdjustmentLines(p, base) = {}
         /\ {l \in Adjusted(p, base) : l.dim = "ENERGY"} = {l \in base : l.dim = "ENERGY"}
<1>1. Priced(base) /\ \A l \in base : l.dim # "ADJUSTMENT"
  BY DEF Priced, LineOK, Dimensions
<1>2. Priced(AdjustmentLines(p, base)) /\ \A l \in AdjustmentLines(p, base) : l.dim = "ADJUSTMENT"
  BY <1>1, AdjustmentsType
<1> QED BY <1>1, <1>2 DEF Adjusted

(* The energy that is billed, element by element, is what the register     *)
(* counted from start to stop, whatever readings came between, and no      *)
(* element bills more than lies between its thresholds (buildSegments,     *)
(* energyLines and the reconciliation with the stop).                      *)
THEOREM TheEnergyAddsUp == Spec => []EnergyAddsUp
<1>1. ASSUME PInv PROVE EnergyAddsUp
  <2> SUFFICES ASSUME NEW c \in ToSet(calcs), StopOf(c.input).ts > Start
               PROVE  LET lines == {l \in c.result.lines : l.dim = "ENERGY"}
                          counted == StopOf(c.input).wh - MeterStart
                          Tier(l) == plan.elements[l.el].restr
                      IN  /\ SumFunction([l \in lines |-> l.raw]) = counted /\ c.result.energy = counted
                          /\ \A l \in lines : l.el # 0 => l.raw <= Tier(l).maxWh - Tier(l).minWh
    BY DEF EnergyAddsUp
  <2>1. PICK tx, stop : IsCalc(c, tx, stop)
    BY <1>1, CalcIsCost
  <2>2. /\ tx.plan = plan /\ TxOK(tx) /\ tx.stopped /\ tx.start = Start /\ tx.end = stop.ts
        /\ tx.meterStart = MeterStart /\ tx.meterStop = stop.wh
        /\ c.result = CostOf(tx) /\ CostOf(tx).ok
        /\ Intervals(Charging(tx)) /\ Intervals(Billable(tx, Observed(tx)))
        /\ plan \in PlanSet
    BY <2>1 DEF IsCalc, IsFinal
  <2>3. StopOf(c.input) = stop /\ stop.wh \in Nat
    <3>1. OfKind(c.input, "TX_STOP") = {stop} /\ stop \in EventSet
      BY <2>1 DEF IsCalc, IsFinal
    <3> QED BY <3>1, Single DEF StopOf, EventSet
  <2>4. PICK base : CostLines(tx, base)
    BY <2>2, CostLinesExist
  <2> DEFINE whole == EnergyAt(Segments(tx), tx.end)
             lines == LinesOf(tx, "ENERGY", EnergyParts(tx, Segments(tx)), KWh)
  <2>5. c.result.energy = whole /\ {l \in c.result.lines : l.dim = "ENERGY"} = lines
    <3>1. {l \in Adjusted(plan, base) : l.dim = "ENERGY"} = {l \in base : l.dim = "ENERGY"}
      BY <2>2, <2>4, EnergyOfAdjusted DEF CostLines
    <3> QED BY <2>2, <2>4, <3>1 DEF CostLines
  <2>6. whole = stop.wh - MeterStart
    <3>1. tx.start < tx.end /\ tx.meterStart <= tx.meterStop
      BY <2>2, <2>3 DEF MeterStart, TxOK
    <3> QED BY <2>2, <3>1, SegmentsCurve
  <2>7. /\ SumFunction([l \in lines |-> l.raw]) = whole
        /\ \A l \in lines : l.raw <= tx.plan.elements[l.el].restr.maxWh - tx.plan.elements[l.el].restr.minWh
    <3>1. ~ Unmatched(tx, "ENERGY", EnergyParts(tx, Segments(tx))) /\ KWh \in Nat \ {0}
      BY <2>4 DEF CostLines
    <3>2. LET ls == LinesOf(tx, "ENERGY", EnergyParts(tx, Segments(tx)), KWh)
          IN  /\ IsFiniteSet(ls)
              /\ SumFunction([l \in ls |-> l.raw]) = EnergyAt(Segments(tx), tx.end)
              /\ \A l \in ls : LET r == tx.plan.elements[l.el].restr IN l.raw <= r.maxWh - r.minWh
      BY <2>2, <3>1, EnergyLines
    <3> QED BY <3>2
  <2> HIDE DEF lines, whole
  <2>8. {l \in c.result.lines : l.dim = "ENERGY"} = lines
    BY <2>5
  <2> QED BY <2>2, <2>3, <2>5, <2>6, <2>7, <2>8
<1> QED BY <1>1, PInvInvariant, PTL

-----------------------------------------------------------------------------
(* One adjustment never takes more than there is.                          *)

(* One line amounts to what it says.                                       *)
LEMMA GrossOne == ASSUME NEW x, x.gross \in Int, x.rate \in Nat PROVE GrossOf({x}) = x.gross
<1>1. Priced({x})
  BY FS_Singleton DEF Priced
<1>2. GrossOf({x}) = x.gross + GrossOf({x} \ {x})
  BY <1>1, GrossAny
<1>3. {x} \ {x} = {}
  OBVIOUS
<1>4. GrossOf({x} \ {x}) = 0
  BY <1>3, GrossNone
<1> QED BY <1>2, <1>4

(* Lines that are not negative for any rate of tax are not negative.       *)
LEMMA GrossByRate ==
  ASSUME NEW S, Priced(S), \A r \in Nat : GrossOf(OfRate(S, r)) >= 0
  PROVE  GrossOf(S) >= 0
<1> DEFINE R == {l.rate : l \in S}
           Of(Q) == {l \in S : l.rate \in Q}
           G == {Q \in SUBSET R : GrossOf(Of(Q)) >= 0}
<1>1. IsFiniteSet(R) /\ R \subseteq Nat
  <2> DEFINE h == [l \in S |-> l.rate]
  <2>1. IsFiniteSet({h[l] : l \in S})
    <3> HIDE DEF h
    <3> QED BY FiniteImage DEF Priced
  <2>2. {h[l] : l \in S} = R
    OBVIOUS
  <2> QED BY <2>1, <2>2 DEF Priced
<1>2. {} \in G
  <2>1. Of({}) = {}
    OBVIOUS
  <2> QED BY <2>1, GrossNone
<1>3. ASSUME NEW Q \in SUBSET R, NEW r \in Q, Q \ {r} \in G PROVE Q \in G
  <2>1. Of(Q) = Of(Q \ {r}) \cup OfRate(S, r) /\ Of(Q \ {r}) \cap OfRate(S, r) = {}
    BY DEF OfRate
  <2>2. Priced(Of(Q \ {r})) /\ Priced(OfRate(S, r))
    BY FS_Subset DEF Priced, OfRate
  <2>3. GrossOf(Of(Q \ {r}) \cup OfRate(S, r)) = GrossOf(Of(Q \ {r})) + GrossOf(OfRate(S, r))
    BY <2>1, <2>2, GrossUnion
  <2>4. GrossOf(Of(Q)) = GrossOf(Of(Q \ {r}) \cup OfRate(S, r))
    BY <2>1
  <2>5. GrossOf(Of(Q \ {r})) >= 0 /\ GrossOf(OfRate(S, r)) >= 0
    BY <1>1, <1>3
  <2>6. GrossOf(Of(Q \ {r})) \in Int /\ GrossOf(OfRate(S, r)) \in Int
    BY <2>2, GrossInt
  <2> HIDE DEF Of
  <2>7. GrossOf(Of(Q)) >= 0
    BY <2>3, <2>4, <2>5, <2>6
  <2> QED BY <2>7
<1>4. R \in G
  <2>1. G \in SUBSET SUBSET R
    OBVIOUS
  <2> HIDE DEF G, R
  <2> QED BY <1>1, <1>2, <1>3, <2>1, SubsetInduction
<1>5. Of(R) = S
  OBVIOUS
<1> HIDE DEF Of
<1>6. GrossOf(Of(R)) >= 0
  BY <1>4
<1> QED BY <1>5, <1>6

(* What a percentage leaves of the lines of a rate.                        *)
LEMMA PercentLeaves ==
  ASSUME NEW p, NEW base, IsFiniteSet(base), \A l \in base : LineOK(l),
         p.adjustments[1].type = "PERCENT", p.adjustments[1].value \in Int,
         base \cap AdjustmentFor(p, 1, base, {}) = {}, NEW r \in Nat
  PROVE  GrossOf(OfRate(base \cup AdjustmentFor(p, 1, base, {}), r)) >= 0
<1> DEFINE A == AdjustmentFor(p, 1, base, {})
           T == Targets(p, 1, base)
           off == PercentOff(p, 1, base, {}, r)
           x == AdjustmentLine(p, 1, r, off)
<1>1. Priced(base) /\ Priced({})
  BY FS_EmptySet DEF Priced, LineOK
<1>2. Priced(A)
  BY <1>1, AdjustmentType
<1>3. GrossOf(OfRate(T, r)) \in Nat /\ GrossOf(OfRate(base, r)) \in Nat /\ GrossOf(OfRate(T, r)) <= GrossOf(OfRate(base, r))
  <2> DEFINE B == OfRate(base, r)
  <2>1. IsFiniteSet(B) /\ \A l \in B : l.gross \in Nat /\ l.rate \in Nat
    BY FS_Subset DEF OfRate, LineOK
  <2>2. OfRate(T, r) \in SUBSET B /\ B \in SUBSET B
    BY DEF OfRate, Targets
  <2> HIDE DEF B
  <2>3. GrossOf(OfRate(T, r)) \in Nat /\ GrossOf(B) \in Nat /\ GrossOf(OfRate(T, r)) <= GrossOf(B)
    BY <2>1, <2>2, GrossPart
  <2> QED BY <2>3 DEF B
<1>4. off \in Int /\ GrossOf(OfRate(T, r)) + off >= 0
  <2> DEFINE g == GrossOf(OfRate(T, r))
             v == g * p.adjustments[1].value
             d == DivideRounded(v, 100, p.rounding)
  <2>1. SameKind(p, 1, {}, r) = {}
    BY DEF SameKind
  <2>2. GrossOf(SameKind(p, 1, {}, r)) = 0
    BY <2>1, GrossNone
  <2>3. off = Capped(g, 0, d)
    BY <2>2 DEF PercentOff
  <2>4. v \in Int /\ 100 \in Nat \ {0} /\ g \in Int /\ 0 \in Int
    BY <1>3
  <2> HIDE DEF v, g
  <2>5. d \in Int
    BY <2>4, RoundedInt
  <2>6. Capped(g, 0, d) \in Int /\ g + 0 + Capped(g, 0, d) >= 0
    BY <2>4, <2>5, CappedType
  <2> QED BY <2>3, <2>4, <2>6 DEF g
<1>5. OfRate(A, r) \subseteq {x}
  <2>1. SUFFICES ASSUME NEW l \in OfRate(A, r) PROVE l = x
    OBVIOUS
  <2>2. l \in PercentLines(p, 1, base, {}) /\ l.rate = r
    <3>1. A = {m \in PercentLines(p, 1, base, {}) : m.gross # 0}
      BY AdjustmentForm, Zenon
    <3> QED BY <3>1 DEF OfRate
  <2>3. PICK t \in T : l = AdjustmentLine(p, 1, t.rate, PercentOff(p, 1, base, {}, t.rate))
    BY <2>2 DEF PercentLines
  <2>4. l.rate = t.rate
    BY <2>3, LineFieldsOfAdjustment
  <2> QED BY <2>2, <2>3, <2>4
<1>6. x.gross = off /\ x.rate = r
  BY LineFieldsOfAdjustment
<1> HIDE DEF A, x, off
<1>7. Priced(OfRate(A, r)) /\ Priced(OfRate(base, r)) /\ OfRate(base, r) \cap OfRate(A, r) = {}
  BY <1>1, <1>2, FS_Subset DEF Priced, OfRate, A
<1>8. OfRate(base \cup A, r) = OfRate(base, r) \cup OfRate(A, r)
  BY DEF OfRate
<1>9. GrossOf(OfRate(base, r) \cup OfRate(A, r)) = GrossOf(OfRate(base, r)) + GrossOf(OfRate(A, r))
  BY <1>7, GrossUnion
<1>10. OfRate(A, r) = {} \/ OfRate(A, r) = {x}
  BY <1>5
<1>11. GrossOf(OfRate(A, r)) = 0 \/ GrossOf(OfRate(A, r)) = off
  <2>1. GrossOf({x}) = off
    BY <1>4, <1>6, GrossOne
  <2> QED BY <1>10, <2>1, GrossNone
<1>12. GrossOf(OfRate(base \cup A, r)) = GrossOf(OfRate(base, r)) + GrossOf(OfRate(A, r))
  BY <1>8, <1>9
<1>13. GrossOf(OfRate(base \cup A, r)) >= 0
  BY <1>3, <1>4, <1>11, <1>12
<1> QED BY <1>13 DEF A

(* The line that comes first is the only one that does.                    *)
RankOf(x) == CHOOSE k \in DOMAIN Dimension : Dimension[k] = x.dim

(* Every dimension has a place in the order of the lines.                  *)
LEMMA RankInt == ASSUME NEW x, LineOK(x) PROVE RankOf(x) \in Int
<1>1. \E k \in DOMAIN Dimension : Dimension[k] = x.dim
  <2>1. /\ Dimension[1] = "FLAT" /\ Dimension[2] = "ENERGY" /\ Dimension[3] = "TIME" /\ Dimension[4] = "PARKING_TIME"
        /\ {1, 2, 3, 4} \subseteq DOMAIN Dimension
    BY DEF Dimension
  <2> QED BY <2>1 DEF LineOK, Dimensions
<1>2. RankOf(x) \in DOMAIN Dimension
  BY <1>1 DEF RankOf
<1>3. DOMAIN Dimension \subseteq Int
  BY DEF Dimension
<1> QED BY <1>2, <1>3

(* Only one line is before all others.                                     *)
LEMMA OneForemost ==
  ASSUME NEW S, \A l \in S : LineOK(l), NEW f \in Foremost(S), NEW m \in Foremost(S)
  PROVE  f = m
<1> SUFFICES ASSUME f # m PROVE FALSE
  OBVIOUS
<1>1. LineOK(f) /\ LineOK(m) /\ Precedes(f, m) /\ Precedes(m, f)
  BY DEF Foremost
<1>2. RankOf(f) \in Int /\ RankOf(m) \in Int
  BY <1>1, RankInt
<1>3. /\ RankOf(f) < RankOf(m) \/ (RankOf(f) = RankOf(m) /\ (f.first < m.first \/ (f.first = m.first /\ f.el < m.el)))
      /\ RankOf(m) < RankOf(f) \/ (RankOf(m) = RankOf(f) /\ (m.first < f.first \/ (m.first = f.first /\ m.el < f.el)))
  BY <1>1, Zenon DEF Precedes, RankOf
<1>4. f.first \in Nat /\ m.first \in Nat /\ f.el \in Nat /\ m.el \in Nat
  BY <1>1 DEF LineOK
<1> QED BY <1>2, <1>3, <1>4

(* What an amount leaves of all.                                           *)
LEMMA AmountLeaves ==
  ASSUME NEW p, NEW base, IsFiniteSet(base), \A l \in base : LineOK(l),
         p.adjustments[1].type # "PERCENT", p.adjustments[1].value \in Int,
         base \cap AdjustmentFor(p, 1, base, {}) = {}
  PROVE  GrossOf(base \cup AdjustmentFor(p, 1, base, {})) >= 0
<1> DEFINE A == AdjustmentFor(p, 1, base, {})
           T == Targets(p, 1, base)
           off == AmountOff(p, 1, base, {})
<1>1. Priced(base) /\ Priced({})
  BY FS_EmptySet DEF Priced, LineOK
<1>2. Priced(A)
  BY <1>1, AdjustmentType
<1>3. GrossOf(T) \in Nat /\ GrossOf(base) \in Nat /\ GrossOf(T) <= GrossOf(base)
  <2>1. T \in SUBSET base /\ base \in SUBSET base
    BY DEF Targets
  <2>2. \A l \in base : l.gross \in Nat /\ l.rate \in Nat
    BY DEF LineOK
  <2> HIDE DEF T
  <2> QED BY <2>1, <2>2, GrossPart
<1>4. off \in Int /\ GrossOf(T) + off >= 0
  <2>1. GrossOf({}) = 0 /\ 0 \in Int /\ GrossOf(T) \in Int
    BY <1>3, GrossNone
  <2>2. off = Capped(GrossOf(T), 0, p.adjustments[1].value)
    BY <2>1 DEF AmountOff
  <2> HIDE DEF off, T
  <2>3. /\ Capped(GrossOf(T), 0, p.adjustments[1].value) \in Int
        /\ GrossOf(T) + 0 + Capped(GrossOf(T), 0, p.adjustments[1].value) >= 0
    BY <2>1, CappedType
  <2> QED BY <2>1, <2>2, <2>3
<1>5. ASSUME NEW x \in A
      PROVE  \E t \in Foremost(T) : x = AdjustmentLine(p, 1, t.rate, off)
  <2>1. A = {m \in AmountLines(p, 1, base, {}) : m.gross # 0}
    BY AdjustmentForm, Zenon
  <2> QED BY <1>5, <2>1 DEF AmountLines
<1>6. GrossOf(A) = 0 \/ GrossOf(A) = off
  <2>1. CASE A = {}
    BY <2>1, GrossNone
  <2>2. CASE A # {}
    <3>1. PICK x \in A : TRUE
      BY <2>2
    <3>2. \A y \in A : y = x
      <4>1. SUFFICES ASSUME NEW y \in A PROVE y = x
        OBVIOUS
      <4>2. PICK t \in Foremost(T) : x = AdjustmentLine(p, 1, t.rate, off)
        BY <1>5
      <4>3. PICK u \in Foremost(T) : y = AdjustmentLine(p, 1, u.rate, off)
        BY <1>5
      <4>4. \A l \in T : LineOK(l)
        BY DEF Targets
      <4> HIDE DEF T, off, A
      <4>5. t = u
        BY <4>4, OneForemost
      <4> QED BY <4>2, <4>3, <4>5
    <3>3. A = {x}
      BY <3>1, <3>2
    <3>4. x.gross = off
      BY <1>5, LineFieldsOfAdjustment
    <3>5. x.gross \in Int /\ x.rate \in Nat
      BY <1>2, <3>1 DEF Priced
    <3> HIDE DEF A, off
    <3>6. GrossOf({x}) = x.gross
      BY <3>5, GrossOne
    <3> QED BY <3>3, <3>4, <3>6
  <2> QED BY <2>1, <2>2
<1> HIDE DEF A, off, T
<1>7. GrossOf(base \cup A) = GrossOf(base) + GrossOf(A)
  BY <1>1, <1>2, GrossUnion DEF A
<1>8. GrossOf(base \cup A) >= 0
  BY <1>3, <1>4, <1>6, <1>7
<1> QED BY <1>8 DEF A

-----------------------------------------------------------------------------
(* What is charged before the limits is never negative.                    *)

NeverNegative(p) ==
  \/ p.min.incl # None
  \/ p.adjustments = <<>>
  \/ Len(p.adjustments) = 1 /\ (p.included \/ (p.perGroup /\ p.adjustments[1].type = "PERCENT"))

(* The tax by groups of lines that are not negative for any rate is not    *)
(* negative.                                                               *)
LEMMA GroupedTax ==
  ASSUME NEW p, NEW S, Priced(S), p.perGroup, \A r \in Nat : GrossOf(OfRate(S, r)) >= 0
  PROVE  TaxOfLines(p, S) >= 0
<1> DEFINE R == {l.rate : l \in S}
           group(r) == {l \in S : l.rate = r}
           f == [r \in R |-> TaxOf(p, GrossOf(group(r)), r)]
<1>1. TaxOfLines(p, S) = SumFunctionOnSet(f, R)
  BY DEF TaxOfLines, SumFunction
<1>2. IsFiniteSet(R)
  <2> DEFINE h == [l \in S |-> l.rate]
  <2>1. IsFiniteSet({h[l] : l \in S})
    <3> HIDE DEF h
    <3> QED BY FiniteImage DEF Priced
  <2>2. {h[l] : l \in S} = R
    OBVIOUS
  <2> QED BY <2>1, <2>2 DEF Priced
<1>3. ASSUME NEW r \in R PROVE f[r] \in Nat
  <2>1. Priced(group(r)) /\ r \in Nat
    BY FS_Subset DEF Priced
  <2>2. GrossOf(group(r)) \in Int
    BY <2>1, GrossInt
  <2>3. GrossOf(group(r)) >= 0
    BY <2>1 DEF OfRate
  <2>4. f[r] = TaxOf(p, GrossOf(group(r)), r)
    OBVIOUS
  <2> HIDE DEF f, group
  <2>5. TaxOf(p, GrossOf(group(r)), r) \in Int /\ TaxOf(p, GrossOf(group(r)), r) >= 0
    BY <2>1, <2>2, <2>3, TaxType
  <2> QED BY <2>4, <2>5
<1> HIDE DEF f, R
<1>4. SumFunctionOnSet(f, R) \in Nat
  BY <1>2, <1>3, SumNat
<1> QED BY <1>1, <1>4

(* The amount of the lines and its tax, before the limits.                 *)
LEMMA ChargedBeforeLimits ==
  ASSUME NEW p \in PlanSet, NEW base, IsFiniteSet(base), \A l \in base : LineOK(l)
  PROVE  LET g == GrossOf(Adjusted(p, base))
             t == TaxOfLines(p, Adjusted(p, base))
         IN  /\ g \in Int /\ t \in Int
             /\ NeverNegative(p) /\ p.min.incl = None => IF p.included THEN g >= 0 ELSE g + t >= 0
<1> DEFINE A == AdjustmentLines(p, base)
           S == Adjusted(p, base)
           g == GrossOf(S)
           t == TaxOfLines(p, S)
<1>1. Priced(base) /\ Priced(A) /\ base \cap A = {} /\ S = base \cup A
  BY EnergyOfAdjusted DEF Adjusted
<1>2. Priced(S)
  <2> HIDE DEF A, S
  <2> QED BY <1>1, GrossUnion
<1>3. g \in Int /\ t \in Int
  <2> HIDE DEF S
  <2> QED BY <1>2, GrossInt, TaxOfLinesType
<1>4. ASSUME p.adjustments = <<>> PROVE g >= 0 /\ t >= 0
  <2>1. A = {}
    BY <1>1, <1>4, AdjustmentsType
  <2>2. S = base
    BY <1>1, <2>1
  <2>3. GrossOf(base) \in Nat /\ TaxOfLines(p, base) >= 0
    <3>1. \A l \in base : l.gross \in Nat /\ l.gross >= 0
      BY DEF LineOK
    <3> QED BY <1>1, <3>1, GrossNat, TaxOfLinesType
  <2> QED BY <2>2, <2>3
<1>5. ASSUME Len(p.adjustments) = 1
      PROVE  g >= 0 /\ (p.perGroup /\ p.adjustments[1].type = "PERCENT" => t >= 0)
  <2>1. A = AdjustmentFor(p, 1, base, {})
    BY <1>1, <1>5, AdjustmentsType
  <2>2. p.adjustments[1].value \in Int
    <3>1. p.adjustments \in Seq(AdjustmentSet)
      BY DEF PlanSet
    <3>2. p.adjustments[1] \in AdjustmentSet
      BY <1>5, <3>1
    <3> QED BY <3>2 DEF AdjustmentSet
  <2> DEFINE B == AdjustmentFor(p, 1, base, {})
  <2>3. base \cap B = {} /\ S = base \cup B
    BY <1>1, <2>1
  <2>4. CASE p.adjustments[1].type = "PERCENT"
    <3>1. \A r \in Nat : GrossOf(OfRate(base \cup B, r)) >= 0
      BY <2>2, <2>3, <2>4, PercentLeaves
    <3>2. \A r \in Nat : GrossOf(OfRate(S, r)) >= 0
      BY <2>3, <3>1
    <3> HIDE DEF S
    <3>3. GrossOf(S) >= 0
      BY <1>2, <3>2, GrossByRate
    <3>4. p.perGroup => TaxOfLines(p, S) >= 0
      BY <1>2, <3>2, GroupedTax
    <3> QED BY <3>3, <3>4
  <2>5. CASE p.adjustments[1].type # "PERCENT"
    <3>1. GrossOf(base \cup B) >= 0
      BY <2>2, <2>3, <2>5, AmountLeaves
    <3> QED BY <2>3, <2>5, <3>1
  <2> QED BY <2>4, <2>5
<1> HIDE DEF g, t
<1>6. NeverNegative(p) /\ p.min.incl = None => IF p.included THEN g >= 0 ELSE g + t >= 0
  BY <1>3, <1>4, <1>5 DEF NeverNegative
<1> QED BY <1>3, <1>6 DEF g, t, S

-----------------------------------------------------------------------------
(* The limits                                                              *)

LimitsAgree(p) ==
  p.max.excl # None /\ p.min.excl # None =>
    \/ p.max.incl # None /\ p.min.incl # None /\ p.min.incl <= p.max.incl
    \/ p.max.incl = None /\ p.min.incl = None /\ p.min.excl <= p.max.excl

(* An amount that is brought to a limit is at the limit.                   *)
LEMMA BroughtToLimit ==
  ASSUME NEW p, NEW limit \in LimitSet, limit.excl # None, NEW s \in Int, NEW t \in Int
  PROVE  LET b == BroughtTo(p, limit, s, t) IN
         /\ b[1] \in Int /\ b[2] \in Int
         /\ limit.incl # None => b[1] + b[2] = limit.incl
         /\ limit.incl = None => b[1] = limit.excl
         /\ limit.incl = None /\ s + t >= 0 => b[1] + b[2] >= 0
<1> DEFINE b == BroughtTo(p, limit, s, t)
           over == (s - limit.excl) * t
           share == IF s > 0 THEN DivideRounded(over, s, p.rounding) ELSE 0
<1>0. None \notin Nat
  OBVIOUS
<1>1. limit.excl \in Nat /\ (limit.incl # None => limit.incl \in Nat /\ limit.excl <= limit.incl)
  BY <1>0 DEF LimitSet
<1>2. CASE limit.incl # None
  <2>1. BroughtTo(p, limit, s, t) = <<limit.incl - (limit.incl - limit.excl), limit.incl - limit.excl>>
    BY <1>1, <1>2, Zenon DEF BroughtTo
  <2>2. b[1] = limit.incl - (limit.incl - limit.excl) /\ b[2] = limit.incl - limit.excl
    BY <2>1
  <2> HIDE DEF b
  <2>3. b[1] \in Int /\ b[2] \in Int /\ b[1] + b[2] = limit.incl
    BY <1>1, <1>2, <2>2
  <2> QED BY <1>2, <2>3 DEF b
<1>3. CASE limit.incl = None
  <2>1. BroughtTo(p, limit, s, t) = <<limit.excl, t - share>>
    BY <1>3, Zenon DEF BroughtTo
  <2>2. b[1] = limit.excl /\ b[2] = t - share
    BY <2>1
  <2>3. over \in Int
    BY <1>1
  <2>4. share \in Int
    <3> HIDE DEF over
    <3> QED BY <2>3, RoundedInt
  <2>5. ASSUME s + t >= 0, s > 0 PROVE share <= limit.excl + t
    <3>1. over <= (limit.excl + t) * s
      <4> DEFINE e == limit.excl
      <4>1. e \in Nat
        BY <1>1
      <4> HIDE DEF e
      <4>2. 0 <= e * (s + t)
        BY <2>5, <4>1
      <4>3. (s - e) * t = s * t - e * t /\ (e + t) * s = e * s + s * t /\ e * (s + t) = e * s + e * t
        BY <4>1
      <4>4. s * t \in Int /\ e * t \in Int /\ e * s \in Int
        BY <4>1
      <4>5. (s - e) * t <= (e + t) * s
        BY <4>2, <4>3, <4>4
      <4> QED BY <4>5 DEF e
    <3>2. limit.excl + t \in Int /\ s \in Nat \ {0}
      BY <1>1, <2>5
    <3> HIDE DEF over
    <3>3. DivideRounded(over, s, p.rounding) <= limit.excl + t
      BY <2>3, <3>1, <3>2, RoundedBounds
    <3> QED BY <2>5, <3>3
  <2>6. s <= 0 => share = 0
    OBVIOUS
  <2> HIDE DEF b, share
  <2>7. b[1] \in Int /\ b[2] \in Int /\ b[1] = limit.excl
    BY <1>1, <2>2, <2>4
  <2>8. s + t >= 0 => b[1] + b[2] >= 0
    BY <1>1, <2>2, <2>4, <2>5, <2>6
  <2> QED BY <1>3, <2>7, <2>8 DEF b
<1> QED BY <1>2, <1>3

(* A ceiling or a floor that has an amount with tax limits the total, one  *)
(* that has not limits the subtotal.                                       *)
WithinLimits(p, subtotal, total) ==
  /\ p.max.incl # None => total <= p.max.incl
  /\ p.max.incl = None /\ p.max.excl # None => subtotal <= p.max.excl
  /\ p.min.incl # None => total >= p.min.incl
  /\ p.min.incl = None /\ p.min.excl # None => subtotal >= p.min.excl

(* capLine and its floor leave the amount within both limits.              *)
LEMMA LimitedWithin ==
  ASSUME NEW p \in PlanSet, LimitsAgree(p), NEW s \in Int, NEW t \in Int
  PROVE  LET total == Limited(p, s, t)[1] + Limited(p, s, t)[2] IN
         /\ total \in Int
         /\ WithinLimits(p, Limited(p, s, t)[1], total)
         /\ p.min.incl # None \/ s + t >= 0 => total >= 0
<1> DEFINE top == BroughtTo(p, p.max, s, t)
           bottom == BroughtTo(p, p.min, s, t)
<1>0. None \notin Nat
  OBVIOUS
<1>1. /\ p.max \in LimitSet /\ p.min \in LimitSet
      /\ \A limit \in LimitSet : /\ limit.excl \in Nat \/ (limit.excl = None /\ limit.incl = None)
                                 /\ limit.incl \in Nat \cup {None}
                                 /\ limit.incl # None => limit.excl \in Nat /\ limit.excl <= limit.incl
  <2>1. p.max \in LimitSet /\ p.min \in LimitSet
    BY DEF PlanSet
  <2>2. ASSUME NEW limit \in LimitSet
        PROVE  /\ limit.excl \in Nat \/ (limit.excl = None /\ limit.incl = None)
               /\ limit.incl \in Nat \cup {None}
               /\ limit.incl # None => limit.excl \in Nat /\ limit.excl <= limit.incl
    BY <1>0 DEF LimitSet
  <2> QED BY <2>1, <2>2
<1>2. p.max.excl # None =>
        /\ top[1] \in Int /\ top[2] \in Int
        /\ p.max.incl # None => top[1] + top[2] = p.max.incl
        /\ p.max.incl = None => top[1] = p.max.excl
        /\ p.max.incl = None /\ s + t >= 0 => top[1] + top[2] >= 0
  BY <1>1, BroughtToLimit
<1>3. p.min.excl # None =>
        /\ bottom[1] \in Int /\ bottom[2] \in Int
        /\ p.min.incl # None => bottom[1] + bottom[2] = p.min.incl
        /\ p.min.incl = None => bottom[1] = p.min.excl
        /\ p.min.incl = None /\ s + t >= 0 => bottom[1] + bottom[2] >= 0
  BY <1>1, BroughtToLimit
<1> HIDE DEF top, bottom
<1>4. CASE Exceeds(p.max, s, t)
  <2>1. Limited(p, s, t) = top
    BY <1>4, Zenon DEF Limited, top
  <2>2. p.max.excl # None
    BY <1>0, <1>1, <1>4 DEF Exceeds
  <2>3. /\ top[1] + top[2] \in Int
        /\ WithinLimits(p, top[1], top[1] + top[2])
        /\ p.min.incl # None \/ s + t >= 0 => top[1] + top[2] >= 0
    BY <1>0, <1>1, <1>2, <2>2 DEF WithinLimits, LimitsAgree
  <2> QED BY <2>1, <2>3
<1>5. CASE ~ Exceeds(p.max, s, t) /\ FallsShort(p.min, s, t)
  <2>1. Limited(p, s, t) = bottom
    BY <1>5, Zenon DEF Limited, bottom
  <2>2. p.min.excl # None
    BY <1>0, <1>1, <1>5 DEF FallsShort
  <2>3. /\ bottom[1] + bottom[2] \in Int
        /\ WithinLimits(p, bottom[1], bottom[1] + bottom[2])
        /\ p.min.incl # None \/ s + t >= 0 => bottom[1] + bottom[2] >= 0
    BY <1>0, <1>1, <1>3, <2>2 DEF WithinLimits, LimitsAgree
  <2> QED BY <2>1, <2>3
<1>6. CASE ~ Exceeds(p.max, s, t) /\ ~ FallsShort(p.min, s, t)
  <2> DEFINE same == <<s, t>>
  <2>1. Limited(p, s, t) = same
    BY <1>6, Zenon DEF Limited
  <2>2. same[1] = s /\ same[2] = t
    OBVIOUS
  <2> HIDE DEF same
  <2>3. WithinLimits(p, s, s + t) /\ (p.min.incl # None \/ s + t >= 0 => s + t >= 0)
    BY <1>0, <1>1, <1>6 DEF WithinLimits, Exceeds, FallsShort
  <2> QED BY <2>1, <2>2, <2>3
<1> QED BY <1>4, <1>5, <1>6

-----------------------------------------------------------------------------
(* What is charged                                                         *)

(* A cost is what the limits leave of its lines and their tax.             *)
LEMMA CostIsLimited ==
  ASSUME NEW tx, TxOK(tx), CostOf(tx).ok, Intervals(Charging(tx)), Intervals(Billable(tx, Observed(tx)))
  PROVE  \E s, t \in Int : /\ CostOf(tx).subtotal = Limited(tx.plan, s, t)[1]
                           /\ CostOf(tx).total = Limited(tx.plan, s, t)[1] + Limited(tx.plan, s, t)[2]
                           /\ NeverNegative(tx.plan) /\ tx.plan.min.incl = None => s + t >= 0
<1> DEFINE p == tx.plan
           r == CostOf(tx)
<1>1. PICK base : CostLines(tx, base)
  BY CostLinesExist
<1>2. p \in PlanSet
  BY DEF TxOK
<1> DEFINE S == Adjusted(p, base)
           g == GrossOf(S)
           t == TaxOfLines(p, S)
           s == IF p.included THEN g - t ELSE g
<1>4. /\ g \in Int /\ t \in Int
      /\ NeverNegative(p) /\ p.min.incl = None => IF p.included THEN g >= 0 ELSE g + t >= 0
  <2>1. IsFiniteSet(base) /\ \A l \in base : LineOK(l)
    BY <1>1 DEF CostLines
  <2> HIDE DEF p
  <2> QED BY <1>2, <2>1, ChargedBeforeLimits
<1>5. r.subtotal = Limited(p, s, t)[1] /\ r.total = Limited(p, s, t)[1] + Limited(p, s, t)[2]
  <2>1. r.subtotal = AmountsOf(p, S)[1] /\ r.total = AmountsOf(p, S)[1] + AmountsOf(p, S)[2]
    BY <1>1 DEF CostLines
  <2>2. AmountsOf(p, S) = Limited(p, s, t)
    BY Zenon DEF AmountsOf, Amounts
  <2> QED BY <2>1, <2>2
<1> HIDE DEF g, t, r, p
<1>6. s \in Int /\ (NeverNegative(p) /\ p.min.incl = None => s + t >= 0)
  BY <1>4
<1> HIDE DEF s
<1> QED BY <1>4, <1>5, <1>6, Zenon DEF r, p

(* So is every calculation.                                                *)
LEMMA ChargedIsLimited ==
  ASSUME PInv, NEW c \in ToSet(calcs)
  PROVE  \E s, t \in Int : /\ plan \in Plans /\ plan \in PlanSet
                           /\ c.result.subtotal = Limited(plan, s, t)[1]
                           /\ c.result.total = Limited(plan, s, t)[1] + Limited(plan, s, t)[2]
                           /\ NeverNegative(plan) /\ plan.min.incl = None => s + t >= 0
<1>1. PICK tx, stop : IsCalc(c, tx, stop)
  BY CalcIsCost
<1>2. /\ tx.plan = plan /\ TxOK(tx) /\ c.result = CostOf(tx) /\ CostOf(tx).ok
      /\ Intervals(Charging(tx)) /\ Intervals(Billable(tx, Observed(tx)))
      /\ plan \in PlanSet /\ plan \in Plans
  BY <1>1 DEF IsCalc, IsFinal
<1> QED BY <1>2, CostIsLimited

(* What is charged keeps to the ceiling and the floor of every tariff      *)
(* whose limits agree, whatever its adjustments are (capLine).             *)
THEOREM TheLimitsAreKept ==
  ASSUME \A p \in Plans : LimitsAgree(p)
  PROVE  Spec => [](\A r \in Results : WithinLimits(plan, r.subtotal, r.total))
<1>1. ASSUME PInv, NEW c \in ToSet(calcs) PROVE WithinLimits(plan, c.result.subtotal, c.result.total)
  <2>1. PICK s \in Int, t \in Int :
          /\ plan \in Plans /\ plan \in PlanSet
          /\ c.result.subtotal = Limited(plan, s, t)[1]
          /\ c.result.total = Limited(plan, s, t)[1] + Limited(plan, s, t)[2]
    BY <1>1, ChargedIsLimited
  <2>2. WithinLimits(plan, Limited(plan, s, t)[1], Limited(plan, s, t)[1] + Limited(plan, s, t)[2])
    BY <2>1, LimitedWithin
  <2> QED BY <2>1, <2>2
<1>2. PInv => \A r \in Results : WithinLimits(plan, r.subtotal, r.total)
  BY <1>1, Zenon DEF Results
<1> QED BY <1>2, PInvInvariant, PTL

(* And it is never negative, if the tariff has at most one adjustment or a *)
(* floor with tax.  Of several adjustments, or of one whose tax is rounded *)
(* line by line, the code rounds and caps each apart: those are left to    *)
(* the run.                                                                *)
THEOREM TheTotalIsBounded ==
  ASSUME \A p \in Plans : LimitsAgree(p) /\ NeverNegative(p)
  PROVE  Spec => []TotalIsBounded
<1>1. ASSUME PInv, NEW c \in ToSet(calcs)
      PROVE  WithinLimits(plan, c.result.subtotal, c.result.total) /\ c.result.total >= 0
  <2>1. PICK s \in Int, t \in Int :
          /\ plan \in Plans /\ plan \in PlanSet
          /\ c.result.subtotal = Limited(plan, s, t)[1]
          /\ c.result.total = Limited(plan, s, t)[1] + Limited(plan, s, t)[2]
          /\ NeverNegative(plan) /\ plan.min.incl = None => s + t >= 0
    BY <1>1, ChargedIsLimited
  <2>2. plan.min.incl # None \/ s + t >= 0
    BY <2>1
  <2>3. /\ WithinLimits(plan, Limited(plan, s, t)[1], Limited(plan, s, t)[1] + Limited(plan, s, t)[2])
        /\ Limited(plan, s, t)[1] + Limited(plan, s, t)[2] >= 0
    BY <2>1, <2>2, LimitedWithin
  <2> QED BY <2>1, <2>3
<1>2. PInv => TotalIsBounded
  BY <1>1, Zenon DEF TotalIsBounded, Results, WithinLimits
<1> QED BY <1>2, PInvInvariant, PTL

-----------------------------------------------------------------------------
(* The cost that runs                                                      *)

AlertSet == {"PREAUTH_WARN", "PREAUTH_EXHAUSTED"}

(* There are two alerts.                                                   *)
LEMMA AlertsType == ASSUME NEW tx, CostOf(tx).ok PROVE CostOf(tx).alerts \subseteq AlertSet
<1> DEFINE times == TimesOf(tx, Observed(tx))
           quantity == Quantities(tx, Segments(tx), times.charging, times.billable)
           lines == Adjusted(tx.plan, BaseLines(tx, quantity))
           bad == \E dim \in {"ENERGY", "TIME"} : Unmatched(tx, dim, quantity[dim])
           cost == Cost(tx, Segments(tx), times, lines, AmountsOf(tx.plan, lines))
<1>1. CostOf(tx) = IF bad THEN Failed ELSE cost
  BY DEF CostOf, CostOfTimes, CostOfQuantities, CostOfLines
<1>2. CostOf(tx) = cost
  BY <1>1 DEF Failed
<1> HIDE DEF times, lines
<1>3. cost.alerts = Alerts(tx, Segments(tx), AmountsOf(tx.plan, lines)[1] + AmountsOf(tx.plan, lines)[2])
  BY DEF Cost
<1> HIDE DEF cost
<1>4. \A total : Alerts(tx, Segments(tx), total) \subseteq AlertSet
  BY DEF Alerts, AlertSet
<1> QED BY <1>2, <1>3, <1>4

(* The transaction of a running cost: it ends with its stop, or now.       *)
IsRunning(tx, p, input, now) ==
  /\ tx.plan = p /\ tx.events = input /\ tx.horizon = now
  /\ tx.start = Start /\ tx.meterStart = MeterStart
  /\ tx.stopped \in BOOLEAN
  /\ tx.end \in Nat /\ Start <= tx.end /\ tx.meterStop \in Nat

LEMMA RunningTimeline ==
  ASSUME NEW p, NEW input, NEW now \in Nat, WellFormed(input, now),
         OfKind(input, "TX_STOP") = {} \/ StoppedOnce(input)
  PROVE  IsRunning(Timeline(p, input, "RUNNING", now), p, input, now)
<1> DEFINE tx == Timeline(p, input, "RUNNING", now)
           known == {e \in input : e.ts <= now}
           start == TheOne(OfKind(input, "TX_START"))
           stops == {e \in OfKind(input, "TX_STOP") : e.ts >= start.ts}
<1>1. known = input
  BY DEF WellFormed
<1>2. start = StartEvent /\ StartEvent.ts = Start /\ StartEvent.wh = MeterStart /\ Start <= now
  <2>1. OfKind(input, "TX_START") = {StartEvent}
    BY DEF WellFormed
  <2>2. StartEvent.ts = Start /\ StartEvent.wh = MeterStart
    BY DEF StartEvent, Event
  <2>3. StartEvent \in input
    BY <2>1 DEF OfKind
  <2>4. Start <= now
    BY <2>2, <2>3 DEF WellFormed
  <2> QED BY <2>1, <2>2, <2>4, Single
<1>3. /\ tx.plan = p /\ tx.events = input /\ tx.horizon = now
      /\ tx.start = start.ts /\ tx.meterStart = start.wh
      /\ tx.stopped = (stops # {})
      /\ tx.end = IF stops = {} THEN now ELSE TheOne(stops).ts
      /\ tx.meterStop = IF stops = {} THEN 0 ELSE TheOne(stops).wh
  BY <1>1 DEF Timeline
<1>4. CASE OfKind(input, "TX_STOP") = {}
  <2>1. stops = {}
    BY <1>4
  <2> HIDE DEF tx, start, stops
  <2>2. IsRunning(tx, p, input, now)
    BY <1>2, <1>3, <2>1 DEF IsRunning
  <2> QED BY <2>2 DEF tx
<1>5. CASE StoppedOnce(input)
  <2>1. PICK stop \in input : OfKind(input, "TX_STOP") = {stop}
    BY <1>5 DEF StoppedOnce
  <2>2. stop \in EventSet /\ Start <= stop.ts
    BY DEF WellFormed
  <2>3. stop.ts \in Nat /\ stop.wh \in Nat
    BY <2>2 DEF EventSet
  <2>4. stops = {stop}
    BY <1>2, <2>1, <2>2, <2>3
  <2>5. TheOne(stops) = stop /\ stops # {}
    BY <2>4, Single
  <2> HIDE DEF tx, start, stops
  <2>6. IsRunning(tx, p, input, now)
    BY <1>2, <1>3, <2>2, <2>3, <2>5 DEF IsRunning
  <2> QED BY <2>6 DEF tx
<1> QED BY <1>4, <1>5

(* What a cost may be of such a tariff.                                    *)
LEMMA CostIsBounded ==
  ASSUME NEW tx, TxOK(tx), CostOf(tx).ok, LimitsAgree(tx.plan), NeverNegative(tx.plan),
         Intervals(Charging(tx)), Intervals(Billable(tx, Observed(tx)))
  PROVE  WithinLimits(tx.plan, CostOf(tx).subtotal, CostOf(tx).total) /\ CostOf(tx).total \in Nat
<1>1. PICK s \in Int, t \in Int :
        /\ CostOf(tx).subtotal = Limited(tx.plan, s, t)[1]
        /\ CostOf(tx).total = Limited(tx.plan, s, t)[1] + Limited(tx.plan, s, t)[2]
        /\ NeverNegative(tx.plan) /\ tx.plan.min.incl = None => s + t >= 0
  BY CostIsLimited
<1>2. tx.plan \in PlanSet /\ (tx.plan.min.incl # None \/ s + t >= 0)
  BY <1>1 DEF TxOK
<1> DEFINE total == Limited(tx.plan, s, t)[1] + Limited(tx.plan, s, t)[2]
<1>3. total \in Int /\ total >= 0 /\ WithinLimits(tx.plan, Limited(tx.plan, s, t)[1], total)
  BY <1>2, LimitedWithin
<1> HIDE DEF total
<1>4. total \in Nat
  BY <1>3
<1> QED BY <1>1, <1>3, <1>4 DEF total

(* The running cost keeps to them as a final one does.                     *)
LEMMA RunningIsCost ==
  ASSUME NEW p \in Plans, LimitsAgree(p), NeverNegative(p), NEW input, NEW now \in Nat, WellFormed(input, now),
         OfKind(input, "TX_STOP") = {} \/ StoppedOnce(input), Compute(p, input, "RUNNING", now).ok
  PROVE  LET r == Compute(p, input, "RUNNING", now) IN
         WithinLimits(p, r.subtotal, r.total) /\ r.total \in Nat /\ r.alerts \subseteq AlertSet
<1> DEFINE tx == Timeline(p, input, "RUNNING", now)
<1>1. IsRunning(tx, p, input, now)
  BY RunningTimeline
<1>2. Compute(p, input, "RUNNING", now) = CostOf(tx)
  BY DEF Compute
<1> HIDE DEF tx
<1>3. TxOK(tx) /\ tx.plan = p
  BY <1>1 DEF IsRunning, TxOK, WellFormed, MeterStart
<1>4. tx.events # {} /\ \A e \in tx.events : e.ts <= now
  BY <1>1 DEF IsRunning, WellFormed, OfKind
<1>5. Intervals(Charging(tx)) /\ Intervals(Billable(tx, Observed(tx)))
  <2>1. IdlePolicy(tx.plan) /\ tx.horizon \in Nat
    BY <1>1, <1>3, PlanIdle DEF IsRunning
  <2> QED BY <1>3, <1>4, <2>1, BilledIntervals
<1> QED BY <1>2, <1>3, <1>5, CostIsBounded, AlertsType

(* What the driver sees while the session runs keeps to the limits that    *)
(* are given with the tax, as what he pays in the end does.                *)
RunningIsBounded ==
  running # None =>
    /\ plan # None /\ running \in Nat
    /\ plan.max.incl # None => running <= plan.max.incl
    /\ plan.min.incl # None => running >= plan.min.incl

(* What the session shows besides its calculations.                        *)
Shown ==
  /\ RunningIsBounded
  /\ energy \in Nat
  /\ alerted \subseteq AlertSet
  /\ ended.at \in Nat /\ ended.kind \in {NoInfo, "NORMAL", "ESTIMATED"}
  /\ error \in {None, "NO_TARIFF", "ENGINE"}
  /\ phase # "SETTLED" => charged = None

LEMMA ShownNext ==
  ASSUME \A p \in Plans : LimitsAgree(p) /\ NeverNegative(p), PInv, PInv', Shown, [Next]_vars
  PROVE  Shown'
<1> USE DEF inputVars, costVars, resultVars
<1>1. CASE Tick \/ IdleEnds \/ (\E s \in {"Charging", "SuspendedEV", "SuspendedEVSE"} : Status(s)) \/ UNCHANGED vars
  <2>1. UNCHANGED <<plan, phase, ended, costVars, charged, error>>
    BY <1>1 DEF Tick, IdleEnds, EndIdle, Status, vars
  <2> QED BY <2>1 DEF Shown, RunningIsBounded
<1>2. CASE Reading
  <2>1. PICK ts \in Timestamps, wh \in 0 .. MaxWh : RecordMeterValues(ts, wh)
    BY <1>2 DEF Reading
  <2>2. /\ UNCHANGED <<plan, phase, ended, charged, error, clock>>
        /\ events' = Known(ts, wh) /\ energy' = Larger(0, wh - MeterStart)
        /\ OnSample(ts, wh)
    BY <2>1 DEF RecordMeterValues, UpdateSessionSample, Known
  <2>3. energy' \in Nat
    BY <2>2 DEF Larger, MeterStart
  <2>4. RunningIsBounded' /\ alerted' \subseteq AlertSet
    <3> DEFINE cost == IF plan = None THEN Failed ELSE Compute(plan, Known(ts, wh), "RUNNING", clock)
    <3>1. IF cost.ok THEN running' = cost.total /\ alerted' = alerted \cup cost.alerts
          ELSE UNCHANGED <<running, alerted>>
      BY <2>2, Zenon DEF OnSample
    <3>2. CASE ~ cost.ok
      <4> HIDE DEF cost
      <4> QED BY <2>2, <3>1, <3>2 DEF Shown, RunningIsBounded
    <3>3. CASE cost.ok
      <4>1. plan # None
        BY <3>3 DEF Failed
      <4>2. plan \in Plans /\ cost = Compute(plan, Known(ts, wh), "RUNNING", clock)
        BY <4>1 DEF PInv, Types
      <4>3. /\ WellFormed(Known(ts, wh), clock) /\ clock \in Nat
            /\ OfKind(Known(ts, wh), "TX_STOP") = {} \/ StoppedOnce(Known(ts, wh))
        BY <2>2 DEF PInv, Types, Recorded
      <4> HIDE DEF cost
      <4>4. WithinLimits(plan, cost.subtotal, cost.total) /\ cost.total \in Nat /\ cost.alerts \subseteq AlertSet
        BY <3>3, <4>2, <4>3, RunningIsCost
      <4> QED BY <2>2, <3>1, <3>3, <4>1, <4>4 DEF Shown, RunningIsBounded, WithinLimits
    <3> QED BY <3>2, <3>3
  <2> QED BY <2>2, <2>3, <2>4 DEF Shown
<1>3. CASE Stop \/ CloseEstimated
  <2>1. PICK ts \in Start .. clock, wh \in Nat, reason \in Reasons \cup {"Other"}, kind \in {"NORMAL", "ESTIMATED"} :
          ts \in Nat /\ Ends(ts, wh, reason, kind)
    BY <1>3, ItEnds
  <2>2. /\ UNCHANGED <<plan, running, alerted, charged, error>> /\ phase = "RUNNING"
        /\ ended' = [at |-> ts, reason |-> reason, kind |-> kind]
        /\ energy' = Larger(0, wh - MeterStart)
    BY <2>1 DEF Ends
  <2>3. ended'.at = ts /\ ended'.kind = kind /\ energy' \in Nat
    BY <2>2 DEF Larger, MeterStart
  <2> QED BY <2>1, <2>2, <2>3 DEF Shown, RunningIsBounded
<1>4. ASSUME NEW force \in BOOLEAN, Settle(force) PROVE Shown'
  <2>1. UNCHANGED <<ended, running, energy, alerted>> /\ phase = "ENDED"
    BY <1>4 DEF Settle
  <2>2. plan # None => plan' = plan
    BY <1>4 DEF Settle
  <2>3. (\E p, known : Price(p, known)) \/ UNCHANGED <<phase, charged, error>>
    BY <1>4 DEF Settle
  <2>4. error' \in {error, None, "ENGINE"} /\ (phase' # "SETTLED" => charged' = charged)
    BY <2>1, <2>3 DEF Price
  <2> QED BY <2>1, <2>2, <2>4 DEF Shown, RunningIsBounded
<1>5. CASE NoTariff
  <2>1. UNCHANGED <<plan, phase, ended, running, energy, alerted, charged>> /\ error' = "NO_TARIFF"
    BY <1>5 DEF NoTariff
  <2> QED BY <2>1 DEF Shown, RunningIsBounded
<1>6. CASE Recalculate
  <2>1. UNCHANGED <<plan, phase, ended, running, energy, alerted, error>> /\ phase = "SETTLED"
    BY <1>6 DEF Recalculate
  <2> QED BY <2>1 DEF Shown, RunningIsBounded
<1> QED BY <1>1, <1>2, <1>3, <1>4, <1>5, <1>6 DEF Next

LEMMA ShownInvariant ==
  ASSUME \A p \in Plans : LimitsAgree(p) /\ NeverNegative(p) PROVE Spec => []Shown
<1>1. Init => Shown
  BY DEF Init, Shown, RunningIsBounded
<1>2. PInv /\ PInv' /\ Shown /\ [Next]_vars => Shown'
  BY ShownNext
<1> QED BY <1>1, <1>2, PInvInvariant, PTL DEF Spec

(* The driver is never shown more than the ceiling or less than the floor, *)
(* nor a debt of ours, while his session runs, whatever readings come in   *)
(* whatever order (onSample).                                              *)
THEOREM TheRunningCostIsBounded ==
  ASSUME \A p \in Plans : LimitsAgree(p) /\ NeverNegative(p)
  PROVE  Spec => []RunningIsBounded
<1>1. Shown => RunningIsBounded
  BY DEF Shown
<1> QED BY <1>1, ShownInvariant, PTL

(* Every reachable state of a session and its cost is well typed: no       *)
(* amount shown or charged is negative.                                    *)
THEOREM PricingTypes ==
  ASSUME \A p \in Plans : LimitsAgree(p) /\ NeverNegative(p)
  PROVE  Spec => []TypeOK
<1>1. ASSUME PInv, Shown, FinalIsCurrent PROVE TypeOK
  <2> USE <1>1
  <2>1. ASSUME NEW c \in ToSet(calcs) PROVE c.input \subseteq EventSet /\ c.result.total \in Nat
    <3>1. PICK tx, stop : IsCalc(c, tx, stop)
      BY CalcIsCost
    <3>2. /\ TxOK(tx) /\ tx.plan = plan /\ plan \in Plans /\ tx.events = c.input /\ c.result = CostOf(tx) /\ CostOf(tx).ok
          /\ Intervals(Charging(tx)) /\ Intervals(Billable(tx, Observed(tx)))
      BY <3>1 DEF IsCalc, IsFinal
    <3>3. LimitsAgree(tx.plan) /\ NeverNegative(tx.plan) /\ tx.events \subseteq EventSet
      BY <3>2 DEF TxOK
    <3> QED BY <3>2, <3>3, CostIsBounded
  <2>2. charged \in Nat \cup {None} /\ final \in 0 .. Len(calcs)
    <3>1. CASE phase # "SETTLED"
      BY <3>1 DEF PInv, Types, Computed, Shown
    <3>2. CASE phase = "SETTLED"
      <4>1. calcs \in Seq(CalcSet)
        BY DEF PInv, Types
      <4>2. Len(calcs) \in Nat /\ final = Len(calcs) /\ final > 0 /\ charged = calcs[final].result.total
        BY <3>2, <4>1 DEF FinalIsCurrent
      <4>3. final \in DOMAIN calcs
        BY <4>1, <4>2
      <4>4. calcs[final] \in ToSet(calcs)
        BY <4>3 DEF ToSet
      <4> QED BY <2>1, <4>2, <4>4
    <3> QED BY <3>1, <3>2
  <2>3. clock \in Nat /\ plan \in Plans \cup {None} /\ phase \in {"RUNNING", "ENDED", "SETTLED"}
        /\ idleEnd \in Nat \cup {None} /\ events \subseteq EventSet
    BY DEF PInv, Types, Recorded, WellFormed
  <2>4. /\ ended.at \in Nat /\ ended.kind \in {NoInfo, "NORMAL", "ESTIMATED"}
        /\ energy \in Nat /\ running \in Nat \cup {None}
        /\ alerted \subseteq {"PREAUTH_WARN", "PREAUTH_EXHAUSTED"}
        /\ error \in {None, "NO_TARIFF", "ENGINE"}
    BY DEF Shown, RunningIsBounded, AlertSet
  <2> QED BY <2>1, <2>2, <2>3, <2>4 DEF TypeOK
<1> QED BY <1>1, ShownInvariant, PInvInvariant, TheLastCostIsInForce, PTL
=============================================================================
