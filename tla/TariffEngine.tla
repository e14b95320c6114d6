---------------------------- MODULE TariffEngine ----------------------------
(***************************************************************************)
(* The tariff engine (packages/tariff-engine): the cost of a session as a  *)
(* function of its tariff and its events.                                  *)
(*                                                                         *)
(* Instants are ticks, energy is in Wh, money in minor units.  A day has   *)
(* Day ticks; an hour of TIME or PARKING_TIME has Hour ticks.  An element  *)
(* has one component and a restriction with every bound present: Unbounded *)
(* stands for a bound that is absent.  Days of the week, dates, power and  *)
(* labels are left out.                                                    *)
(***************************************************************************)
EXTENDS Integers, Sequences, FiniteSetsExt, SequencesExt

CONSTANTS Day, Hour, KWh, Unbounded, None

ASSUME EngineAssumption == {Day, Hour, KWh} \subseteq Nat \ {0}

(* A tariff as it is validated, with the adjustments, the policy and the   *)
(* limit of exposure of the snapshot.  A ceiling or a floor is net, and    *)
(* may be given with tax too.                                              *)
RestrictionSet == [from : Nat, to : Nat, minWh : Nat, maxWh : Nat, minTime : Nat, maxTime : Nat]

ElementSet ==
  [dim : {"FLAT", "ENERGY", "TIME", "PARKING_TIME"}, price : Nat, step : Nat \ {0}, vat : Nat,
   restr : RestrictionSet]

LimitSet ==
  {[incl |-> None, excl |-> None]} \cup
  {l \in [incl : Nat \cup {None}, excl : Nat] : l.incl # None => l.excl <= l.incl}

AdjustmentSet ==
  [type : {"PERCENT", "AMOUNT"}, dim : {"ALL", "FLAT", "ENERGY", "TIME", "PARKING_TIME"}, value : Int]

PlanSet ==
  [elements : Seq(ElementSet),
   idle : [start : {"EARLIEST", "TRANSACTION_END", "SUSPENDED_EV"}, grace : Nat, max : Nat],
   max : LimitSet, min : LimitSet, included : BOOLEAN, perGroup : BOOLEAN,
   rounding : {"HALF_UP", "HALF_EVEN", "DOWN", "UP"}, adjustments : Seq(AdjustmentSet),
   exposure : Nat \cup {None}, warnPct : Nat]

-----------------------------------------------------------------------------
Absolute(n) == IF n < 0 THEN -n ELSE n
Larger(a, b) == IF a < b THEN b ELSE a
Smaller(a, b) == IF a < b THEN a ELSE b

(* The pairs of neighbours of a set of numbers.                            *)
Consecutive(C) == {p \in C \X C : p[1] < p[2] /\ \A c \in C : c <= p[1] \/ p[2] <= c}

-----------------------------------------------------------------------------
(* divideRounded: the mode decides about the magnitude.                    *)
RoundsUp(mode, q, r, d) ==
  \/ mode = "UP" /\ r > 0
  \/ mode = "HALF_UP" /\ 2 * r >= d
  \/ mode = "HALF_EVEN" /\ (2 * r > d \/ (2 * r = d /\ q % 2 = 1))

DivideRounded(n, d, mode) ==
  LET q == Absolute(n) \div d
      r == Absolute(n) % d
      size == IF RoundsUp(mode, q, r, d) THEN q + 1 ELSE q
  IN IF n < 0 THEN -size ELSE size

CeilToStep(raw, step) == IF raw <= 0 THEN 0 ELSE ((raw + step - 1) \div step) * step

(* A window whose end is not after its start goes over midnight; one that  *)
(* ends where it starts is the whole day.                                  *)
WindowMatches(r, second) ==
  \/ r.from = r.to
  \/ r.from < r.to /\ r.from <= second /\ second < r.to
  \/ r.to < r.from /\ (r.from <= second \/ second < r.to)

Matches(r, start, t, cum) ==
  /\ WindowMatches(r, t % Day)
  /\ r.minWh <= cum /\ cum < r.maxWh
  /\ r.minTime <= t - start /\ t - start < r.maxTime

ElementsOf(plan, dim) == {i \in DOMAIN plan.elements : plan.elements[i].dim = dim}

(* The first element of the dimension that matches, or 0.                  *)
FirstMatch(plan, dim, start, t, cum) ==
  LET fit == {i \in ElementsOf(plan, dim) : Matches(plan.elements[i].restr, start, t, cum)}
  IN IF fit = {} THEN 0 ELSE Min(fit)

-----------------------------------------------------------------------------
(* What the run makes of the events: the instants of the transaction.  A   *)
(* running cost ignores what is after its horizon.                         *)
OfKind(events, kind) == {e \in events : e.kind = kind}
TheOne(S) == CHOOSE e \in S : TRUE

(* What an event says that has neither a state nor a reason.               *)
NoInfo == ""

Timeline(plan, all, mode, now) ==
  LET events == IF mode = "RUNNING" THEN {e \in all : e.ts <= now} ELSE all
      start == TheOne(OfKind(events, "TX_START"))
      stops == {e \in OfKind(events, "TX_STOP") : e.ts >= start.ts}
      horizon == IF mode = "RUNNING" THEN now ELSE Max({e.ts : e \in events})
  IN [plan |-> plan, events |-> events, mode |-> mode, horizon |-> horizon,
      start |-> start.ts, meterStart |-> start.wh,
      stopped |-> stops # {},
      end |-> IF stops = {} THEN horizon ELSE TheOne(stops).ts,
      meterStop |-> IF stops = {} THEN 0 ELSE TheOne(stops).wh,
      reason |-> IF stops = {} THEN NoInfo ELSE TheOne(stops).info]

(* buildSamples: one reading for an instant, the earlier kind first.       *)
MetersAt(tx, t) == {e \in OfKind(tx.events, "METER") : e.ts = t}

Readings(tx) ==
  {tx.start} \cup {e.ts : e \in {m \in OfKind(tx.events, "METER") : tx.start <= m.ts /\ m.ts <= tx.end}}
             \cup (IF tx.stopped THEN {tx.end} ELSE {})

Register(tx, t) ==
  IF t = tx.start THEN tx.meterStart
  ELSE IF MetersAt(tx, t) # {} THEN TheOne(MetersAt(tx, t)).wh ELSE tx.meterStop

(* A register that goes back counts as nothing.                            *)
Counted(tx, t) ==
  LET past == {p \in Consecutive(Readings(tx)) : p[2] <= t}
  IN SumFunction([p \in past |-> Larger(0, Register(tx, p[2]) - Register(tx, p[1]))])

(* The stop is authoritative: the last segment takes what is missing, and  *)
(* the ones from the last on give back what is too much.  A stop below the *)
(* start counts for nothing.                                               *)
Reconciled(tx, t) ==
  LET due == tx.meterStop - tx.meterStart IN
  IF ~tx.stopped \/ due < 0 THEN Counted(tx, t)
  ELSE IF t = tx.end /\ tx.start < tx.end THEN due
  ELSE Smaller(Counted(tx, t), due)

(* The segments, as the energy from the start to each reading.             *)
Segments(tx) == [t \in Readings(tx) |-> Reconciled(tx, t)]

(* Linear between two readings, in whole Wh.                               *)
EnergyAt(segments, t) ==
  LET a == Max({r \in DOMAIN segments : r <= t})
      later == {r \in DOMAIN segments : t < r}
      b == Min(later)
  IN IF later = {} THEN segments[a]
     ELSE segments[a] + DivideRounded((segments[b] - segments[a]) * (t - a), b - a, "HALF_UP")

(* Where the active element of a dimension may change: midnight, the       *)
(* windows and the durations of its elements.                              *)
Boundaries(tx, dim, a, b) ==
  LET restr == {tx.plan.elements[i].restr : i \in ElementsOf(tx.plan, dim)}
      hours == {0} \cup {r.from % Day : r \in restr} \cup {r.to % Day : r \in restr}
      ages == {r.minTime : r \in restr} \cup {r.maxTime : r \in restr}
  IN {t \in a + 1 .. b - 1 : t % Day \in hours \/ t - tx.start \in ages}

Pieces(tx, dim, a, b) == Consecutive({a, b} \cup Boundaries(tx, dim, a, b))

-----------------------------------------------------------------------------
(* energyLines: the energy between two cuts is split again where the       *)
(* accumulated energy passes a threshold.                                  *)
Thresholds(plan) ==
  UNION {{plan.elements[i].restr.minWh, plan.elements[i].restr.maxWh} : i \in ElementsOf(plan, "ENERGY")}

(* Mutant: no split at a threshold.                                        *)
SplitNot(plan, a, b, from, to) == IF to > from THEN {[at |-> a, cum |-> from, wh |-> to - from]} ELSE {}

Split(plan, a, b, from, to) ==
  LET cuts == {from, to} \cup {w \in Thresholds(plan) : from < w /\ w < to}
      at[w \in cuts] ==
        IF w = from THEN a
        ELSE LET v == Max({u \in cuts : u < w}) IN at[v] + ((b - at[v]) * (w - v)) \div (to - v)
  IN {[at |-> at[q[1]], cum |-> q[1], wh |-> q[2] - q[1]] : q \in Consecutive(cuts)}

(* A piece lies between two readings, and after the last there is nothing. *)
EnergyPieces(tx, segments) ==
  Consecutive(DOMAIN segments \cup Boundaries(tx, "ENERGY", tx.start, tx.end))

EnergyParts(tx, segments) ==
  UNION {Split(tx.plan, p[1], p[2], EnergyAt(segments, p[1]), EnergyAt(segments, p[2])) :
           p \in EnergyPieces(tx, segments)}

(* timeDimensionLines: the element is the one that matches at the start of *)
(* the piece.                                                              *)
TimeParts(tx, segments, dim, intervals) ==
  UNION {{[at |-> p[1], cum |-> EnergyAt(segments, p[1]), wh |-> p[2] - p[1]] :
            p \in Pieces(tx, dim, v[1], v[2])} : v \in intervals}

ElementAt(tx, dim, part) == FirstMatch(tx.plan, dim, tx.start, part.at, part.cum)

Unmatched(tx, dim, parts) == \E p \in parts : ElementAt(tx, dim, p) = 0

(* One line for each element: its quantity in steps, at its price.         *)
LinesOf(tx, dim, parts, per) ==
  LET mine(i) == {p \in parts : ElementAt(tx, dim, p) = i}
      raw(i) == SumFunction([p \in mine(i) |-> p.wh])
      line(i) ==
        LET e == tx.plan.elements[i] IN
        [dim |-> dim, of |-> <<>>, el |-> i, raw |-> raw(i), rate |-> e.vat,
         first |-> Min({p.at : p \in mine(i)}),
         gross |-> DivideRounded(CeilToStep(raw(i), e.step) * e.price, per, tx.plan.rounding)]
  IN {line(i) : i \in {ElementAt(tx, dim, p) : p \in parts} \ {0}}

FlatLines(tx) ==
  LET i == FirstMatch(tx.plan, "FLAT", tx.start, tx.start, 0) IN
  IF i = 0 THEN {}
  ELSE {[dim |-> "FLAT", of |-> <<>>, el |-> i, raw |-> 1, rate |-> tx.plan.elements[i].vat,
         first |-> tx.start, gross |-> tx.plan.elements[i].price]}

-----------------------------------------------------------------------------
(* The status in force at an instant of the transaction; it charges from   *)
(* the start.                                                              *)
StatusAt(tx, t) ==
  LET past == {e \in OfKind(tx.events, "STATUS") : tx.start < e.ts /\ e.ts <= t /\ e.ts < tx.end}
  IN IF past = {} THEN "Charging" ELSE (CHOOSE e \in past : \A f \in past : f.ts <= e.ts).info

(* The maximal intervals of a set of ticks.                                *)
Runs(S) ==
  {<<p[1], p[2] + 1>> : p \in {q \in S \X S :
     q[1] <= q[2] /\ q[1] - 1 \notin S /\ q[2] + 1 \notin S /\ \A t \in q[1] .. q[2] : t \in S}}

Charging(tx) == Runs({t \in tx.start .. tx.end - 1 : StatusAt(tx, t) = "Charging"})

Suspended(tx) == {t \in tx.start .. tx.end - 1 : StatusAt(tx, t) = "SuspendedEV"}

NoIdleReasons == {"PowerLoss", "Reboot", "HardReset"}

(* When the vehicle left, or how far it is known not to have left.         *)
IdleUntil(tx) ==
  LET ends == {e.ts : e \in {i \in OfKind(tx.events, "IDLE_END") : i.ts >= tx.end}} IN
  IF tx.reason = "EVDisconnected" THEN tx.end
  ELSE IF ends # {} THEN Min(ends)
  ELSE IF tx.mode = "RUNNING" THEN tx.horizon
  ELSE Max({e.ts : e \in tx.events})

Observed(tx) ==
  LET before == IF tx.plan.idle.start = "TRANSACTION_END" THEN {} ELSE Suspended(tx)
      after == IF ~tx.stopped \/ tx.plan.idle.start = "SUSPENDED_EV" THEN {}
               ELSE tx.end .. IdleUntil(tx) - 1
  IN IF tx.reason \in NoIdleReasons THEN {} ELSE Runs(before \cup after)

(* Mutant: idle time is billed from its first instant.                     *)
BillableAtOnce(tx, observed) ==
  LET idle == UNION {v[1] .. v[2] - 1 : v \in observed}
  IN IF ElementsOf(tx.plan, "PARKING_TIME") = {} THEN {}
     ELSE Runs({t \in idle : Cardinality({u \in idle : u < t}) < tx.plan.idle.max})

(* The grace is given to every interval, the maximum to their sum.         *)
Billable(tx, observed) ==
  LET idle == UNION {v[1] + tx.plan.idle.grace .. v[2] - 1 : v \in observed}
  IN IF ElementsOf(tx.plan, "PARKING_TIME") = {} THEN {}
     ELSE Runs({t \in idle : Cardinality({u \in idle : u < t}) < tx.plan.idle.max})

-----------------------------------------------------------------------------
GrossOf(lines) == SumFunction([l \in lines |-> l.gross])

Dimension == <<"FLAT", "ENERGY", "TIME", "PARKING_TIME">>

Precedes(l, m) ==
  LET rank(x) == CHOOSE k \in DOMAIN Dimension : Dimension[k] = x.dim IN
  \/ rank(l) < rank(m)
  \/ rank(l) = rank(m) /\ (l.first < m.first \/ (l.first = m.first /\ l.el < m.el))

(* adjustmentFor: a discount takes no more than what it applies to, as far *)
(* as its own kind of discount has not taken it.                           *)
Capped(base, already, amount) ==
  IF base + already + amount < 0 THEN -(base + already) ELSE amount

AdjustmentFor(plan, n, base, previous) ==
  LET adj == plan.adjustments[n]
      targets == {l \in base : adj.dim \in {"ALL", l.dim}}
      ofRate(r) == {l \in targets : l.rate = r}
      sameKind(r) == {l \in previous : l.rate = r /\ (adj.dim = "ALL" \/ l.of = <<"PERCENT", adj.dim>>)}
      percent(r) == Capped(GrossOf(ofRate(r)), GrossOf(sameKind(r)),
                           DivideRounded(GrossOf(ofRate(r)) * adj.value, 100, plan.rounding))
      amount == Capped(GrossOf(targets), GrossOf(previous), adj.value)
      line(r, gross) == [dim |-> "ADJUSTMENT", of |-> <<adj.type, adj.dim>>, el |-> n, raw |-> 0,
                         rate |-> r, first |-> 0, gross |-> gross]
      lines == IF adj.type = "PERCENT" THEN {line(l.rate, percent(l.rate)) : l \in targets}
               ELSE {line(l.rate, amount) : l \in {f \in targets : \A m \in targets \ {f} : Precedes(f, m)}}
  IN {l \in lines : l.gross # 0}

AdjustmentLines(plan, base) ==
  LET done[n \in 0 .. Len(plan.adjustments)] ==
        IF n = 0 THEN {} ELSE done[n - 1] \cup AdjustmentFor(plan, n, base, done[n - 1])
  IN done[Len(plan.adjustments)]

TaxOf(plan, gross, rate) ==
  DivideRounded(gross * rate, IF plan.included THEN 100 + rate ELSE 100, plan.rounding)

(* applyTaxes: of each line, or of the lines of a rate together.           *)
TaxOfLines(plan, lines) ==
  IF plan.perGroup
    THEN SumFunction([r \in {l.rate : l \in lines} |-> TaxOf(plan, GrossOf({l \in lines : l.rate = r}), r)])
    ELSE SumFunction([l \in lines |-> TaxOf(plan, l.gross, l.rate)])

Exceeds(limit, subtotal, tax) ==
  IF limit.incl # None THEN subtotal + tax > limit.incl ELSE limit.excl # None /\ subtotal > limit.excl

FallsShort(limit, subtotal, tax) ==
  IF limit.incl # None THEN subtotal + tax < limit.incl ELSE limit.excl # None /\ subtotal < limit.excl

(* capLine: the amounts are brought to the limit, the tax in proportion.   *)
BroughtTo(plan, limit, subtotal, tax) ==
  LET share(over, of) == IF of > 0 THEN DivideRounded(over * tax, of, plan.rounding) ELSE 0
      total == subtotal + tax
      newTax == IF limit.incl = None THEN tax - share(subtotal - limit.excl, subtotal)
                ELSE IF limit.excl # None /\ limit.excl <= limit.incl THEN limit.incl - limit.excl
                ELSE tax - share(total - limit.incl, total)
      newSubtotal == IF limit.incl = None THEN limit.excl ELSE limit.incl - newTax
  IN <<newSubtotal, newTax>>

(* Mutant: the ceiling is compared without the tax.                        *)
LimitedNet(plan, subtotal, tax) ==
  IF Exceeds(plan.max, subtotal, 0) THEN BroughtTo(plan, plan.max, subtotal, tax) ELSE <<subtotal, tax>>

Limited(plan, subtotal, tax) ==
  IF Exceeds(plan.max, subtotal, tax) THEN BroughtTo(plan, plan.max, subtotal, tax)
  ELSE IF FallsShort(plan.min, subtotal, tax) THEN BroughtTo(plan, plan.min, subtotal, tax)
  ELSE <<subtotal, tax>>

(* Two more intervals at the power of the last one.                        *)
ProjectedIncrement(tx, segments) ==
  LET last == {p \in Consecutive(DOMAIN segments) : p[2] = Max(DOMAIN segments)}
      wh == 2 * (segments[TheOne(last)[2]] - segments[TheOne(last)[1]])
      fit == FirstMatch(tx.plan, "ENERGY", tx.start, tx.horizon, EnergyAt(segments, tx.horizon))
      i == IF fit = 0 THEN Max(ElementsOf(tx.plan, "ENERGY")) ELSE fit
      e == tx.plan.elements[i]
      gross == DivideRounded(wh * e.price, KWh, tx.plan.rounding)
  IN IF last = {} \/ wh = 0 \/ ElementsOf(tx.plan, "ENERGY") = {} THEN 0
     ELSE IF tx.plan.included THEN gross ELSE gross + TaxOf(tx.plan, gross, e.vat)

Alerts(tx, segments, total) ==
  LET limit == tx.plan.exposure
      more == IF tx.mode = "RUNNING" /\ ~tx.stopped THEN ProjectedIncrement(tx, segments) ELSE 0
  IN IF limit \in {None, 0} THEN {}
     ELSE {a \in {"PREAUTH_WARN", "PREAUTH_EXHAUSTED"} :
             \/ a = "PREAUTH_WARN" /\ total >= (limit * tx.plan.warnPct) \div 100
             \/ a = "PREAUTH_EXHAUSTED" /\ total + more >= limit}

-----------------------------------------------------------------------------
Failed == [ok |-> FALSE]

(* What is metered of each dimension, in pieces with one element.          *)
Quantities(tx, segments, charging, billable) ==
  [ENERGY |-> EnergyParts(tx, segments),
   TIME |-> IF ElementsOf(tx.plan, "TIME") = {} THEN {} ELSE TimeParts(tx, segments, "TIME", charging),
   PARKING_TIME |-> TimeParts(tx, segments, "PARKING_TIME", billable)]

BaseLines(tx, quantity) ==
  FlatLines(tx) \cup LinesOf(tx, "ENERGY", quantity.ENERGY, KWh)
    \cup UNION {LinesOf(tx, dim, quantity[dim], Hour) : dim \in {"TIME", "PARKING_TIME"}}

Adjusted(plan, base) == base \cup AdjustmentLines(plan, base)

(* The tax that the price includes is not part of the subtotal.            *)
Amounts(plan, gross, tax) == Limited(plan, IF plan.included THEN gross - tax ELSE gross, tax)

AmountsOf(plan, lines) == Amounts(plan, GrossOf(lines), TaxOfLines(plan, lines))

Cost(tx, segments, times, lines, amounts) ==
  [ok |-> TRUE, subtotal |-> amounts[1], tax |-> amounts[2], total |-> amounts[1] + amounts[2],
   energy |-> EnergyAt(segments, tx.end), lines |-> lines,
   charging |-> times.charging, observed |-> times.observed, billable |-> times.billable,
   alerts |-> Alerts(tx, segments, amounts[1] + amounts[2])]

CostOfLines(tx, segments, times, lines) == Cost(tx, segments, times, lines, AmountsOf(tx.plan, lines))

(* An instant that no element covers is an error, except of the idle time. *)
CostOfQuantities(tx, segments, times, quantity) ==
  IF \E dim \in {"ENERGY", "TIME"} : Unmatched(tx, dim, quantity[dim]) THEN Failed
  ELSE CostOfLines(tx, segments, times, Adjusted(tx.plan, BaseLines(tx, quantity)))

CostOfTimes(tx, segments, times) ==
  CostOfQuantities(tx, segments, times, Quantities(tx, segments, times.charging, times.billable))

TimesOf(tx, observed) ==
  [charging |-> Charging(tx), observed |-> observed, billable |-> Billable(tx, observed)]

CostOf(tx) == CostOfTimes(tx, Segments(tx), TimesOf(tx, Observed(tx)))

Compute(plan, all, mode, now) == CostOf(Timeline(plan, all, mode, now))
=============================================================================
