------------------------------ MODULE MCPricing ------------------------------
(***************************************************************************)
(* Instances of the pricing for TLC: tariffs small enough to count.        *)
(***************************************************************************)
EXTENDS PricingService, TLC

Always == [from |-> 0, to |-> 0, minWh |-> 0, maxWh |-> Unbounded, minTime |-> 0, maxTime |-> Unbounded]

Element(dim, price, restr) ==
  [dim |-> dim, price |-> price, step |-> 1, vat |-> 20, restr |-> restr]

NoLimit == [incl |-> None, excl |-> None]
NoIdle == [start |-> "EARLIEST", grace |-> 0, max |-> Unbounded]

Base ==
  [elements |-> <<Element("ENERGY", 10, Always)>>, idle |-> NoIdle, max |-> NoLimit, min |-> NoLimit,
   included |-> FALSE, perGroup |-> FALSE, rounding |-> "HALF_UP", adjustments |-> <<>>,
   exposure |-> None, warnPct |-> 80]

(* Two tiers, the first in steps and dear in a window, with a session fee, *)
(* a discount, a ceiling, a floor and a limit of exposure; idle time after *)
(* the stop only, with a grace.                                            *)
Tiers ==
  [Base EXCEPT !.elements = <<Element("ENERGY", 14, [Always EXCEPT !.from = 2, !.to = 3, !.maxWh = 1]),
                              [Element("ENERGY", 7, [Always EXCEPT !.maxWh = 1]) EXCEPT !.step = 2],
                              [Element("ENERGY", 4, Always) EXCEPT !.vat = 5],
                              Element("FLAT", 3, Always),
                              Element("PARKING_TIME", 5, [Always EXCEPT !.from = 3, !.to = 1])>>,
               !.idle = [start |-> "TRANSACTION_END", grace |-> 1, max |-> Unbounded],
               !.adjustments = <<[type |-> "PERCENT", dim |-> "ENERGY", value |-> -15]>>,
               !.max = [incl |-> 20, excl |-> 17], !.min = [incl |-> 6, excl |-> 5],
               !.exposure = 18]

(* No price for a second Wh at night, charging time with an age, idle    *)
(* time from the end of the charge with a maximum, a voucher, and a net    *)
(* ceiling; the tax is in the price.                                       *)
Parking ==
  [Base EXCEPT !.elements = <<Element("ENERGY", 6, [Always EXCEPT !.maxWh = 1]),
                              Element("ENERGY", 6, [Always EXCEPT !.from = 1, !.to = 2]),
                              Element("TIME", 4, [Always EXCEPT !.maxTime = 2]), Element("TIME", 1, Always),
                              Element("PARKING_TIME", 5, Always)>>,
               !.idle = [start |-> "EARLIEST", grace |-> 0, max |-> 2],
               !.adjustments = <<[type |-> "AMOUNT", dim |-> "ALL", value |-> -6]>>,
               !.included = TRUE, !.perGroup = TRUE, !.max = [incl |-> None, excl |-> 9]]

BothPlans == {Tiers, Parking}
TiersOrNone == {Tiers, None}
==============================================================================
