--------------------------- MODULE TariffResolution ---------------------------
(***************************************************************************)
(* Which version of which tariff a charge is priced by: the assignments    *)
(* (pricing/assignments.ts), the quote a driver is shown and the snapshot  *)
(* his session freezes (pricing/snapshot.ts).  Of the EVSE of the model;   *)
(* Rank orders the scopes that contain it, the most specific first.        *)
(***************************************************************************)
EXTENDS TariffCatalog, Integers

CONSTANTS
  Assignment,     \* assignments that contain the EVSE
  BaseAssignment, \* those that ensureBaseTariff made
  Assigned,       \* [Assignment -> tariff, segment, rank and priority]
  Session,
  Segment,        \* the segments somebody starts in
  QuoteValidity   \* pricing.quote_validity_min

ASSUME ResolutionAssumption ==
  /\ BaseAssignment \subseteq Assignment
  /\ Assigned \in [Assignment -> [tariff : Tariff, segment : Segment, rank : Nat, priority : Nat]]
  /\ "PUBLIC" \in Segment
  /\ QuoteValidity \in Nat

VARIABLES
  assignment,  \* [Assignment -> its validity and when it was created]
  quote,       \* [Session -> the quote its driver was shown]
  start        \* [Session -> the request to start: its step, time and price]

resolutionVars == <<assignment, quote, start>>

NoPrice == [version |-> None, segment |-> "PUBLIC"]

ResolutionInit ==
  /\ assignment = [a \in Assignment |->
                     [from |-> IF a \in BaseAssignment THEN 0 ELSE Never, to |-> Never, created |-> 0]]
  /\ quote = [s \in Session |-> [price |-> NoPrice, until |-> 0]]
  /\ start = [s \in Session |-> [at |-> "idle", time |-> 0, segment |-> "PUBLIC", price |-> NoPrice]]

(* createAssignment and endAssignment; the CHECK refuses to end one that   *)
(* has not begun.                                                          *)
CreateAssignment(a, from, to) ==
  /\ assignment[a].from = Never /\ from < to
  /\ assignment' = [assignment EXCEPT ![a] = [from |-> from, to |-> to, created |-> clock]]
  /\ UNCHANGED <<quote, start>>

EndAssignment(a) ==
  /\ assignment[a].from < clock /\ clock < assignment[a].to
  /\ assignment' = [assignment EXCEPT ![a].to = clock]
  /\ UNCHANGED <<quote, start>>

-----------------------------------------------------------------------------
Candidates(segment, t) ==
  {a \in Assignment :
     /\ Covers(assignment[a], t)
     /\ Assigned[a].segment = segment \/ (Assigned[a].segment = "PUBLIC" /\ segment # "INTERNAL")}

Keys(a, segment) ==
  <<IF Assigned[a].segment = segment THEN 0 ELSE 1, Assigned[a].rank,
    -Assigned[a].priority, -assignment[a].created>>

Before(k, l) == \E i \in DOMAIN k : k[i] < l[i] /\ \A j \in 1 .. i - 1 : k[j] = l[j]

(* resolveTariff: the first candidate, in the order of the keys, whose     *)
(* tariff has a version in force.                                          *)
Resolutions(segment, t) ==
  LET priced == {a \in Candidates(segment, t) : InForce(Assigned[a].tariff, t) # {}}
      first == {a \in priced : \A b \in priced : ~Before(Keys(b, segment), Keys(a, segment))}
  IN UNION {{[version |-> v, segment |-> Assigned[a].segment] : v \in InForce(Assigned[a].tariff, t)} : a \in first}

(* quoteEvse, always as PUBLIC in the app.                                 *)
Quote(s) ==
  /\ start[s].at = "idle"
  /\ \E price \in Resolutions("PUBLIC", clock) :
       quote' = [quote EXCEPT ![s] = [price |-> price, until |-> clock + QuoteValidity]]
  /\ UNCHANGED <<assignment, start>>

(* requestStart reads the time, and then asks the payment port.            *)
RequestStart(s, segment) ==
  /\ start[s].at = "idle"
  /\ start' = [start EXCEPT ![s] = [at |-> "authorizing", time |-> clock, segment |-> segment, price |-> NoPrice]]
  /\ UNCHANGED <<assignment, quote>>

(* Mutant: a quote does not expire.                                        *)
QuoteIsValidAlways(s) == quote[s].price # NoPrice /\ quote[s].price.segment = start[s].segment

QuoteIsValid(s) ==
  /\ quote[s].price # NoPrice /\ quote[s].price.segment = start[s].segment
  /\ start[s].time <= quote[s].until

Freezes(s, price) ==
  /\ start' = [start EXCEPT ![s].at = "frozen", ![s].price = price]
  /\ UNCHANGED <<assignment, quote>>

Resolved(s) == Resolutions(start[s].segment, start[s].time)

(* freezeSessionSnapshot: the quote if it is still valid, or what is in    *)
(* force at the time of the request; nothing is free but what is internal. *)
FreezeQuote(s) ==
  /\ start[s].at = "authorizing" /\ QuoteIsValid(s)
  /\ Freezes(s, quote[s].price)

FreezeResolved(s) ==
  /\ start[s].at = "authorizing" /\ ~QuoteIsValid(s)
  /\ \E price \in Resolved(s) : Freezes(s, price)

FreezeInternal(s) ==
  /\ start[s].at = "authorizing" /\ ~QuoteIsValid(s)
  /\ Resolved(s) = {} /\ start[s].segment = "INTERNAL"
  /\ Freezes(s, [version |-> None, segment |-> "INTERNAL"])

NoTariff(s) ==
  /\ start[s].at = "authorizing" /\ ~QuoteIsValid(s)
  /\ Resolved(s) = {} /\ start[s].segment # "INTERNAL"
  /\ start' = [start EXCEPT ![s].at = "refused"]
  /\ UNCHANGED <<assignment, quote>>

ResolutionStep ==
  \/ \E a \in Assignment, from \in Instant, to \in Instant \cup {Never} : CreateAssignment(a, from, to)
  \/ \E a \in Assignment : EndAssignment(a)
  \/ \E s \in Session :
       \/ Quote(s) \/ FreezeQuote(s) \/ FreezeResolved(s) \/ FreezeInternal(s) \/ NoTariff(s)
       \/ \E segment \in Segment : RequestStart(s, segment)
=============================================================================
