------------------------------- MODULE Tariffs -------------------------------
(***************************************************************************)
(* The catalog of tariffs while drivers are quoted prices and start        *)
(* sessions by them.                                                       *)
(***************************************************************************)
EXTENDS TariffResolution

vars == <<clock, catalogVars, resolutionVars>>

Init == clock = 0 /\ CatalogInit /\ ResolutionInit

Tick == clock < MaxTime /\ clock' = clock + 1 /\ UNCHANGED <<catalogVars, resolutionVars>>

Next ==
  \/ Tick
  \/ CatalogStep /\ UNCHANGED <<clock, resolutionVars>>
  \/ ResolutionStep /\ UNCHANGED <<clock, catalogVars>>

Spec == Init /\ [][Next]_vars

-----------------------------------------------------------------------------
(* A tariff has one price at a time: two published versions never overlap, *)
(* whatever calls publish and retire at once (tariffs.ts: "nunca dos       *)
(* versiones solapadas").                                                  *)
OneInForce ==
  \A v \in Version : \A w \in Siblings(v) :
    Published(version[v]) /\ Published(version[w]) => ~Overlap(version[v], version[w])

(* Publishing a version without an end takes no price away: from now on    *)
(* every instant that had a version in force still has one.                *)
Priced(tariff) == {t \in Instant : clock <= t /\ InForce(tariff, t) # {}}

PublishingKeepsPrices ==
  [][\A c \in Publisher :
       call[c].at = "found" /\ call'[c].at = "done" /\ call[c].to = Never
         => \A tariff \in Tariff : Priced(tariff) \subseteq Priced(tariff)']_vars

(* A retired version stays as it is, and a published one never begins at   *)
(* another time: what a session was priced by can be looked up.            *)
PublishedIsFixed ==
  [][\A v \in Version :
       /\ version[v].status = "RETIRED" => version'[v] = version[v]
       /\ Published(version[v]) => version'[v].from = version[v].from
                                   /\ version'[v].status \notin {"ABSENT", "DRAFT"}]_vars

(* Somebody who starts while the quote he saw is valid starts, and pays    *)
(* what it says, whatever is published or retired in between; otherwise,   *)
(* what was in force when he asked (freezeSessionSnapshot).                *)
PriceIsShownOrCurrent ==
  [][\A s \in Session :
       start[s].at = "authorizing" /\ start'[s].at # "authorizing" /\ start[s].segment = "PUBLIC" =>
         IF quote[s].price # NoPrice /\ start[s].time <= quote[s].until
           THEN start'[s].at = "frozen" /\ start'[s].price = quote[s].price
           ELSE start'[s].at = "frozen" =>
                  \E tariff \in Tariff : start'[s].price.version \in InForce(tariff, start[s].time)]_vars

(* TAR 2.4: the version in force is the one whose validity contains the    *)
(* start, so that a session is refused only if there is none.              *)
StartIsPriced ==
  [][\A s \in Session :
       start[s].at = "authorizing" /\ start'[s].at = "refused" =>
         \A a \in Candidates(start[s].segment, start[s].time), v \in Version :
           TariffOf[v] = Assigned[a].tariff => ~Covers(version[v], start[s].time)]_vars

TypeOK ==
  /\ CatalogTypeOK
  /\ assignment \in [Assignment -> [from : Nat, to : Nat, created : Nat]]
  /\ quote \in [Session -> [price : [version : Version \cup {None}, segment : Segment], until : Nat]]
  /\ start \in [Session -> [at : {"idle", "authorizing", "frozen", "refused"}, time : Nat, segment : Segment,
                            price : [version : Version \cup {None}, segment : Segment]]]
=============================================================================
