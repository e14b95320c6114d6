------------------------------ MODULE MCTariffs ------------------------------
(***************************************************************************)
(* An instance of Tariffs for TLC: one tariff, everywhere.                 *)
(***************************************************************************)
EXTENDS Tariffs, TLC

CONSTANTS general, v2, v3, p1, p2

OneTariff == [v \in Version |-> general]

Everywhere == [a \in Assignment |-> [tariff |-> general, segment |-> "PUBLIC", rank |-> 5, priority |-> 0]]

CallSymmetry == Permutations({p1, p2}) \cup Permutations({v2, v3})
==============================================================================
