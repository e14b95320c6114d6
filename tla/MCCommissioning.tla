--------------------------- MODULE MCCommissioning --------------------------
(***************************************************************************)
(* One charger, whose only key of interest takes a restart to apply; it    *)
(* comes with the low value and the template asks for the high one.        *)
(***************************************************************************)
EXTENDS Commissioning

CONSTANTS slow, low, high

AsBought == [k \in Key |-> low]
AskForHigh == {[k \in Key |-> high]}
Few == [issues |-> 1, moves |-> 2, ops |-> 1, faults |-> 1]

=============================================================================
