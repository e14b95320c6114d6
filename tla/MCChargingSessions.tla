------------------------- MODULE MCChargingSessions -------------------------
(***************************************************************************)
(* Instances of ChargingSessions for TLC.                                  *)
(***************************************************************************)
EXTENDS ChargingSessions, TLC

CONSTANTS c1, c2, e1, d1, user, sweep

(* One connector on one EVSE; two connectors sharing one.                  *)
OneEach == c1 :> e1
SharedEvse == (c1 :> e1) @@ (c2 :> e1)

(* Every tag is the same driver's, or no tag is anybody's.                 *)
SameDriver == [tag \in Tag |-> d1]
NoDriver == [tag \in Tag |-> None]

(* The calls of SweepCall are the worker's, the others a user's.           *)
Requesters == [k \in StopCall |-> IF k \in SweepCall THEN sweep ELSE user]

RowSymmetry == Permutations(Session) \cup Permutations(Transaction)
==============================================================================
