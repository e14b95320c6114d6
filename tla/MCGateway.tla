------------------------------ MODULE MCGateway ------------------------------
(***************************************************************************)
(* Instances of the gateway for TLC.                                       *)
(***************************************************************************)
EXTENDS GatewayCommands, TLC

GatewaySymmetry == Permutations(Pod) \cup Permutations(Command)
==============================================================================
