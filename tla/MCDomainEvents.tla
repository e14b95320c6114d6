---------------------------- MODULE MCDomainEvents ----------------------------
(***************************************************************************)
(* An instance of the outbox for TLC.                                      *)
(***************************************************************************)
EXTENDS DomainEvents

CONSTANTS idle, ended

OfSession == {idle, ended}
Idle == {idle}
===============================================================================
