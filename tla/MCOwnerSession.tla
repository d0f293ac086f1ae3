---------------------------- MODULE MCOwnerSession ----------------------------
(***************************************************************************)
(* A small instance of OwnerSession for TLC.                               *)
(***************************************************************************)
EXTENDS OwnerSession, TLC

CONSTANTS t1, t2, n1
=============================================================================
