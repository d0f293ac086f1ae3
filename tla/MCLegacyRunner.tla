---------------------------- MODULE MCLegacyRunner ----------------------------
(***************************************************************************)
(* A small instance of LegacyRunner for TLC.                               *)
(***************************************************************************)
EXTENDS LegacyRunner, TLC

CONSTANTS c1, c2
=============================================================================
