---------------------------- MODULE MCConfigSync ----------------------------
(***************************************************************************)
(* Finite instances of ConfigSync for TLC.                                 *)
(***************************************************************************)
EXTENDS ConfigSync
CONSTANTS s1, s2, v1, v2
=============================================================================
