------------------------------ MODULE MCLaunch ------------------------------
(***************************************************************************)
(* A finite instance of Launch for TLC: two GUI processes.                 *)
(***************************************************************************)
EXTENDS Launch

CONSTANTS g1, g2
=============================================================================
