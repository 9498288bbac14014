--------------------------- MODULE MCCgroupManager --------------------------
(***************************************************************************)
(* Finite instances of CgroupManager for TLC.                              *)
(***************************************************************************)
EXTENDS CgroupManager

CONSTANTS p1, p2, game, app, kwin, u1, u2, d1, d2, v1, v2

Block(max, weight, high) ==
  [Pristine EXCEPT !["cpu.max"] = max, !["cpu.weight"] = weight,
                   !["memory.high"] = high]

\* Each name has a directory of its own, as sanitize_dir gives distinct keys.
OwnDir == [n \in Name |-> IF n = game THEN d1 ELSE d2]
\* Two keys that sanitize_dir maps to one directory.
OneDir == [n \in Name |-> d1]

CapOnly == {Block(v1, Unset, Unset)}
\* The GUI's cap put on top of a weight, and taken off again.
CapAndWeight == {Block(v1, v1, Unset), Block(Unset, v1, Unset)}
\* A well-formed block, and one whose memory.high is not a size.
BadSize == {Block(v1, Unset, v1), Block(v2, Unset, v2)}
=============================================================================
