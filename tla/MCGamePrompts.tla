---------------------------- MODULE MCGamePrompts ----------------------------
(***************************************************************************)
(* Finite instances of GamePrompts for TLC.                                *)
(***************************************************************************)
EXTENDS GamePrompts, TLC

CONSTANTS p1, p2

Quiet    == [steam |-> FALSE, dri |-> FALSE, fullscreen |-> FALSE,
             listed |-> FALSE, internal |-> FALSE]
SteamGpu == [Quiet EXCEPT !.steam = TRUE, !.dri = TRUE]
InStore  == [SteamGpu EXCEPT !.listed = TRUE]
P(n, t)  == [name |-> n, trait |-> t]

\* A program that is not a game until it opens the GPU.
OneGame  == {P("fps", Quiet), P("fps", SteamGpu)}
JustGame == {P("fps", SteamGpu)}
\* ... beside a critical name whose program is in the catalog.
GameAndKwin == JustGame \cup {P("kwin", InStore)}

Order == [fps |-> 1, kwin |-> 2]
KeyOrders == [k \in Key |-> Order[k]]

None == [k \in Key |-> Absent]
NoHand == {}
R(n, l, io, d) == [match |-> n, target |-> [nice |-> l, io |-> io], delayed |-> d]
\* No rule, and a delayed rule that leaves ionice alone.
ByHand == {None, [None EXCEPT !["fps"] = R("fps", "game", Leave, TRUE)]}
Auto == Tier("game")
Pids == Permutations(Pid)
=============================================================================
