---------------------------- MODULE MCPriorities -----------------------------
(***************************************************************************)
(* A finite instance of Priorities for TLC.                                *)
(***************************************************************************)
EXTENDS Priorities

Looks(n, m, r, v, c) == [name |-> n, mine |-> m, rt |-> r, nice |-> v, io |-> c]

App    == Looks("app", TRUE, FALSE, 0, "be")
Reniced == Looks("app", TRUE, FALSE, 2, "be")   \* ... by its owner
Theirs == Looks("app", FALSE, FALSE, 0, "be")
Rt     == Looks("a b", TRUE, TRUE, -2, "be")
Web    == Looks("a b c", TRUE, FALSE, 0, "be")
Programs == {App, Reniced, Theirs, Rt, Web}

Lower  == [nice |-> 1, io |-> "idle"]
Higher == [nice |-> -1, io |-> Leave]
Targets == {Lower, Higher}
NiceValues == -2..2

\* The daemon finds one program under two pids, or another and nothing.
Finds   == {[p \in Pid |-> App], [p \in Pid |-> IF p = 1 THEN Rt ELSE Absent]}
Configs == {[n \in Name |-> Absent], [n \in Name |-> Lower]}
=============================================================================
