----------------------------- MODULE MCIpcStream -----------------------------
(***************************************************************************)
(* Finite instances of IpcStream for TLC.                                  *)
(***************************************************************************)
EXTENDS IpcStream

CONSTANTS p1, p2

R(look, cpu) == [look |-> look, cpu |-> cpu]
Rows == {R("a", 0), R("a", 1), R("b", 0)}
T(a, b) == [p \in Pid |-> IF p = p1 THEN a ELSE b]
\* One process whose cpu share creeps up and who then looks different, and one
\* that comes and goes.
Tables == {T(R("a", 0), Absent), T(R("a", 1), Absent), T(R("b", 0), R("a", 0))}
Churn  == Tables \cup {T(Absent, R("a", 0))}
=============================================================================
