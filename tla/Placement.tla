------------------------------ MODULE Placement ------------------------------
(***************************************************************************)
(* What the processes of a machine are promised while nicewatch takes them *)
(* out of their cgroups and puts them back: nobody is held unless a daemon *)
(* serves that will bring it home, or one was killed and the next brings   *)
(* it home before it serves; and a kill can cost one process its way home. *)
(***************************************************************************)
CONSTANT Pid

VARIABLES
  phase,   \* of the daemon
  at,      \* at[p]: where p stands with the daemon
  atRisk   \* the process last touched, until that is on disk

vars == <<phase, at, atRisk>>

Standing == {"out",    \* no such process
             "home",   \* in the cgroup it came from
             "held",   \* in a cgroup of the daemon's, its origin known
             "lost"}   \* nobody knows its origin any more
Phase == {"off", "killed", "recovering", "serving", "ending"}

TypeOK == /\ phase \in Phase /\ at \in [Pid -> Standing]
          /\ atRisk \subseteq Pid

Held == {p \in Pid : at[p] = "held"}

Init == phase = "off" /\ at = [p \in Pid |-> "out"] /\ atRisk = {}

\* Processes come to life in somebody's cgroup, and end anywhere.
Come(p) == /\ at[p] = "out" /\ at' = [at EXCEPT ![p] = "home"]
           /\ UNCHANGED <<phase, atRisk>>
Leave(p) == /\ at[p] # "out" /\ at' = [at EXCEPT ![p] = "out"]
            /\ UNCHANGED <<phase, atRisk>>

\* A daemon brings home whom the one before it left behind, then serves.
Begin == /\ phase \in {"off", "killed"} /\ phase' = "recovering"
         /\ UNCHANGED <<at, atRisk>>
Restore(p) == /\ phase = "recovering" /\ at[p] = "held"
              /\ at' = [at EXCEPT ![p] = "home"]
              /\ UNCHANGED <<phase, atRisk>>
Serve == /\ phase = "recovering" /\ Held = {} /\ phase' = "serving"
         /\ UNCHANGED <<at, atRisk>>

\* It touches one process at a time, and no other until that is on disk.
Touch(p) == /\ atRisk = {} /\ atRisk' = {p} /\ UNCHANGED phase
Take(p) == /\ phase = "serving" /\ Touch(p)
           /\ at[p] = "home" /\ at' = [at EXCEPT ![p] = "held"]
Return(p) == /\ phase \in {"serving", "ending"} /\ Touch(p)
             /\ at[p] = "held" /\ at' = [at EXCEPT ![p] = "home"]
\* ... or only its record of p, who has ended, or is lost wherever it is put.
Record(p) == /\ phase \in {"serving", "ending"} /\ Touch(p)
             /\ at[p] \in {"out", "lost"} /\ UNCHANGED at
Save == atRisk' = {} /\ UNCHANGED <<phase, at>>

\* It ends when nobody is held, or is killed.
Close == /\ phase = "serving" /\ phase' = "ending" /\ UNCHANGED <<at, atRisk>>
End == /\ phase = "ending" /\ Held = {} /\ phase' = "off"
       /\ UNCHANGED <<at, atRisk>>
Kill == /\ phase \in {"recovering", "serving", "ending"} /\ phase' = "killed"
        /\ at' = [p \in Pid |-> IF p \in atRisk \cap Held THEN "lost" ELSE at[p]]
        /\ atRisk' = {}

Next ==
  \/ Begin \/ Serve \/ Save \/ Close \/ End \/ Kill
  \/ \E p \in Pid : \/ Come(p) \/ Leave(p)
                    \/ Restore(p) \/ Take(p) \/ Return(p) \/ Record(p)

Spec == Init /\ [][Next]_vars
=============================================================================
