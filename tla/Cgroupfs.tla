------------------------------ MODULE Cgroupfs ------------------------------
(***************************************************************************)
(* The interface files of a cgroup v2 directory, as the daemon's           *)
(* apply_limits writes them (daemon/src/applier.rs).  A rule's cgroup      *)
(* block is a function from knob to value, with Unset for a key the block  *)
(* does not have; the files of a directory are a function from knob to     *)
(* value, with Unset for a file that still holds the kernel's default.     *)
(***************************************************************************)
EXTENDS Naturals

CONSTANTS Value,      \* what can be written to a knob
          Unset,      \* absent from the rule / still the kernel's default
          ValidSize   \* the values that are well-formed cgroup byte sizes

ASSUME UnsetAssumption == Unset \notin Value
ASSUME SizeAssumption == ValidSize \subseteq Value

CpuKnob    == {"cpu.max", "cpu.idle", "cpu.weight"}
MemoryKnob == {"memory.high", "memory.max"}
Knob       == CpuKnob \cup MemoryKnob

CgroupLimits == [Knob -> Value \cup {Unset}]
Pristine     == [k \in Knob |-> Unset]

\* The order in which apply_limits visits the knobs.
Rank == [k \in Knob |-> CASE k = "cpu.max"     -> 1
                          [] k = "cpu.idle"    -> 2
                          [] k = "cpu.weight"  -> 3
                          [] k = "memory.high" -> 4
                          [] k = "memory.max"  -> 5]

\* The writes apply_limits sets out to make: a knob the block does not name
\* is never written, and cpu.weight only when the block has no cpu_idle key.
Planned(lims) ==
  {k \in Knob : /\ lims[k] # Unset
                /\ k = "cpu.weight" => lims["cpu.idle"] = Unset}

\* A write goes through when the kernel exposes the file (the cpu controller
\* may be gone from the base) and, for memory, when the size is well formed.
Accepts(k, v, cpuOn) ==
  /\ k \in CpuKnob => cpuOn
  /\ k \in MemoryKnob => v \in ValidSize

\* apply_limits returns at the first write that fails.
Written(lims, cpuOn) ==
  {k \in Planned(lims) :
     \A j \in Planned(lims) : Rank[j] =< Rank[k] => Accepts(j, lims[j], cpuOn)}

Succeeds(lims, cpuOn) == Written(lims, cpuOn) = Planned(lims)

\* The directory's files after apply_limits: the ones it reached hold the
\* rule's values, the others are left as they were.
AfterApply(files, lims, cpuOn) ==
  [k \in Knob |-> IF k \in Written(lims, cpuOn) THEN lims[k] ELSE files[k]]

\* Losing the cpu controller resets its files to the defaults in every child.
WithoutCpu(files) == [k \in Knob |-> IF k \in CpuKnob THEN Unset ELSE files[k]]

\* The files hold what a successful apply_limits of lims would have left,
\* up to the knobs lims does not name.
Holds(files, lims) == \A k \in Written(lims, TRUE) : files[k] = lims[k]

\* The files hold exactly what the rule asks for.
Exact(files, lims) == files = AfterApply(Pristine, lims, TRUE)
=============================================================================
