------------------------ MODULE CgroupManagerProofs ------------------------
(***************************************************************************)
(* Proofs about CgroupManager, for any number of processes, names, cgroups *)
(* and rules: type correctness under every fault, and, when processes stay *)
(* where the daemon put them, that the way home of every process is on     *)
(* disk (OriginsRecorded) and is taken at shutdown (CleanStop).            *)
(***************************************************************************)
EXTENDS CgroupManager, TLAPS

\* What TypeOK needs to be inductive: a live process has a name, and the pids
\* sync_pid is called for were scanned.
Named == /\ \A p \in Pid : Live(p) => name[p] \in Name
         /\ pc = "sync" => todo \subseteq ScannedPids

TypeInv == TypeOK /\ Named

----------------------------------------------------------------------------
\* The faults under which the daemon loses track of a process by construction:
\* others put processes into its directories, or take them out, or take their
\* origin away, or the write of its file fails, or it is killed inside it.
Disruptive == {"torn", "unwritten", "hiccup", "fork", "relocate", "vanish", "reuse"}

OffDuty == pc \in {"stopped", "killed", "recover"}

\* A process that is not lost is at home or in a managed directory, and its
\* home is there to go back to.
AtHomeOrHeld ==
  /\ Origin \subseteq dirs
  /\ \A p \in Pid : Live(p) => home[p] \in Origin
  /\ \A p \in Pid \ lost : Live(p) => where[p] = home[p] \/ where[p] \in Dir

\* The table tells the truth about live processes, and misses none.
TableIsTrue ==
  \A p \in Pid \ lost :
    /\ IsEnrolled(p) /\ Live(p) => Remembered(p)
    /\ where[p] \in Dir /\ ~OffDuty => IsEnrolled(p)

\* The file is the table, but for the change that is being written.
FileIsTable == ~OffDuty => \A p \in Pid \ unsaved : saved[p] = Record(p)

\* A daemon that is down or recovering has no table, and the file leads home
\* every process it has not visited yet.
FileLeadsHome ==
  OffDuty =>
    /\ enrolled = Nobody /\ unsaved = {}
    /\ pc = "stopped" => saved = Nobody
    /\ pc = "recover" => todo \subseteq RecordedPids
    /\ \A p \in Pid \ lost :
         where[p] \in Dir => Recorded(p) /\ (pc = "recover" => p \in todo)

StopVisitsAll == pc = "stopping" => todo = EnrolledPids

IndInv == /\ AtHomeOrHeld /\ TableIsTrue /\ FileIsTable /\ FileLeadsHome
          /\ StopVisitsAll

----------------------------------------------------------------------------
(* Type correctness.                                                       *)

\* Writing a block of limits into well-formed interface files leaves them
\* well formed, whatever apply_limits managed to write.
LEMMA AfterApplyType ==
  ASSUME NEW f \in CgroupLimits, NEW l \in Limits, NEW c
  PROVE  AfterApply(f, l, c) \in CgroupLimits
BY RuleAssumption, Zenon DEF AfterApply, CgroupLimits

\* Removing directories leaves the files of the others alone.
LEMMA FilesWithoutType ==
  ASSUME NEW f \in [Dir -> CgroupLimits], NEW D
  PROVE  FilesWithout(f, D) \in [Dir -> CgroupLimits]
<1>1. Pristine \in CgroupLimits BY DEF Pristine, CgroupLimits
<1>2. QED BY <1>1 DEF FilesWithout

\* prune_dir removes at most the directory it is called for.
LEMMA PruneType ==
  ASSUME NEW d, NEW w, Prune(d, w), TypeOK
  PROVE  /\ dirs' \subseteq Cgroup /\ dirs \ {d} \subseteq dirs'
         /\ files' \in [Dir -> CgroupLimits]
         /\ created' \subseteq Dir
BY FilesWithoutType DEF Prune, TypeOK, Empty

\* unenroll keeps every table well typed.
LEMMA UnenrollType ==
  ASSUME NEW p \in Pid, Unenroll(p), TypeOK
  PROVE  /\ where' \in [Pid -> Cgroup \cup {Gone}]
         /\ dirs' \subseteq Cgroup
         /\ files' \in [Dir -> CgroupLimits]
         /\ created' \subseteq Dir
         /\ enrolled' \in [Pid -> Enrolled \cup {Absent}]
         /\ unsaved' \subseteq Pid
         /\ \A q \in Pid : where'[q] # Gone => where[q] # Gone
<1> DEFINE w == IF CanMove(p, enrolled[p].origin)
                THEN [where EXCEPT ![p] = enrolled[p].origin] ELSE where
<1>1. where' = w /\ Prune(enrolled[p].dir, w) BY DEF Unenroll
<1>2. where' \in [Pid -> Cgroup \cup {Gone}] /\ \A q \in Pid : where'[q] # Gone => where[q] # Gone
  BY <1>1 DEF CanMove, Live, TypeOK
<1>3. enrolled' \in [Pid -> Enrolled \cup {Absent}] /\ unsaved' \subseteq Pid
  BY DEF Unenroll, TypeOK
<1>4. QED BY <1>1, <1>2, <1>3, PruneType

\* The start-up and the poll, except sync_pid, keep the types.
LEMMA TypeBasics ==
  ASSUME TypeInv,
         \/ Start \/ Recovered \/ BeginPoll \/ Persist \/ EndSync \/ EndSweep
         \/ EndPoll \/ Stop \/ Stopped \/ Crash
  PROVE  TypeInv'
<1> USE DEF TypeInv, kernel, manager, cycle
<1>1. CASE Start BY <1>1 DEF Start, TypeOK, Named, Stage, RecordedPids, Live, ScannedPids
<1>2. CASE Recovered
  BY <1>2 DEF WriteFile, Recovered, EnsureControllers, TypeOK, Named, Stage, Nobody, Live, ScannedPids
<1>3. CASE BeginPoll
  <2>1. \A p \in Pid : Live(p) => name[p] # Absent
    BY AbsentAssumption DEF Named
  <2>2. QED BY <1>3, <2>1 DEF BeginPoll, EnsureControllers, TypeOK, Named, Stage,
                              Live, ScannedPids
<1>4. CASE Persist
  <2>1. \A p \in Pid : Record(p) \in Saved \cup {Absent}
    BY DEF Record, IsEnrolled, TypeOK, Enrolled, Saved
  <2>2. saved' \in [Pid -> Saved \cup {Absent}] /\ stale' \in BOOLEAN
    BY <1>4, <2>1 DEF Persist, WriteFile, Nobody, TypeOK
  <2>3. QED BY <1>4, <2>2 DEF Persist, TypeOK, Named, Live, ScannedPids
<1>5. CASE EndSync BY <1>5 DEF EndSync, TypeOK, Named, Stage, Live, ScannedPids
<1>6. CASE EndSweep
  BY <1>6, FilesWithoutType DEF EndSweep, TypeOK, Named, Stage, Nobody, Live,
                                ScannedPids, Empty
<1>7. CASE EndPoll BY <1>7 DEF EndPoll, TypeOK, Named, Stage, Live, ScannedPids
<1>8. CASE Stop BY <1>8 DEF Stop, TypeOK, Named, Stage, EnrolledPids, Live, ScannedPids
<1>9. CASE Stopped BY <1>9 DEF WriteFile, Stopped, TypeOK, Named, Stage, Nobody, Live, ScannedPids
<1>10. CASE Crash BY <1>10 DEF Crash, TypeOK, Named, Stage, Nobody, Live, ScannedPids
<1>11. QED BY <1>1, <1>2, <1>3, <1>4, <1>5, <1>6, <1>7, <1>8, <1>9, <1>10

\* Each visit of a process keeps the types: recovery, sync_pid in its four
\* cases, forget, release at shutdown.
LEMMA TypeVisits ==
  ASSUME TypeInv, NEW p \in Pid,
         \/ RecoverOrphan(p) \/ SyncKeep(p) \/ SyncMoveOut(p) \/ SyncEnroll(p)
         \/ SyncRelease(p) \/ Forget(p) \/ StopRelease(p)
  PROVE  TypeInv'
<1> USE DEF TypeInv, IsOrphan, cycle
<1>1. CASE RecoverOrphan(p)
  <2> DEFINE here == IsOrphan(p)
             w == IF here /\ CanMove(p, saved[p].origin)
                  THEN [where EXCEPT ![p] = saved[p].origin] ELSE where
  <2>1. where' = w /\ (IF here THEN Prune(saved[p].dir, w) ELSE UNCHANGED <<dirs, files, created>>)
    BY <1>1 DEF RecoverOrphan
  <2>2. where' \in [Pid -> Cgroup \cup {Gone}] /\ \A q \in Pid : where'[q] # Gone => where[q] # Gone
    BY <2>1 DEF CanMove, Live, TypeOK
  <2>3. dirs' \subseteq Cgroup /\ files' \in [Dir -> CgroupLimits] /\ created' \subseteq Dir
    <3>1. CASE here BY <2>1, <3>1, PruneType
    <3>2. CASE ~here BY <2>1, <3>2 DEF TypeOK
    <3>3. QED BY <3>1, <3>2
  <2>4. QED BY <1>1, <2>2, <2>3 DEF RecoverOrphan, TypeOK, Named, Live, ScannedPids
<1>2. CASE SyncKeep(p)
  <2>1. Wanted(p) \in Limits /\ TargetDir(p) \in Dir
    BY <1>2, RuleAssumption DEF SyncKeep, AtSync, Wanted, TargetDir, TypeOK, Named, ScannedPids
  <2>2. files' \in [Dir -> CgroupLimits]
    BY <1>2, <2>1, AfterApplyType DEF SyncKeep, TypeOK
  <2>3. enrolled' \in [Pid -> Enrolled \cup {Absent}]
    BY <1>2, <2>1 DEF SyncKeep, TypeOK, Enrolled, IsEnrolled
  <2>4. QED BY <1>2, <2>2, <2>3 DEF SyncKeep, TypeOK, Named, Live, ScannedPids
<1>3. CASE SyncMoveOut(p)
  BY <1>3, UnenrollType DEF SyncMoveOut, TypeOK, Named, Live, ScannedPids
<1>4. CASE SyncEnroll(p)
  <2>1. Wanted(p) \in Limits /\ TargetDir(p) \in Dir
    BY <1>4, RuleAssumption DEF SyncEnroll, AtSync, Wanted, TargetDir, TypeOK, Named, ScannedPids
  <2>2. files' \in [Dir -> CgroupLimits]
    BY <1>4, <2>1, AfterApplyType DEF SyncEnroll, TypeOK
  <2>3. Live(p) => OriginToRecord(p) \in Cgroup
    BY DEF OriginToRecord, Live, TypeOK, Saved
  <2>4. /\ where' \in [Pid -> Cgroup \cup {Gone}]
        /\ enrolled' \in [Pid -> Enrolled \cup {Absent}]
        /\ created' \subseteq Dir /\ unsaved' \subseteq Pid
        /\ \A q \in Pid : where'[q] # Gone => where[q] # Gone
    BY <1>4, <2>1, <2>3 DEF SyncEnroll, TypeOK, Enrolled, Cgroup, Live
  <2>5. dirs' \subseteq Cgroup BY <1>4, <2>1 DEF SyncEnroll, TypeOK, Cgroup
  <2>6. QED BY <1>4, <2>2, <2>4, <2>5 DEF SyncEnroll, TypeOK, Named, Live, ScannedPids
<1>5. CASE SyncRelease(p)
  <2>1. CASE IsEnrolled(p)
    BY <1>5, <2>1, UnenrollType DEF SyncRelease, TypeOK, Named, Live, ScannedPids
  <2>2. CASE ~IsEnrolled(p)
    BY <1>5, <2>2 DEF SyncRelease, TypeOK, Named, Live, ScannedPids
  <2>3. QED BY <2>1, <2>2
<1>6. CASE Forget(p)
  <2>1. CASE IsEnrolled(p)
    BY <1>6, <2>1, PruneType DEF Forget, TypeOK, Named, Live, ScannedPids
  <2>2. CASE ~IsEnrolled(p)
    BY <1>6, <2>2 DEF Forget, TypeOK, Named, Live, ScannedPids
  <2>3. QED BY <2>1, <2>2
<1>7. CASE StopRelease(p)
  BY <1>7, UnenrollType DEF StopRelease, TypeOK, Named, Live, ScannedPids
<1>8. QED BY <1>1, <1>2, <1>3, <1>4, <1>5, <1>6, <1>7

\* sweep_strays keeps the types: what it moves goes to _strays.
LEMMA TypeSweep ==
  ASSUME TypeInv, NEW d \in Dir, SweepDir(d)
  PROVE  TypeInv'
<1> USE DEF TypeInv, StraysIn
<1> DEFINE strays == StraysIn(d)
           w   == [p \in Pid |-> IF p \in strays THEN Strays ELSE where[p]]
           out == Empty({d, Strays}, w)
<1>1. CASE d \in dirs
  <2>1. /\ where' = w /\ dirs' = (dirs \cup {c \in {Strays} : strays # {}}) \ out
        /\ files' = FilesWithout(files, out) /\ created' = created \ out
    BY <1>1 DEF SweepDir
  <2>2. where' \in [Pid -> Cgroup \cup {Gone}] /\ \A q \in Pid : where'[q] # Gone => where[q] # Gone
    BY <2>1, PlaceAssumption DEF TypeOK, Cgroup
  <2> HIDE DEF w, strays, out
  <2>3. dirs' \subseteq Cgroup BY <2>1 DEF TypeOK, Cgroup
  <2>4. files' \in [Dir -> CgroupLimits] /\ created' \subseteq Dir
    BY <2>1, FilesWithoutType DEF TypeOK
  <2>5. QED BY <2>2, <2>3, <2>4 DEF SweepDir, TypeOK, Named, Live, ScannedPids
<1>2. CASE d \notin dirs
  BY <1>2 DEF SweepDir, TypeOK, Named, Live, ScannedPids
<1>3. QED BY <1>1, <1>2

\* So does everything that happens around the daemon.
LEMMA TypeEnvironment ==
  ASSUME TypeInv, Environment
  PROVE  TypeInv'
<1> USE DEF TypeInv, kernel, manager, cycle
<1>1. CASE LoseCpu
  <2>1. \A f \in CgroupLimits : WithoutCpu(f) \in CgroupLimits
    BY DEF WithoutCpu, CgroupLimits
  <2>2. QED BY <1>1, <2>1 DEF LoseCpu, TypeOK, Named, Live, ScannedPids
<1>2. ASSUME NEW p \in Pid, Exit(p) PROVE TypeInv'
  BY <1>2 DEF Exit, TypeOK, Named, Live, ScannedPids
<1>3. ASSUME NEW p \in Pid, NEW n \in Name, Exec(p, n) PROVE TypeInv'
  BY <1>3 DEF Exec, TypeOK, Named, Live, ScannedPids
<1>4. ASSUME NEW p \in Pid, NEW o \in Origin, Relocate(p, o) PROVE TypeInv'
  BY <1>4 DEF Relocate, TypeOK, Named, Live, ScannedPids, Cgroup
<1>5. ASSUME NEW p \in Pid, NEW n \in Name, NEW o \in Origin, Spawn(p, n, o) PROVE TypeInv'
  BY <1>5 DEF Spawn, TypeOK, Named, Live, ScannedPids, Cgroup
<1>6. ASSUME NEW p \in Pid, NEW q \in Pid, Fork(p, q) PROVE TypeInv'
  BY <1>6 DEF Fork, TypeOK, Named, Live, ScannedPids
<1>7. ASSUME NEW o \in Origin, Vanish(o) PROVE TypeInv'
  BY <1>7 DEF Vanish, TypeOK, Named, Live, ScannedPids
<1>8. ASSUME NEW n \in Name, NEW r \in Limits \cup {NoRule}, SetRule(n, r) PROVE TypeInv'
  BY <1>8 DEF SetRule, TypeOK, Named, Live, ScannedPids
<1>9. QED BY <1>1, <1>2, <1>3, <1>4, <1>5, <1>6, <1>7, <1>8 DEF Environment

\* A step of anybody keeps the types, and the initial states have them.
LEMMA TypeInductive ==
  ASSUME TypeInv, [Next]_vars PROVE TypeInv'
<1>1. CASE Daemon BY <1>1, TypeBasics, TypeVisits, TypeSweep DEF Daemon
<1>2. CASE Operator BY <1>2, TypeBasics DEF Operator
<1>3. CASE Environment BY <1>3, TypeEnvironment
<1>4. CASE UNCHANGED vars
  BY <1>4 DEF vars, TypeInv, TypeOK, Named, Live, ScannedPids
<1>5. QED BY <1>1, <1>2, <1>3, <1>4 DEF Next

LEMMA TypeInit == Init => TypeInv
<1>1. Pristine \in CgroupLimits BY DEF Pristine, CgroupLimits
<1>2. QED BY <1>1 DEF Init, TypeInv, TypeOK, Named, Nobody, Cgroup, Stage, Live

\* Every table of the daemon and every state of the hierarchy stays well typed,
\* under any combination of faults.
THEOREM TypeCorrect == Spec => []TypeOK
<1>1. TypeInv => TypeOK BY DEF TypeInv
<1>2. QED BY <1>1, TypeInit, TypeInductive, PTL DEF Spec

----------------------------------------------------------------------------
(* The way home, when the disruptive faults do not happen.                 *)

Undisrupted == Faults \cap Disruptive = {}

\* The facts about places that every step below uses.
LEMMA Places ==
  /\ Gone \notin Dir /\ Gone \notin Origin /\ Strays \notin Dir
  /\ \A o \in Origin : o \notin Dir
BY PlaceAssumption

\* prune_dir never removes a cgroup that is not the daemon's.
LEMMA PruneKeepsOrigins ==
  ASSUME NEW d \in Dir, NEW w, Prune(d, w), Origin \subseteq dirs
  PROVE  Origin \subseteq dirs'
BY Places DEF Prune, Empty

\* unenroll sends a live process home: its record is true and its home exists.
LEMMA UnenrollGoesHome ==
  ASSUME TypeInv, AtHomeOrHeld, TableIsTrue,
         NEW p \in Pid, IsEnrolled(p), Unenroll(p)
  PROVE  /\ Origin \subseteq dirs'
         /\ \A q \in Pid \ {p} : where'[q] = where[q] /\ enrolled'[q] = enrolled[q]
         /\ enrolled'[p] = Absent
         /\ p \notin lost /\ Live(p) => where'[p] = home[p]
         /\ ~Live(p) => where'[p] = Gone
<1> DEFINE w == IF CanMove(p, enrolled[p].origin)
                THEN [where EXCEPT ![p] = enrolled[p].origin] ELSE where
<1>1. where' = w /\ Prune(enrolled[p].dir, w) BY DEF Unenroll
<1>2. enrolled[p] \in Enrolled BY DEF TypeInv, TypeOK, IsEnrolled
<1>3. Origin \subseteq dirs'
  BY <1>1, <1>2, PruneKeepsOrigins DEF AtHomeOrHeld, Enrolled
<1>4. \A q \in Pid \ {p} : where'[q] = where[q] /\ enrolled'[q] = enrolled[q]
  BY <1>1 DEF Unenroll, TypeInv, TypeOK
<1>5. enrolled'[p] = Absent BY DEF Unenroll, TypeInv, TypeOK
<1>6. ASSUME p \notin lost, Live(p) PROVE where'[p] = home[p]
  <2>1. enrolled[p].origin = home[p] /\ home[p] \in dirs
    BY <1>6 DEF TableIsTrue, Remembered, AtHomeOrHeld
  <2>2. QED BY <1>1, <1>6, <2>1 DEF CanMove, TypeInv, TypeOK
<1>7. ASSUME ~Live(p) PROVE where'[p] = Gone
  BY <1>1, <1>7 DEF CanMove, Live
<1>8. QED BY <1>3, <1>4, <1>5, <1>6, <1>7

\* Where no write fails, the file becomes what it should.
LEMMA FileWritten ==
  ASSUME Undisrupted, NEW f, WriteFile(f) PROVE saved' = f
BY DEF Undisrupted, Disruptive, WriteFile

\* The start-up, the poll's own steps and the shutdown's keep the way home.
LEMMA HomeBasics ==
  ASSUME TypeInv, IndInv, Undisrupted,
         \/ Start \/ Recovered \/ BeginPoll \/ Persist \/ EndSync \/ EndPoll
         \/ Stop \/ Stopped
  PROVE  IndInv'
<1> USE DEF kernel, manager, cycle, IndInv, AtHomeOrHeld, Live, IsEnrolled
<1>1. CASE Start
  <2>1. \A p \in Pid \ lost : where[p] \in Dir => Recorded(p) /\ p \in RecordedPids
    <3> SUFFICES ASSUME NEW p \in Pid \ lost, where[p] \in Dir
                 PROVE  Recorded(p) /\ saved[p] # Absent
      BY DEF RecordedPids
    <3>1. Recorded(p) BY <1>1 DEF Start, Up, OffDuty, FileLeadsHome
    <3>2. home[p] \in Origin BY Places
    <3>3. saved[p] \in [dir : Dir, origin : Origin \cup Dir \cup {Strays}]
      BY <3>1, <3>2 DEF Recorded
    <3>4. QED BY <3>1, <3>3, AbsentAssumption
  <2>2. /\ OffDuty /\ pc' = "recover" /\ todo' = RecordedPids
        /\ UNCHANGED <<kernel, enrolled, unsaved, saved, lost>>
    BY <1>1 DEF Start, Up, OffDuty
  <2>3. FileLeadsHome' BY <2>1, <2>2 DEF FileLeadsHome, OffDuty, Recorded, RecordedPids, Nobody
  <2>4. QED BY <2>2, <2>3 DEF TableIsTrue, FileIsTable, StopVisitsAll, OffDuty, Remembered
<1>2. CASE Recovered
  BY <1>2, Places, FileWritten DEF Recovered, EnsureControllers, TableIsTrue, FileIsTable, FileLeadsHome,
     StopVisitsAll, OffDuty, Remembered, Recorded, Record, Nobody, TypeInv, TypeOK
<1>3. CASE BeginPoll
  BY <1>3 DEF BeginPoll, EnsureControllers, TableIsTrue, FileIsTable, FileLeadsHome,
     StopVisitsAll, OffDuty, Remembered, Record
<1>4. CASE Persist
  BY <1>4, FileWritten DEF Persist, Up, TableIsTrue, FileIsTable, FileLeadsHome,
     StopVisitsAll, OffDuty, Remembered, Recorded, Record, EnrolledPids
<1>5. CASE EndSync
  BY <1>5 DEF EndSync, TableIsTrue, FileIsTable, FileLeadsHome,
     StopVisitsAll, OffDuty, Remembered, Record
<1>6. CASE EndPoll
  BY <1>6 DEF EndPoll, TableIsTrue, FileIsTable, FileLeadsHome,
     StopVisitsAll, OffDuty, Remembered, Record
<1>7. CASE Stop
  BY <1>7 DEF Stop, TableIsTrue, FileIsTable, FileLeadsHome,
     StopVisitsAll, OffDuty, Remembered, Record, EnrolledPids
<1>8. CASE Stopped
  <2>1. enrolled = Nobody
    BY <1>8, AbsentAssumption DEF Stopped, StopVisitsAll, EnrolledPids, Nobody, TypeInv, TypeOK
  <2>2. \A p \in Pid \ lost : where[p] \notin Dir
    BY <1>8, <2>1 DEF Stopped, TableIsTrue, OffDuty, Nobody
  <2>3. QED BY <1>8, <2>1, <2>2, FileWritten DEF Stopped, TableIsTrue, FileIsTable, FileLeadsHome,
     StopVisitsAll, OffDuty, Remembered, Record, Nobody
<1>9. QED BY <1>1, <1>2, <1>3, <1>4, <1>5, <1>6, <1>7, <1>8

\* A kill loses at most what the last persist had not written.
LEMMA HomeCrash ==
  ASSUME TypeInv, IndInv, Undisrupted, Crash
  PROVE  IndInv'
<1> USE DEF kernel, IndInv, Live, IsEnrolled
<1>1. "torn" \notin Faults BY DEF Undisrupted, Disruptive
<1>2. UNCHANGED saved BY <1>1 DEF Crash
<1>3. AtHomeOrHeld' BY DEF Crash, AtHomeOrHeld
<1>4. ASSUME NEW p \in Pid \ lost', where[p] \in Dir PROVE Recorded(p)
  <2>1. p \notin lost /\ p \notin unsaved BY <1>4 DEF Crash
  <2>2. CASE OffDuty BY <1>4, <2>1, <2>2 DEF FileLeadsHome
  <2>3. CASE ~OffDuty
    <3>1. IsEnrolled(p) /\ saved[p] = Record(p)
      BY <1>4, <2>1, <2>3 DEF TableIsTrue, FileIsTable
    <3>2. Live(p) BY <1>4, Places
    <3>3. Remembered(p) BY <1>4, <2>1, <3>1, <3>2 DEF TableIsTrue
    <3>4. QED BY <3>1, <3>3 DEF Record, Remembered, Recorded
  <2>4. QED BY <2>2, <2>3
<1>5. TableIsTrue' BY DEF Crash, TableIsTrue, OffDuty, Nobody
<1>6. FileIsTable' /\ StopVisitsAll' BY DEF Crash, FileIsTable, StopVisitsAll, OffDuty
<1>7. FileLeadsHome' BY <1>2, <1>4 DEF Crash, FileLeadsHome, OffDuty, Recorded
<1>8. QED BY <1>3, <1>5, <1>6, <1>7

\* recover_orphans takes every process home that is in the directory the file
\* says.
LEMMA HomeRecover ==
  ASSUME TypeInv, IndInv, Undisrupted, NEW p \in Pid, RecoverOrphan(p)
  PROVE  IndInv'
<1> USE DEF IndInv, Live, IsEnrolled, IsOrphan
<1> DEFINE here == IsOrphan(p)
           w == IF here /\ CanMove(p, saved[p].origin)
                THEN [where EXCEPT ![p] = saved[p].origin] ELSE where
<1>1. /\ where' = w
      /\ IF here THEN Prune(saved[p].dir, w) ELSE UNCHANGED <<dirs, files, created>>
      /\ UNCHANGED <<name, home, pc, enrolled, unsaved, saved, lost>>
      /\ pc = "recover" /\ p \in todo /\ todo' = todo \ {p}
  BY DEF RecoverOrphan
<1>2. saved[p] \in Saved
  BY <1>1 DEF FileLeadsHome, OffDuty, RecordedPids, TypeInv, TypeOK
<1>3. Origin \subseteq dirs'
  BY <1>1, <1>2, PruneKeepsOrigins DEF AtHomeOrHeld, Saved
<1>4. \A q \in Pid \ {p} : where'[q] = where[q] BY <1>1 DEF TypeInv, TypeOK
<1>5. where'[p] # Gone <=> Live(p) BY <1>1, <1>2, PlaceAssumption DEF CanMove, Saved, Cgroup, TypeInv, TypeOK
<1>6. ASSUME p \notin lost, Live(p) PROVE where'[p] = home[p]
  <2>1. CASE where[p] \in Dir
    <3>1. saved[p] = [dir |-> where[p], origin |-> home[p]] /\ home[p] \in dirs
      BY <1>1, <1>6, <2>1 DEF FileLeadsHome, OffDuty, Recorded, AtHomeOrHeld
    <3>2. here /\ CanMove(p, saved[p].origin) BY <1>6, <3>1 DEF CanMove
    <3>3. QED BY <1>1, <3>1, <3>2 DEF TypeInv, TypeOK
  <2>2. CASE where[p] \notin Dir
    BY <1>1, <1>2, <1>6, <2>2 DEF AtHomeOrHeld, Saved
  <2>3. QED BY <2>1, <2>2
<1> HIDE DEF here, w
<1>7. AtHomeOrHeld' BY <1>1, <1>3, <1>4, <1>5, <1>6 DEF AtHomeOrHeld
<1>8. \A q \in Pid \ lost : where'[q] \in Dir => where[q] \in Dir /\ q # p
  BY <1>4, <1>5, <1>6, Places DEF AtHomeOrHeld
<1>9. TableIsTrue' BY <1>1 DEF TableIsTrue, OffDuty, FileLeadsHome, Nobody
<1>10. FileIsTable' /\ StopVisitsAll' BY <1>1 DEF FileIsTable, StopVisitsAll, OffDuty
<1>11. FileLeadsHome'
  BY <1>1, <1>4, <1>8 DEF FileLeadsHome, OffDuty, Recorded, RecordedPids
<1>12. QED BY <1>7, <1>9, <1>10, <1>11

\* sweep_strays and the end of the poll: only lost processes are parked.
LEMMA HomeSweep ==
  ASSUME TypeInv, IndInv, Undisrupted,
         EndSweep \/ \E d \in Dir : SweepDir(d)
  PROVE  IndInv'
<1> USE DEF IndInv, Live, IsEnrolled, StraysIn
<1>1. CASE EndSweep
  <2>1. Origin \subseteq dirs' BY <1>1, Places DEF EndSweep, Empty, AtHomeOrHeld
  <2>2. QED BY <1>1, <2>1 DEF EndSweep, AtHomeOrHeld, TableIsTrue, FileIsTable, FileLeadsHome,
               StopVisitsAll, OffDuty, Remembered, Record
<1>2. ASSUME NEW d \in Dir, SweepDir(d) PROVE IndInv'
  <2> DEFINE strays == StraysIn(d)
             w   == [p \in Pid |-> IF p \in strays THEN Strays ELSE where[p]]
  <2>1. /\ pc = "sweep"
        /\ UNCHANGED <<name, home, pc, todo, enrolled, unsaved, saved, lost>>
    BY <1>2 DEF SweepDir
  <2>2. Origin \subseteq dirs'
    BY <1>2, Places, PlaceAssumption DEF SweepDir, Empty, AtHomeOrHeld
  <2>3. \A p \in Pid \ lost : where'[p] = where[p]
    <3>1. \A p \in strays : p \in lost BY <2>1 DEF TableIsTrue, OffDuty
    <3>2. where' = w \/ where' = where BY <1>2 DEF SweepDir
    <3> HIDE DEF strays
    <3>3. QED BY <3>1, <3>2
  <2>4. \A p \in Pid : where'[p] # Gone => where[p] # Gone
    BY <1>2, Places DEF SweepDir
  <2>5. QED BY <2>1, <2>2, <2>3, <2>4 DEF AtHomeOrHeld, TableIsTrue, FileIsTable, FileLeadsHome,
               StopVisitsAll, OffDuty, Remembered, Record
<1>3. QED BY <1>1, <1>2

\* Letting a process go, for whatever reason, keeps the way home: the common
\* part of sync_pid's move out, its release, and shutdown's release.
LEMMA HomeUnenroll ==
  ASSUME TypeInv, IndInv, NEW p \in Pid, IsEnrolled(p), Unenroll(p), ~OffDuty,
         UNCHANGED <<home, pc, saved, lost>>,
         pc = "stopping" => todo' = todo \ {p}
  PROVE  IndInv'
<1> USE DEF IndInv, Live, IsEnrolled
<1>1. /\ Origin \subseteq dirs'
      /\ \A q \in Pid \ {p} : where'[q] = where[q] /\ enrolled'[q] = enrolled[q]
      /\ enrolled'[p] = Absent
      /\ p \notin lost /\ where[p] # Gone => where'[p] = home[p]
      /\ where[p] = Gone => where'[p] = Gone
  BY UnenrollGoesHome
<1>2. unsaved' = unsaved \cup {p} BY DEF Unenroll
<1>3. AtHomeOrHeld' BY <1>1 DEF AtHomeOrHeld
<1>4. TableIsTrue'
  <2>1. p \notin lost => where'[p] \notin Dir BY <1>1, Places DEF AtHomeOrHeld
  <2>2. QED BY <1>1, <2>1 DEF TableIsTrue, OffDuty, Remembered
<1>5. FileIsTable' BY <1>1, <1>2 DEF FileIsTable, OffDuty, Record
<1>6. FileLeadsHome' BY DEF FileLeadsHome, OffDuty
<1>7. StopVisitsAll' BY <1>1 DEF StopVisitsAll, EnrolledPids
<1>8. QED BY <1>3, <1>4, <1>5, <1>6, <1>7

\* A process that sync_pid enrolls was at home, and is recorded as such.
LEMMA HomeEnroll ==
  ASSUME TypeInv, IndInv, Undisrupted, NEW p \in Pid, SyncEnroll(p)
  PROVE  IndInv'
<1> USE DEF IndInv, Live, IsEnrolled
<1> DEFINE d == TargetDir(p)
<1>1. /\ pc = "sync" /\ ~OffDuty /\ unsaved = {} /\ enrolled[p] = Absent
      /\ UNCHANGED <<home, pc, saved, lost>> /\ todo' = todo \ {p}
      /\ dirs \subseteq dirs'
  BY DEF SyncEnroll, AtSync, OffDuty
<1>2. d \in Dir
  BY RuleAssumption DEF SyncEnroll, AtSync, TargetDir, TypeInv, TypeOK, Named, ScannedPids
<1>3. p \notin lost /\ Live(p) => where[p] = home[p] /\ OriginToRecord(p) = home[p]
  <2>1. saved[p] = Absent BY <1>1 DEF FileIsTable, Record
  <2>2. p \notin lost /\ Live(p) => where[p] = home[p]
    BY <1>1 DEF AtHomeOrHeld, TableIsTrue
  <2>3. QED BY <2>1, <2>2 DEF OriginToRecord
<1>4. CASE Live(p) /\ Succeeds(Wanted(p), cpuOn)
  <2>1. /\ where' = [where EXCEPT ![p] = d]
        /\ enrolled' = [enrolled EXCEPT
             ![p] = [dir |-> d, origin |-> OriginToRecord(p), limits |-> Wanted(p)]]
        /\ unsaved' = {p}
    BY <1>4 DEF SyncEnroll
  <2> HIDE DEF d
  <2>2. /\ where'[p] = d /\ enrolled'[p].dir = d /\ enrolled'[p].origin = OriginToRecord(p)
        /\ \A q \in Pid \ {p} : where'[q] = where[q] /\ enrolled'[q] = enrolled[q]
    BY <2>1 DEF TypeInv, TypeOK
  <2>3. enrolled'[p] # Absent
    <3>1. Wanted(p) \in Limits
      BY RuleAssumption DEF SyncEnroll, AtSync, Wanted, TypeInv, TypeOK, Named, ScannedPids
    <3>2. OriginToRecord(p) \in Cgroup
      BY <1>4 DEF OriginToRecord, TypeInv, TypeOK, Saved
    <3>3. QED BY <1>2, <2>1, <3>1, <3>2, AbsentAssumption DEF Cgroup, TypeInv, TypeOK
  <2>4. AtHomeOrHeld' BY <1>1, <1>2, <1>4, <2>2 DEF AtHomeOrHeld
  <2>5. TableIsTrue' BY <1>1, <1>3, <1>4, <2>2, <2>3 DEF TableIsTrue, Remembered, OffDuty
  <2>6. FileIsTable' BY <1>1, <2>1, <2>2 DEF FileIsTable, Record, OffDuty
  <2>7. QED BY <1>1, <2>4, <2>5, <2>6 DEF FileLeadsHome, StopVisitsAll, OffDuty
<1>5. CASE ~(Live(p) /\ Succeeds(Wanted(p), cpuOn))
  <2>1. UNCHANGED <<where, enrolled, unsaved>> BY <1>5 DEF SyncEnroll
  <2>2. QED BY <1>1, <2>1 DEF AtHomeOrHeld, TableIsTrue, Remembered, FileIsTable, Record,
               FileLeadsHome, StopVisitsAll, OffDuty
<1>6. QED BY <1>4, <1>5

\* forget drops the record of a pid that is gone, or of one that was enrolled
\* and whose number nobody has taken.
LEMMA HomeForget ==
  ASSUME TypeInv, IndInv, Undisrupted, NEW p \in Pid, Forget(p), ~Live(p)
  PROVE  IndInv'
<1> USE DEF IndInv, Live, IsEnrolled
<1>1. /\ pc = "forget" /\ ~OffDuty /\ unsaved = {}
      /\ UNCHANGED <<where, home, pc, saved, lost>>
  BY DEF Forget, OffDuty
<1>2. CASE enrolled[p] # Absent
  <2>1. /\ Prune(enrolled[p].dir, where) /\ unsaved' = {p}
        /\ enrolled' = [enrolled EXCEPT ![p] = Absent]
    BY <1>2 DEF Forget
  <2>2. Origin \subseteq dirs'
    BY <1>2, <2>1, PruneKeepsOrigins DEF AtHomeOrHeld, TypeInv, TypeOK, Enrolled
  <2>3. \A q \in Pid \ {p} : enrolled'[q] = enrolled[q]
    BY <2>1 DEF TypeInv, TypeOK
  <2>4. TableIsTrue' BY <1>1, <2>3, Places DEF TableIsTrue, Remembered, OffDuty
  <2>5. QED BY <1>1, <2>1, <2>2, <2>3, <2>4 DEF AtHomeOrHeld, FileIsTable, Record,
               FileLeadsHome, StopVisitsAll, OffDuty
<1>3. CASE enrolled[p] = Absent
  BY <1>1, <1>3 DEF Forget, AtHomeOrHeld, TableIsTrue, Remembered, FileIsTable, Record,
     FileLeadsHome, StopVisitsAll, OffDuty
<1>4. QED BY <1>2, <1>3

\* sync_pid's keep branch changes the limits, not the way home.
LEMMA HomeKeep ==
  ASSUME TypeInv, IndInv, Undisrupted, NEW p \in Pid, SyncKeep(p)
  PROVE  IndInv'
<1> USE DEF IndInv, Live, IsEnrolled
<1>1. /\ pc = "sync" /\ UNCHANGED <<where, home, pc, dirs, unsaved, saved, lost>>
      /\ enrolled[p] # Absent /\ enrolled' = [enrolled EXCEPT ![p].limits = Wanted(p)]
  BY DEF SyncKeep, AtSync
<1>2. /\ enrolled'[p].dir = enrolled[p].dir /\ enrolled'[p].origin = enrolled[p].origin
      /\ enrolled'[p] # Absent
      /\ \A q \in Pid \ {p} : enrolled'[q] = enrolled[q]
  <2>1. Wanted(p) \in Limits
    BY RuleAssumption DEF SyncKeep, AtSync, Wanted, TypeInv, TypeOK, Named, ScannedPids
  <2>2. enrolled[p] \in Enrolled BY <1>1 DEF TypeInv, TypeOK
  <2>3. enrolled'[p] = [enrolled[p] EXCEPT !.limits = Wanted(p)]
        /\ \A q \in Pid \ {p} : enrolled'[q] = enrolled[q]
    BY <1>1 DEF TypeInv, TypeOK
  <2>4. enrolled'[p] \in Enrolled /\ enrolled'[p].dir = enrolled[p].dir
        /\ enrolled'[p].origin = enrolled[p].origin
    BY <2>1, <2>2, <2>3 DEF Enrolled
  <2>5. QED BY <2>3, <2>4, AbsentAssumption DEF Enrolled, Cgroup
<1>3. QED BY <1>1, <1>2 DEF AtHomeOrHeld, TableIsTrue, Remembered, FileIsTable, Record,
             FileLeadsHome, StopVisitsAll, OffDuty

\* What happens around the daemon, short of the disruptive faults, neither
\* moves a process nor takes its home away.
LEMMA HomeEnvironment ==
  ASSUME TypeInv, IndInv, Undisrupted, Environment
  PROVE  IndInv'
<1> USE DEF IndInv, Live, IsEnrolled, kernel, manager, cycle
<1>1. "fork" \notin Faults /\ "relocate" \notin Faults /\ "vanish" \notin Faults
      /\ "reuse" \notin Faults
  BY DEF Undisrupted, Disruptive
<1>2. CASE LoseCpu
  BY <1>2 DEF LoseCpu, AtHomeOrHeld, TableIsTrue, Remembered, FileIsTable, Record, Recorded,
     FileLeadsHome, StopVisitsAll, EnrolledPids, RecordedPids, OffDuty
<1>3. ASSUME NEW p \in Pid, Exit(p) PROVE IndInv'
  <2>1. /\ where'[p] = Gone /\ UNCHANGED <<dirs, manager, cycle, saved>> /\ lost' = lost \ {p}
        /\ \A q \in Pid \ {p} : where'[q] = where[q] /\ home'[q] = home[q]
    BY <1>3 DEF Exit, TypeInv, TypeOK
  <2>2. QED BY <2>1, Places DEF AtHomeOrHeld, TableIsTrue, Remembered, FileIsTable, Record,
        Recorded, FileLeadsHome, StopVisitsAll, EnrolledPids, RecordedPids, OffDuty
<1>4. ASSUME NEW p \in Pid, NEW n \in Name, Exec(p, n) PROVE IndInv'
  BY <1>4 DEF Exec, AtHomeOrHeld, TableIsTrue, Remembered, FileIsTable, Record, Recorded,
     FileLeadsHome, StopVisitsAll, EnrolledPids, RecordedPids, OffDuty
<1>5. ASSUME NEW p \in Pid, NEW n \in Name, NEW o \in Origin, Spawn(p, n, o) PROVE IndInv'
  <2>1. /\ where'[p] = o /\ home'[p] = o /\ enrolled[p] = Absent
        /\ UNCHANGED <<manager, cycle, saved, lost>> /\ dirs \subseteq dirs'
        /\ \A q \in Pid \ {p} : where'[q] = where[q] /\ home'[q] = home[q]
    BY <1>1, <1>5 DEF Spawn, Fresh, TypeInv, TypeOK
  <2>2. QED BY <2>1, Places DEF AtHomeOrHeld, TableIsTrue, Remembered, FileIsTable, Record,
        Recorded, FileLeadsHome, StopVisitsAll, EnrolledPids, RecordedPids, OffDuty
<1>6. ASSUME NEW n \in Name, NEW r \in Limits \cup {NoRule}, SetRule(n, r) PROVE IndInv'
  BY <1>6 DEF SetRule, AtHomeOrHeld, TableIsTrue, Remembered, FileIsTable, Record, Recorded,
     FileLeadsHome, StopVisitsAll, EnrolledPids, RecordedPids, OffDuty
<1>7. QED BY <1>1, <1>2, <1>3, <1>4, <1>5, <1>6 DEF Environment, Fork, Relocate, Vanish

----------------------------------------------------------------------------
\* A pid that the scan missed is gone, and stays so until forget has seen it.
GoneStaysGone ==
  /\ pc \in {"sync", "sweep"} => \A p \in known \ ScannedPids : ~Live(p)
  /\ pc = "forget" => \A p \in todo : ~Live(p)

\* The daemon brings no process to life: it moves only what sits somewhere.
LEMMA NobodyRises ==
  ASSUME TypeInv, Daemon \/ Operator, NEW q \in Pid, ~Live(q)
  PROVE  ~Live(q)'
<1> USE DEF TypeInv, Live, IsOrphan, StraysIn, kernel
<1>1. CASE Start \/ Stop \/ Crash BY <1>1 DEF Start, Stop, Crash
<1>2. CASE Recovered \/ BeginPoll \/ Persist \/ EndSync \/ EndSweep \/ EndPoll \/ Stopped
  BY <1>2 DEF Recovered, BeginPoll, Persist, EndSync, EndSweep, EndPoll, Stopped
<1>3. ASSUME NEW p \in Pid, RecoverOrphan(p) PROVE where'[q] = Gone
  BY <1>3 DEF RecoverOrphan, CanMove, TypeOK
<1>4. ASSUME NEW p \in Pid, SyncMoveOut(p) PROVE where'[q] = Gone
  BY <1>4, UnenrollType DEF SyncMoveOut
<1>5. ASSUME NEW p \in Pid, SyncRelease(p) PROVE where'[q] = Gone
  BY <1>5, UnenrollType DEF SyncRelease
<1>6. ASSUME NEW p \in Pid, StopRelease(p) PROVE where'[q] = Gone
  BY <1>6, UnenrollType DEF StopRelease
<1>7. ASSUME NEW p \in Pid, SyncEnroll(p) PROVE where'[q] = Gone
  BY <1>7 DEF SyncEnroll, TypeOK
<1>8. ASSUME NEW p \in Pid, SyncKeep(p) \/ Forget(p) PROVE where'[q] = Gone
  BY <1>8 DEF SyncKeep, Forget
<1>9. ASSUME NEW d \in Dir, SweepDir(d) PROVE where'[q] = Gone
  BY <1>9, Places DEF SweepDir
<1>10. QED BY <1>1, <1>2, <1>3, <1>4, <1>5, <1>6, <1>7, <1>8, <1>9 DEF Daemon, Operator

\* Without reuse of pids, no step brings back a pid that is to be forgotten.
LEMMA GoneInductive ==
  ASSUME TypeInv, GoneStaysGone, Undisrupted, Next
  PROVE  GoneStaysGone'
<1> USE DEF TypeInv, GoneStaysGone, ScannedPids, cycle
<1>1. CASE Daemon
  <2>1. \A q \in Pid : ~Live(q) => ~Live(q)' BY <1>1, NobodyRises
  <2>2. known \subseteq Pid /\ todo \subseteq Pid BY DEF TypeOK
  <2>3. CASE BeginPoll
    BY <2>1, <2>2, <2>3, AbsentAssumption DEF BeginPoll, Named
  <2>4. CASE EndSweep BY <2>1, <2>2, <2>4 DEF EndSweep
  <2>5. CASE Recovered \/ Persist \/ EndSync \/ EndPoll \/ Stopped
    BY <2>1, <2>2, <2>5 DEF Recovered, Persist, EndSync, EndPoll, Stopped
  <2>6. ASSUME NEW p \in Pid,
               \/ RecoverOrphan(p) \/ Forget(p) \/ StopRelease(p)
               \/ SyncKeep(p) \/ SyncMoveOut(p) \/ SyncEnroll(p) \/ SyncRelease(p)
        PROVE  GoneStaysGone'
    BY <2>1, <2>2, <2>6 DEF RecoverOrphan, Forget, StopRelease, SyncKeep, SyncMoveOut,
       SyncEnroll, SyncRelease
  <2>7. ASSUME NEW d \in Dir, SweepDir(d) PROVE GoneStaysGone'
    BY <2>1, <2>2, <2>7 DEF SweepDir
  <2>8. QED BY <1>1, <2>3, <2>4, <2>5, <2>6, <2>7 DEF Daemon
<1>2. CASE Operator
  BY <1>2 DEF Operator, Start, Stop, Crash
<1>3. CASE Environment
  <2>1. "reuse" \notin Faults /\ "fork" \notin Faults BY DEF Undisrupted, Disruptive
  <2>2. UNCHANGED <<pc, todo, scan, known>>
    BY <1>3 DEF Environment, LoseCpu, Exit, Exec, Relocate, Spawn, Fork, Vanish, SetRule
  <2>3. ASSUME NEW q \in Pid, ~Live(q), q \in (known \ ScannedPids) \cup todo PROVE ~Live(q)'
    BY <1>3, <2>1, <2>3 DEF Environment, LoseCpu, Exit, Exec, Relocate, Spawn, Fork, Vanish,
       SetRule, Fresh, Live, TypeOK, kernel
  <2>4. QED BY <2>2, <2>3 DEF TypeOK
<1>4. QED BY <1>1, <1>2, <1>3 DEF Next

----------------------------------------------------------------------------
(* The inductive invariant, and what follows from it.                      *)

HomeInv == TypeInv /\ GoneStaysGone /\ IndInv

\* No step, short of the disruptive faults, loses a way home.
LEMMA HomeInductive ==
  ASSUME HomeInv, Undisrupted, [Next]_vars PROVE HomeInv'
<1> USE DEF HomeInv
<1>1. CASE Next
  <2>1. TypeInv' /\ GoneStaysGone' BY <1>1, TypeInductive, GoneInductive
  <2>2. CASE Daemon
    <3>1. CASE Recovered \/ BeginPoll \/ Persist \/ EndSync \/ EndPoll \/ Stopped
      BY <2>1, <3>1, HomeBasics
    <3>2. CASE EndSweep \/ \E d \in Dir : SweepDir(d) BY <2>1, <3>2, HomeSweep
    <3>3. ASSUME NEW p \in Pid, RecoverOrphan(p) PROVE HomeInv'
      BY <2>1, <3>3, HomeRecover
    <3>4. ASSUME NEW p \in Pid, Forget(p) PROVE HomeInv'
      BY <2>1, <3>4, HomeForget DEF Forget, GoneStaysGone
    <3>5. ASSUME NEW p \in Pid, StopRelease(p) PROVE HomeInv'
      <4>1. IsEnrolled(p) BY <3>5 DEF StopRelease, IndInv, StopVisitsAll, EnrolledPids
      <4>2. QED BY <2>1, <3>5, <4>1, HomeUnenroll DEF StopRelease, OffDuty
    <3>6. ASSUME NEW p \in Pid, SyncKeep(p) PROVE HomeInv' BY <2>1, <3>6, HomeKeep
    <3>7. ASSUME NEW p \in Pid, SyncMoveOut(p) PROVE HomeInv'
      BY <2>1, <3>7, HomeUnenroll DEF SyncMoveOut, AtSync, OffDuty, cycle
    <3>8. ASSUME NEW p \in Pid, SyncEnroll(p) PROVE HomeInv' BY <2>1, <3>8, HomeEnroll
    <3>9. ASSUME NEW p \in Pid, SyncRelease(p) PROVE HomeInv'
      <4>1. CASE IsEnrolled(p)
        BY <2>1, <3>9, <4>1, HomeUnenroll DEF SyncRelease, AtSync, OffDuty
      <4>2. CASE ~IsEnrolled(p)
        BY <2>1, <3>9, <4>2 DEF SyncRelease, AtSync, IndInv, AtHomeOrHeld, TableIsTrue,
           Remembered, FileIsTable, Record, FileLeadsHome, StopVisitsAll, OffDuty, Live,
           IsEnrolled
      <4>3. QED BY <4>1, <4>2
    <3>10. QED BY <2>2, <3>1, <3>2, <3>3, <3>4, <3>5, <3>6, <3>7, <3>8, <3>9 DEF Daemon
  <2>3. CASE Operator BY <2>1, <2>3, HomeBasics, HomeCrash DEF Operator
  <2>4. CASE Environment BY <2>1, <2>4, HomeEnvironment
  <2>5. QED BY <1>1, <2>2, <2>3, <2>4 DEF Next
<1>2. CASE UNCHANGED vars
  <2>1. TypeInv' BY <1>2, TypeInductive
  <2>2. QED BY <1>2, <2>1 DEF vars, GoneStaysGone, IndInv, AtHomeOrHeld, TableIsTrue,
        Remembered, Recorded, FileIsTable, Record, FileLeadsHome, StopVisitsAll, OffDuty,
        Live, IsEnrolled, EnrolledPids, RecordedPids, ScannedPids
<1>3. QED BY <1>1, <1>2

\* Nothing is held or remembered before the first start.
LEMMA HomeInit == Init => HomeInv
<1> SUFFICES ASSUME Init PROVE HomeInv
  OBVIOUS
<1>1. TypeInv BY TypeInit
<1>2. GoneStaysGone BY DEF Init, GoneStaysGone
<1>3. IndInv
  BY Places DEF Init, IndInv, AtHomeOrHeld, TableIsTrue, FileIsTable, FileLeadsHome,
     StopVisitsAll, OffDuty, Live, Nobody
<1>4. QED BY <1>1, <1>2, <1>3 DEF HomeInv

\* Short of the disruptive faults, a daemon that is killed at any point has
\* left on disk the true origin of every process in its directories, except
\* for those a kill caught between move and persist: for any number of
\* processes, rules and directories, and of kills and restarts.
THEOREM WayHomeOnDisk ==
  ASSUME Undisrupted PROVE Spec => []OriginsRecorded
<1>1. HomeInv => OriginsRecorded
  <2> SUFFICES ASSUME HomeInv, NEW p \in Pid \ lost, where[p] \in Dir
               PROVE  Recorded(p) \/ (p \in unsaved /\ Remembered(p))
    BY DEF OriginsRecorded
  <2> USE DEF HomeInv, IndInv
  <2>1. CASE OffDuty BY <2>1 DEF FileLeadsHome
  <2>2. CASE ~OffDuty
    <3>1. IsEnrolled(p) /\ Live(p) BY <2>2, Places DEF TableIsTrue, Live
    <3>2. Remembered(p) BY <3>1 DEF TableIsTrue
    <3>3. p \notin unsaved => saved[p] = Record(p) BY <2>2 DEF FileIsTable
    <3>4. QED BY <3>1, <3>2, <3>3 DEF Record, Remembered, Recorded
  <2>3. QED BY <2>1, <2>2
<1>2. QED BY <1>1, HomeInit, HomeInductive, PTL DEF Spec

\* Short of the disruptive faults, a shutdown returns every process to the
\* cgroup it came from.
THEOREM ShutdownReturnsAll ==
  ASSUME Undisrupted PROVE Spec => []CleanStop
<1>1. HomeInv => CleanStop
  <2> SUFFICES ASSUME HomeInv, pc = "stopped", NEW p \in Pid \ lost, Live(p)
               PROVE  where[p] = home[p]
    BY DEF CleanStop
  <2> USE DEF HomeInv, IndInv
  <2>1. ASSUME where[p] \in Dir PROVE FALSE
    <3>1. Recorded(p) /\ saved[p] = Absent
      BY <2>1 DEF FileLeadsHome, OffDuty, Nobody
    <3>2. home[p] \in Origin BY DEF AtHomeOrHeld
    <3>3. saved[p] \in [dir : Dir, origin : Origin \cup Dir \cup {Strays}]
      BY <2>1, <3>1, <3>2 DEF Recorded
    <3>4. QED BY <3>1, <3>3, AbsentAssumption
  <2>2. QED BY <2>1 DEF AtHomeOrHeld
<1>2. QED BY <1>1, HomeInit, HomeInductive, PTL DEF Spec

\* Short of the disruptive faults, only what a kill cut off is ever parked in
\* _strays: nobody else can lose its origin for good.
THEOREM OnlyTheLostAreParked ==
  ASSUME Undisrupted PROVE Spec => []ParkedAreLost
<1>1. HomeInv => ParkedAreLost
  BY PlaceAssumption DEF HomeInv, IndInv, AtHomeOrHeld, ParkedAreLost, Live
<1>2. QED BY <1>1, HomeInit, HomeInductive, PTL DEF Spec

\* What moves q in a step of the daemon, if anything does, has a good reason.
Justified(q) == \/ where'[q] = where[q]
                \/ /\ pc = "sync" /\ q \in todo
                   /\ Wanted(q) # NoRule /\ where'[q] = TargetDir(q)
                \/ where'[q] = home[q]
                \/ q \in lost

LEMMA StepsJustified ==
  ASSUME HomeInv, Daemon, NEW q \in Pid
  PROVE  Justified(q)
<1> USE DEF HomeInv, IndInv, Justified, kernel, manager
<1>1. CASE Recovered \/ BeginPoll \/ Persist \/ EndSync \/ EndSweep \/ EndPoll \/ Stopped
  BY <1>1 DEF Recovered, BeginPoll, Persist, EndSync, EndSweep, EndPoll, Stopped
<1>2. ASSUME NEW p \in Pid, RecoverOrphan(p) PROVE Justified(q)
  <2>1. CASE p = q /\ IsOrphan(p) /\ p \notin lost
    <3>1. pc = "recover" /\ p \in todo BY <1>2 DEF RecoverOrphan
    <3>2. saved[p] \in Saved
      BY <3>1 DEF FileLeadsHome, OffDuty, RecordedPids, TypeInv, TypeOK
    <3>3. where[p] \in Dir BY <2>1, <3>2 DEF IsOrphan, Saved
    <3>4. Recorded(p) BY <2>1, <3>1, <3>3 DEF FileLeadsHome, OffDuty
    <3>5. saved[p].origin = home[p] BY <3>4 DEF Recorded
    <3>6. where' = IF CanMove(p, home[p]) THEN [where EXCEPT ![p] = home[p]] ELSE where
      BY <1>2, <2>1, <3>5 DEF RecoverOrphan
    <3>7. QED BY <2>1, <3>6 DEF TypeInv, TypeOK
  <2>2. CASE ~(p = q /\ IsOrphan(p))
    BY <1>2, <2>2 DEF RecoverOrphan, TypeInv, TypeOK
  <2>3. QED BY <2>1, <2>2
<1>3. ASSUME NEW p \in Pid, IsEnrolled(p), Unenroll(p) PROVE Justified(q)
  BY <1>3, UnenrollGoesHome DEF Live
<1>4. ASSUME NEW p \in Pid, SyncMoveOut(p) PROVE Justified(q)
  BY <1>3, <1>4 DEF SyncMoveOut
<1>5. ASSUME NEW p \in Pid, SyncRelease(p) PROVE Justified(q)
  BY <1>3, <1>5 DEF SyncRelease
<1>6. ASSUME NEW p \in Pid, StopRelease(p) PROVE Justified(q)
  BY <1>3, <1>6 DEF StopRelease, StopVisitsAll, EnrolledPids
<1>7. ASSUME NEW p \in Pid, SyncEnroll(p) PROVE Justified(q)
  BY <1>7 DEF SyncEnroll, AtSync, TypeInv, TypeOK
<1>8. ASSUME NEW p \in Pid, SyncKeep(p) \/ Forget(p) PROVE Justified(q)
  BY <1>8 DEF SyncKeep, Forget
<1>9. ASSUME NEW d \in Dir, SweepDir(d) PROVE Justified(q)
  <2>1. q \in StraysIn(d) => q \in lost
    BY <1>9 DEF SweepDir, StraysIn, TableIsTrue, OffDuty
  <2>2. q \notin StraysIn(d) => where'[q] = where[q] BY <1>9 DEF SweepDir
  <2>3. QED BY <2>1, <2>2
<1>10. QED BY <1>1, <1>2, <1>4, <1>5, <1>6, <1>7, <1>8, <1>9 DEF Daemon

\* Short of the disruptive faults, the daemon moves a process only under a rule
\* that the scan found for it, home, or because a kill cut it off from there:
\* sweep_strays, which parks whatever the table does not know, finds no others.
THEOREM MovesHaveReasons ==
  ASSUME Undisrupted PROVE Spec => MovesJustified
<1>1. HomeInv => [Daemon => \A p \in Pid :
        where'[p] # where[p] =>
          \/ /\ pc = "sync" /\ p \in todo
             /\ Wanted(p) # NoRule /\ where'[p] = TargetDir(p)
          \/ where'[p] = home[p]
          \/ p \in lost]_vars
  BY StepsJustified DEF Justified
<1>2. Spec => []HomeInv BY HomeInit, HomeInductive, PTL DEF Spec
<1>3. QED BY <1>1, <1>2, PTL DEF MovesJustified

----------------------------------------------------------------------------
(* The refinement of Placement.                                            *)

At == [p \in Pid |-> Standing(p)]

\* Where everybody can stand.
LEMMA Standings ==
  ASSUME HomeInv, NEW p \in Pid
  PROVE  /\ ~Live(p) => Standing(p) = "out"
         /\ Live(p) /\ p \in lost => Standing(p) = "lost"
         /\ Live(p) /\ p \notin lost /\ where[p] \in Dir => Standing(p) = "held"
         /\ Live(p) /\ p \notin lost /\ where[p] \notin Dir =>
              Standing(p) = "home"
BY DEF Standing, HomeInv, IndInv, AtHomeOrHeld

LEMMA StandingsNext ==
  ASSUME HomeInv', NEW p \in Pid
  PROVE  /\ ~Live(p)' => Standing(p)' = "out"
         /\ Live(p)' /\ p \in lost' => Standing(p)' = "lost"
         /\ Live(p)' /\ p \notin lost' /\ where'[p] \in Dir =>
              Standing(p)' = "held"
         /\ Live(p)' /\ p \notin lost' /\ where'[p] \notin Dir =>
              Standing(p)' = "home"
BY DEF Standing, HomeInv, IndInv, AtHomeOrHeld

\* Who sits where it sat stands where it stood.
LEMMA StandsStill ==
  ASSUME NEW q \in Pid, where'[q] = where[q], home'[q] = home[q],
         q \in lost' <=> q \in lost
  PROVE  Standing(q)' = Standing(q)
BY DEF Standing, Live

LEMMA AllStandStill ==
  ASSUME UNCHANGED <<where, home, lost>>
  PROVE  At' = At
BY StandsStill DEF At

LEMMA OneMoves ==
  ASSUME NEW p \in Pid, NEW s, Standing(p)' = s,
         \A q \in Pid \ {p} : Standing(q)' = Standing(q)
  PROVE  At' = [At EXCEPT ![p] = s]
BY DEF At

LEMMA HeldOnes ==
  ASSUME HomeInv, \A p \in Pid \ lost : where[p] \notin Dir
  PROVE  {p \in Pid : At[p] = "held"} = {}
BY Standings DEF At

\* unenroll sends home whom the table holds, and tells the file next.
LEMMA UnenrollPlaced ==
  ASSUME HomeInv, HomeInv', NEW p \in Pid, IsEnrolled(p), Unenroll(p),
         unsaved = {}, UNCHANGED <<home, lost>>, UNCHANGED Phase,
         Phase \in {"serving", "ending"}
  PROVE  Placing!Return(p) \/ Placing!Record(p)
<1>1. /\ \A q \in Pid \ {p} : where'[q] = where[q]
      /\ p \notin lost /\ Live(p) => where'[p] = home[p]
      /\ ~Live(p) => where'[p] = Gone
  BY UnenrollGoesHome DEF HomeInv, IndInv
<1>2. \A q \in Pid \ {p} : Standing(q)' = Standing(q) BY <1>1, StandsStill
<1>3. unsaved' = {p} BY DEF Unenroll
<1>4. CASE Live(p) /\ p \notin lost
  <2>1. Standing(p) = "held"
    <3>1. Remembered(p) BY <1>4 DEF HomeInv, IndInv, TableIsTrue
    <3>2. where[p] \in Dir
      BY <3>1 DEF Remembered, HomeInv, TypeInv, TypeOK, Enrolled, IsEnrolled
    <3>3. QED BY <1>4, <3>2, Standings, StandingsNext
  <2>2. home[p] \in Origin BY <1>4 DEF HomeInv, IndInv, AtHomeOrHeld
  <2>3. Live(p)' /\ p \notin lost' /\ where'[p] \notin Dir
    BY <1>1, <1>4, <2>2, Places DEF Live
  <2>4. Standing(p)' = "home" BY <2>3, Standings, StandingsNext
  <2>5. At' = [At EXCEPT ![p] = "home"] BY <1>2, <2>4, OneMoves
  <2>6. QED BY <1>3, <2>1, <2>5 DEF Placing!Return, Placing!Touch, At
<1>5. CASE ~Live(p) \/ p \in lost
  <2>1. Live(p)' <=> Live(p)
    <3>1. where'[p] = where[p] \/ where'[p] = enrolled[p].origin
      BY DEF Unenroll, HomeInv, TypeInv, TypeOK
    <3>2. enrolled[p].origin # Gone
      BY Places, PlaceAssumption
         DEF HomeInv, TypeInv, TypeOK, Enrolled, IsEnrolled, Cgroup
    <3>3. QED BY <1>1, <3>1, <3>2 DEF Live
  <2>2. Standing(p) \in {"out", "lost"} /\ Standing(p)' = Standing(p)
    BY <1>5, <2>1, Standings, StandingsNext
  <2>3. At' = At BY <1>2, <2>2 DEF At
  <2>4. QED BY <1>3, <2>2, <2>3 DEF Placing!Record, Placing!Touch, At
<1>6. QED BY <1>4, <1>5

\* The poll's steps in which nobody is moved, but for the lost.
LEMMA QuietPlaced ==
  ASSUME HomeInv, HomeInv',
         \/ Start \/ Recovered \/ BeginPoll \/ Persist \/ EndSync \/ EndSweep
         \/ EndPoll \/ Stop \/ Stopped
         \/ \E p \in Pid : SyncKeep(p) \/ Forget(p)
         \/ \E d \in Dir : SweepDir(d)
  PROVE  [Placing!Next]_(Placing!vars)
<1> USE DEF kernel, manager, cycle
<1>1. CASE BeginPoll \/ EndSync \/ EndSweep \/ EndPoll
  <2>1. UNCHANGED <<where, home, lost, unsaved, Phase>>
    BY <1>1 DEF BeginPoll, EndSync, EndSweep, EndPoll, Phase
  <2>2. QED BY <2>1, AllStandStill DEF Placing!vars, At
<1>2. CASE Persist
  <2>1. UNCHANGED <<where, home, lost, Phase>> /\ unsaved' = {}
    BY <1>2 DEF Persist, Phase
  <2>2. Placing!Save BY <2>1, AllStandStill DEF Placing!Save, At
  <2>3. QED BY <2>2 DEF Placing!Next
<1>3. CASE Start
  <2>1. UNCHANGED <<where, home, lost, unsaved>> BY <1>3 DEF Start
  <2>2. Phase \in {"off", "killed"} /\ Phase' = "recovering"
    BY <1>3 DEF Start, Up, Phase
  <2>3. Placing!Begin BY <2>1, <2>2, AllStandStill DEF Placing!Begin, At
  <2>4. QED BY <2>3 DEF Placing!Next
<1>4. CASE Recovered
  <2>1. UNCHANGED <<where, home, lost, unsaved>> BY <1>4 DEF Recovered
  <2>2. Phase = "recovering" /\ Phase' = "serving" BY <1>4 DEF Recovered, Phase
  <2>3. \A p \in Pid \ lost : where[p] \notin Dir
    BY <1>4 DEF Recovered, HomeInv, IndInv, FileLeadsHome, OffDuty
  <2>4. Placing!Serve
    BY <2>1, <2>2, <2>3, HeldOnes, AllStandStill
       DEF Placing!Serve, Placing!Held, At
  <2>5. QED BY <2>4 DEF Placing!Next
<1>5. CASE Stop
  <2>1. UNCHANGED <<where, home, lost, unsaved>> BY <1>5 DEF Stop
  <2>2. Phase = "serving" /\ Phase' = "ending" BY <1>5 DEF Stop, Phase
  <2>3. Placing!Close BY <2>1, <2>2, AllStandStill DEF Placing!Close, At
  <2>4. QED BY <2>3 DEF Placing!Next
<1>6. CASE Stopped
  <2>1. UNCHANGED <<where, home, lost, unsaved>> BY <1>6 DEF Stopped
  <2>2. Phase = "ending" /\ Phase' = "off" BY <1>6 DEF Stopped, Phase
  <2>3. \A p \in Pid \ lost : where[p] \notin Dir
    BY <1>6 DEF Stopped, HomeInv, IndInv, TableIsTrue, StopVisitsAll, OffDuty,
                EnrolledPids
  <2>4. Placing!End
    BY <2>1, <2>2, <2>3, HeldOnes, AllStandStill
       DEF Placing!End, Placing!Held, At
  <2>5. QED BY <2>4 DEF Placing!Next
<1>7. ASSUME NEW p \in Pid, SyncKeep(p) PROVE [Placing!Next]_(Placing!vars)
  <2>1. UNCHANGED <<where, home, lost, unsaved, Phase>>
    BY <1>7 DEF SyncKeep, Phase
  <2>2. QED BY <2>1, AllStandStill DEF Placing!vars, At
<1>8. ASSUME NEW p \in Pid, Forget(p) PROVE [Placing!Next]_(Placing!vars)
  <2>1. UNCHANGED <<where, home, lost, Phase>> /\ Phase = "serving"
    BY <1>8 DEF Forget, Phase
  <2>2. CASE IsEnrolled(p)
    <3>1. unsaved = {} /\ unsaved' = {p} BY <1>8, <2>2 DEF Forget
    <3>2. Standing(p) = "out"
      BY <1>8, Standings DEF Forget, HomeInv, GoneStaysGone
    <3>3. Placing!Record(p)
      BY <2>1, <3>1, <3>2, AllStandStill DEF Placing!Record, Placing!Touch, At
    <3>4. QED BY <3>3 DEF Placing!Next
  <2>3. CASE ~IsEnrolled(p)
    BY <1>8, <2>1, <2>3, AllStandStill DEF Forget, Placing!vars, At
  <2>4. QED BY <2>2, <2>3
<1>9. ASSUME NEW d \in Dir, SweepDir(d) PROVE [Placing!Next]_(Placing!vars)
  <2>1. UNCHANGED <<home, lost, unsaved, Phase>> BY <1>9 DEF SweepDir, Phase
  <2>2. ASSUME NEW q \in Pid PROVE Standing(q)' = Standing(q)
    <3>1. q \in StraysIn(d) => q \in lost /\ Live(q)
      BY <1>9, Places DEF SweepDir, StraysIn, HomeInv, IndInv, TableIsTrue, OffDuty,
                  Live
    <3>2. \/ where'[q] = where[q]
          \/ q \in StraysIn(d) /\ where'[q] = Strays
      BY <1>9 DEF SweepDir
    <3>3. where'[q] = Strays => Live(q)' BY PlaceAssumption DEF Live
    <3>4. QED BY <2>1, <3>1, <3>2, <3>3, StandsStill, Standings, StandingsNext
  <2>3. QED BY <2>1, <2>2 DEF Placing!vars, At
<1>10. QED BY <1>1, <1>2, <1>3, <1>4, <1>5, <1>6, <1>7, <1>8, <1>9

\* The daemon's visits that move somebody.
LEMMA VisitPlaced ==
  ASSUME HomeInv, HomeInv', NEW p \in Pid,
         \/ RecoverOrphan(p) \/ SyncMoveOut(p) \/ SyncEnroll(p)
         \/ SyncRelease(p) \/ StopRelease(p)
  PROVE  [Placing!Next]_(Placing!vars)
<1> USE DEF cycle
<1>1. CASE RecoverOrphan(p)
  <2>1. /\ UNCHANGED <<home, lost, unsaved, Phase>> /\ Phase = "recovering"
        /\ pc = "recover" /\ p \in todo
    BY <1>1 DEF RecoverOrphan, Phase
  <2>2. saved[p] \in Saved
    BY <2>1 DEF HomeInv, IndInv, FileLeadsHome, OffDuty, RecordedPids, TypeInv,
                TypeOK
  <2>3. /\ \A q \in Pid \ {p} : where'[q] = where[q]
        /\ \/ where'[p] = where[p]
           \/ /\ where[p] = saved[p].dir /\ where'[p] = saved[p].origin
              /\ Live(p)
    BY <1>1 DEF RecoverOrphan, IsOrphan, CanMove, HomeInv, TypeInv, TypeOK
  <2>4. \A q \in Pid \ {p} : Standing(q)' = Standing(q)
    BY <2>1, <2>3, StandsStill
  <2>5. CASE Standing(p)' = Standing(p)
    BY <2>1, <2>4, <2>5 DEF Placing!vars, At
  <2>6. CASE Standing(p)' # Standing(p)
    <3>1. where'[p] # where[p] BY <2>1, <2>6, StandsStill
    <3>2. /\ where[p] \in Dir /\ Live(p) /\ where'[p] = saved[p].origin
          /\ Live(p)'
      BY <2>2, <2>3, <3>1, PlaceAssumption DEF Saved, Live, Cgroup
    <3>3. p \notin lost BY <2>1, <2>6, <3>2, Standings, StandingsNext
    <3>4. Recorded(p)
      BY <2>1, <3>2, <3>3 DEF HomeInv, IndInv, FileLeadsHome, OffDuty
    <3>5. where'[p] = home[p] /\ home[p] \in Origin
      BY <3>2, <3>4 DEF Recorded, HomeInv, IndInv, AtHomeOrHeld
    <3>6. Standing(p) = "held" BY <3>2, <3>3, Standings, StandingsNext
    <3>7. Standing(p)' = "home"
      BY <2>1, <3>2, <3>3, <3>5, Places, Standings, StandingsNext
    <3>8. At' = [At EXCEPT ![p] = "home"] BY <2>4, <3>7, OneMoves
    <3>9. Placing!Restore(p)
      BY <2>1, <3>6, <3>8 DEF Placing!Restore, At
    <3>10. QED BY <3>9 DEF Placing!Next
  <2>7. QED BY <2>5, <2>6
<1>2. CASE SyncEnroll(p)
  <2>1. /\ UNCHANGED <<home, lost, Phase>> /\ Phase = "serving" /\ unsaved = {}
        /\ ~OffDuty /\ ~IsEnrolled(p)
        /\ \/ UNCHANGED <<where, unsaved>>
           \/ /\ where' = [where EXCEPT ![p] = TargetDir(p)] /\ Live(p)
              /\ unsaved' = {p} /\ p \in todo /\ pc = "sync"
    BY <1>2 DEF SyncEnroll, AtSync, Phase, OffDuty
  <2>2. CASE UNCHANGED <<where, unsaved>>
    BY <2>1, <2>2, AllStandStill DEF Placing!vars, At
  <2>3. CASE /\ where' = [where EXCEPT ![p] = TargetDir(p)] /\ Live(p)
             /\ unsaved' = {p} /\ p \in todo /\ pc = "sync"
    <3>1. /\ where'[p] = TargetDir(p)
          /\ \A q \in Pid \ {p} : where'[q] = where[q]
      BY <2>3 DEF HomeInv, TypeInv, TypeOK
    <3>2. TargetDir(p) \in Dir
      BY <2>3, RuleAssumption
         DEF TargetDir, HomeInv, TypeInv, Named, ScannedPids, TypeOK
    <3>3. \A q \in Pid \ {p} : Standing(q)' = Standing(q)
      BY <2>1, <3>1, StandsStill
    <3>4. Live(p)' BY <3>1, <3>2, Places DEF Live
    <3>5. CASE p \in lost
      <4>1. Standing(p) = "lost" /\ Standing(p)' = "lost"
        BY <2>1, <2>3, <3>4, <3>5, Standings, StandingsNext
      <4>2. At' = At BY <3>3, <4>1 DEF At
      <4>3. Placing!Record(p)
        BY <2>1, <2>3, <4>1, <4>2 DEF Placing!Record, Placing!Touch, At
      <4>4. QED BY <4>3 DEF Placing!Next
    <3>6. CASE p \notin lost
      <4>1. where[p] \notin Dir
        BY <2>1, <3>6 DEF HomeInv, IndInv, TableIsTrue
      <4>2. Standing(p) = "home" BY <2>3, <3>6, <4>1, Standings, StandingsNext
      <4>3. Standing(p)' = "held"
        BY <2>1, <3>1, <3>2, <3>4, <3>6, Standings, StandingsNext
      <4>4. At' = [At EXCEPT ![p] = "held"] BY <3>3, <4>3, OneMoves
      <4>5. Placing!Take(p)
        BY <2>1, <2>3, <4>2, <4>4 DEF Placing!Take, Placing!Touch, At
      <4>6. QED BY <4>5 DEF Placing!Next
    <3>7. QED BY <3>5, <3>6
  <2>4. QED BY <2>1, <2>2, <2>3
<1>3. CASE SyncMoveOut(p)
  <2>1. /\ UNCHANGED <<home, lost, Phase>> /\ Phase = "serving" /\ unsaved = {}
        /\ IsEnrolled(p) /\ Unenroll(p)
    BY <1>3 DEF SyncMoveOut, AtSync, Phase
  <2>2. Placing!Return(p) \/ Placing!Record(p) BY <2>1, UnenrollPlaced
  <2>3. QED BY <2>2 DEF Placing!Next
<1>4. CASE SyncRelease(p)
  <2>1. UNCHANGED <<home, lost, Phase>> /\ Phase = "serving" /\ unsaved = {}
    BY <1>4 DEF SyncRelease, AtSync, Phase
  <2>2. CASE IsEnrolled(p)
    <3>1. Placing!Return(p) \/ Placing!Record(p)
      BY <1>4, <2>1, <2>2, UnenrollPlaced DEF SyncRelease
    <3>2. QED BY <3>1 DEF Placing!Next
  <2>3. CASE ~IsEnrolled(p)
    BY <1>4, <2>1, <2>3, AllStandStill DEF SyncRelease, Placing!vars, At
  <2>4. QED BY <2>2, <2>3
<1>5. CASE StopRelease(p)
  <2>1. /\ UNCHANGED <<home, lost, Phase>> /\ Phase = "ending" /\ unsaved = {}
        /\ IsEnrolled(p) /\ Unenroll(p)
    BY <1>5 DEF StopRelease, Phase, HomeInv, IndInv, StopVisitsAll, EnrolledPids
  <2>2. Placing!Return(p) \/ Placing!Record(p) BY <2>1, UnenrollPlaced
  <2>3. QED BY <2>2 DEF Placing!Next
<1>6. QED BY <1>1, <1>2, <1>3, <1>4, <1>5

\* A kill loses whom it finds moved and not on disk.
LEMMA CrashPlaced ==
  ASSUME HomeInv, HomeInv', Crash
  PROVE  Placing!Kill
<1>1. /\ UNCHANGED <<where, home>> /\ unsaved' = {}
      /\ lost' = lost \cup {p \in unsaved : where[p] \in Dir}
  BY DEF Crash, kernel
<1>2. Phase \in {"recovering", "serving", "ending"} /\ Phase' = "killed"
  BY DEF Crash, Up, Phase
<1>3. ASSUME NEW p \in Pid
      PROVE  Standing(p)' = IF p \in unsaved /\ Standing(p) = "held"
                            THEN "lost" ELSE Standing(p)
  <2>1. Live(p)' <=> Live(p) BY <1>1 DEF Live
  <2>2. p \in lost' <=> p \in lost \/ (p \in unsaved /\ where[p] \in Dir)
    BY <1>1
  <2>3. CASE p \in unsaved /\ Live(p) /\ where[p] \in Dir /\ p \notin lost
    <3>1. Standing(p) = "held" BY <2>3, Standings, StandingsNext
    <3>2. Standing(p)' = "lost" BY <2>1, <2>2, <2>3, Standings, StandingsNext
    <3>3. QED BY <2>3, <3>1, <3>2
  <2>4. CASE ~Live(p)
    <3>1. Standing(p) = "out" /\ Standing(p)' = "out"
      BY <2>1, <2>4, Standings, StandingsNext
    <3>2. QED BY <3>1
  <2>5. CASE Live(p) /\ ~(p \in unsaved /\ where[p] \in Dir /\ p \notin lost)
    <3>1. Standing(p)' = Standing(p) BY <1>1, <2>2, <2>5, StandsStill
    <3>2. p \in unsaved => Standing(p) # "held"
      BY <2>5, Standings, StandingsNext
    <3>3. QED BY <3>1, <3>2
  <2>6. QED BY <2>3, <2>4, <2>5
<1>4. unsaved \subseteq Pid BY DEF HomeInv, TypeInv, TypeOK
<1>5. At' = [p \in Pid |-> IF p \in unsaved \cap {q \in Pid : At[q] = "held"}
                           THEN "lost" ELSE At[p]]
  BY <1>3 DEF At
<1>6. QED BY <1>1, <1>2, <1>5 DEF Placing!Kill, Placing!Held, At

\* Only processes are lost: the daemon ends nobody.
LostLive == \A p \in lost : Live(p)

LEMMA LostInductive ==
  ASSUME HomeInv, LostLive, [Next]_vars
  PROVE  LostLive'
<1> USE DEF HomeInv, TypeInv, kernel
<1>1. CASE Daemon
  <2>1. lost' = lost
    BY <1>1 DEF Daemon, Recovered, BeginPoll, Persist, EndSync, EndSweep, EndPoll,
       Stopped, RecoverOrphan, Forget, StopRelease, SyncKeep, SyncMoveOut,
       SyncEnroll, SyncRelease, SweepDir
  <2>2. ASSUME NEW p \in Pid, IsEnrolled(p), Unenroll(p), NEW q \in lost
        PROVE  Live(q)'
    <3>1. enrolled[p].origin # Gone
      BY <2>2, PlaceAssumption DEF TypeOK, Enrolled, IsEnrolled, Cgroup
    <3>2. QED BY <2>2, <3>1 DEF Unenroll, LostLive, Live, TypeOK
  <2>3. CASE Recovered \/ BeginPoll \/ Persist \/ EndSync \/ EndSweep \/ EndPoll
             \/ Stopped \/ \E p \in Pid : Forget(p) \/ SyncKeep(p)
    <3>1. where' = where
      BY <2>3 DEF Recovered, BeginPoll, Persist, EndSync, EndSweep, EndPoll,
         Stopped, Forget, SyncKeep
    <3>2. QED BY <2>1, <3>1 DEF LostLive, Live
  <2>4. ASSUME NEW p \in Pid, RecoverOrphan(p) PROVE LostLive'
    <3>1. \/ where' = where
          \/ /\ where' = [where EXCEPT ![p] = saved[p].origin]
             /\ IsOrphan(p) /\ Live(p)
      BY <2>4 DEF RecoverOrphan, CanMove
    <3>2. saved[p] # Absent
      BY <2>4 DEF RecoverOrphan, IndInv, FileLeadsHome, OffDuty, RecordedPids
    <3>3. saved[p].origin # Gone
      BY <3>2, PlaceAssumption DEF TypeOK, Saved, Cgroup
    <3>4. QED BY <2>1, <3>1, <3>3 DEF LostLive, Live, TypeOK
  <2>5. ASSUME NEW p \in Pid, StopRelease(p) \/ SyncMoveOut(p) \/ SyncRelease(p)
        PROVE  LostLive'
    <3>1. \/ IsEnrolled(p) /\ Unenroll(p)
          \/ where' = where
      BY <2>5 DEF StopRelease, SyncMoveOut, SyncRelease, IndInv, StopVisitsAll,
                  EnrolledPids
    <3>2. QED BY <2>1, <2>2, <3>1 DEF LostLive, Live
  <2>6. ASSUME NEW p \in Pid, SyncEnroll(p) PROVE LostLive'
    <3>1. TargetDir(p) # Gone
      BY <2>6, RuleAssumption, Places
         DEF SyncEnroll, AtSync, TargetDir, Named, ScannedPids, TypeOK
    <3>2. QED BY <2>1, <2>6, <3>1 DEF SyncEnroll, LostLive, Live, TypeOK
  <2>7. ASSUME NEW d \in Dir, SweepDir(d) PROVE LostLive'
    <3>1. Strays # Gone BY PlaceAssumption
    <3>2. QED BY <2>1, <2>7, <3>1 DEF SweepDir, LostLive, Live, TypeOK
  <2>8. QED BY <1>1, <2>3, <2>4, <2>5, <2>6, <2>7 DEF Daemon
<1>2. CASE Operator
  BY <1>2, Places DEF Operator, Start, Stop, Crash, LostLive, Live
<1>3. CASE Environment
  <2>1. \A o \in Origin : o # Gone BY Places
  <2>2. QED BY <1>3, <2>1 DEF Environment, LoseCpu, Exit, Exec, Relocate, Spawn, Fork,
          Vanish, SetRule, LostLive, Live, TypeOK
<1>4. CASE UNCHANGED vars BY <1>4 DEF vars, LostLive, Live
<1>5. QED BY <1>1, <1>2, <1>3, <1>4 DEF Next

\* Others start and end processes, one at a time.
LEMMA EnvironmentPlaced ==
  ASSUME HomeInv, HomeInv', LostLive, Undisrupted, Environment
  PROVE  [Placing!Next]_(Placing!vars)
<1> USE DEF manager, cycle, kernel
<1>1. UNCHANGED <<unsaved, Phase>>
  BY DEF Environment, LoseCpu, Exit, Exec, Relocate, Spawn, Fork, Vanish, SetRule,
     Phase
<1>2. CASE \/ LoseCpu \/ \E p \in Pid, n \in Name : Exec(p, n)
           \/ \E n \in Name, r \in Limits \cup {NoRule} : SetRule(n, r)
  <2>1. UNCHANGED <<where, home, lost>>
    BY <1>2 DEF LoseCpu, Exec, SetRule
  <2>2. QED BY <1>1, <2>1, AllStandStill DEF Placing!vars, At
<1>3. ASSUME NEW p \in Pid, Exit(p) PROVE [Placing!Next]_(Placing!vars)
  <2>1. /\ Live(p) /\ ~Live(p)'
        /\ \A q \in Pid \ {p} : /\ where'[q] = where[q] /\ home'[q] = home[q]
                                /\ q \in lost' <=> q \in lost
    BY <1>3 DEF Exit, Live, HomeInv, TypeInv, TypeOK
  <2>2. Standing(p) # "out" BY <2>1, Standings, StandingsNext
  <2>3. Standing(p)' = "out" BY <2>1, Standings, StandingsNext
  <2>4. \A q \in Pid \ {p} : Standing(q)' = Standing(q) BY <2>1, StandsStill
  <2>5. At' = [At EXCEPT ![p] = "out"] BY <2>3, <2>4, OneMoves
  <2>6. Placing!Leave(p) BY <1>1, <2>2, <2>5 DEF Placing!Leave, At
  <2>7. QED BY <2>6 DEF Placing!Next
<1>4. ASSUME NEW p \in Pid, NEW n \in Name, NEW o \in Origin, Spawn(p, n, o)
      PROVE  [Placing!Next]_(Placing!vars)
  <2>1. /\ ~Live(p) /\ where'[p] = o /\ home'[p] = o /\ lost' = lost
        /\ \A q \in Pid \ {p} : where'[q] = where[q] /\ home'[q] = home[q]
    BY <1>4 DEF Spawn, Fresh, HomeInv, TypeInv, TypeOK
  <2>2. Standing(p) = "out" BY <2>1, Standings, StandingsNext
  <2>3. p \notin lost' BY <2>1 DEF LostLive
  <2>4. Live(p)' /\ where'[p] \notin Dir BY <2>1, Places DEF Live
  <2>5. Standing(p)' = "home" BY <2>3, <2>4, Standings, StandingsNext
  <2>6. \A q \in Pid \ {p} : Standing(q)' = Standing(q) BY <2>1, StandsStill
  <2>7. At' = [At EXCEPT ![p] = "home"] BY <2>5, <2>6, OneMoves
  <2>8. Placing!Come(p) BY <1>1, <2>2, <2>7 DEF Placing!Come, At
  <2>9. QED BY <2>8 DEF Placing!Next
<1>5. /\ \A p, q \in Pid : ~Fork(p, q)
      /\ \A o \in Origin : ~Vanish(o) /\ \A p \in Pid : ~Relocate(p, o)
  BY DEF Undisrupted, Disruptive, Fork, Relocate, Vanish
<1>6. QED BY <1>2, <1>3, <1>4, <1>5 DEF Environment

\* Placed, for any number of processes, rules and directories: short of the
\* disruptive faults, the manager keeps the promises of Placement, through
\* kills and restarts at any point.
THEOREM ManagerPlaces ==
  ASSUME Undisrupted PROVE Spec => Placed
<1>1. Init => Placing!Init
  <2> SUFFICES ASSUME Init PROVE Placing!Init
    OBVIOUS
  <2>1. \A p \in Pid : Standing(p) = "out" BY DEF Init, Standing, Live
  <2>2. Phase = "off" /\ unsaved = {} BY DEF Init, Phase
  <2>3. QED BY <2>1, <2>2 DEF Placing!Init
<1>2. Init => HomeInv /\ LostLive BY HomeInit DEF Init, LostLive
<1>3. HomeInv /\ LostLive /\ [Next]_vars => (HomeInv /\ LostLive)'
  BY HomeInductive, LostInductive
<1>4. HomeInv /\ LostLive /\ HomeInv' /\ [Next]_vars =>
        [Placing!Next]_(Placing!vars)
  <2> SUFFICES ASSUME HomeInv, LostLive, HomeInv', [Next]_vars
               PROVE  [Placing!Next]_(Placing!vars)
    OBVIOUS
  <2>1. CASE Daemon BY <2>1, QuietPlaced, VisitPlaced DEF Daemon
  <2>2. CASE Start \/ Stop BY <2>2, QuietPlaced
  <2>3. CASE Crash
    <3>1. Placing!Kill BY <2>3, CrashPlaced
    <3>2. QED BY <3>1 DEF Placing!Next
  <2>4. CASE Environment BY <2>4, EnvironmentPlaced
  <2>5. CASE UNCHANGED vars
    <3>1. UNCHANGED <<where, home, lost, unsaved, Phase>>
      BY <2>5 DEF vars, Phase
    <3>2. QED BY <3>1, AllStandStill DEF Placing!vars, At
  <2>6. QED BY <2>1, <2>2, <2>3, <2>4, <2>5 DEF Next, Operator
<1>5. QED BY <1>1, <1>2, <1>3, <1>4, PTL DEF Spec, Placed, Placing!Spec

\* Nobody goes astray, and a daemon that ended holds nobody.
Minded == /\ \A p \in Pid : At[p] # "astray"
          /\ Phase = "off" => \A p \in Pid : At[p] # "held"

LEMMA MindedStep ==
  ASSUME Minded, [Placing!Next]_(Placing!vars)
  PROVE  Minded'
<1> USE DEF Minded, At
<1>h. Placing!Held = {} => \A p \in Pid : At[p] # "held"
  BY DEF Placing!Held
<1>1. CASE UNCHANGED Placing!vars BY <1>1 DEF Placing!vars
<1>2. CASE \/ Placing!Begin \/ Placing!Serve \/ Placing!Save \/ Placing!Close
           \/ Placing!End
  BY <1>2, <1>h DEF Placing!Begin, Placing!Serve, Placing!Save, Placing!Close,
                    Placing!End
<1>3. CASE Placing!Kill BY <1>3 DEF Placing!Kill
<1>4. ASSUME NEW p \in Pid,
             \/ Placing!Come(p) \/ Placing!Leave(p) \/ Placing!Restore(p)
             \/ Placing!Take(p) \/ Placing!Return(p) \/ Placing!Record(p)
      PROVE  Minded'
  <2>1. /\ Phase' = Phase
        /\ \/ UNCHANGED At
           \/ \E s \in {"home", "out"} : At' = [At EXCEPT ![p] = s]
           \/ At' = [At EXCEPT ![p] = "held"] /\ Phase = "serving"
    BY <1>4 DEF Placing!Come, Placing!Leave, Placing!Restore, Placing!Take,
                Placing!Return, Placing!Record, Placing!Touch
  <2>2. QED BY <2>1
<1>5. QED BY <1>1, <1>2, <1>3, <1>4 DEF Placing!Next

\* CleanStop and ParkedAreLost say no more than Placed does, so a run that
\* checks the refinement checks them.
THEOREM PlacementSaysSo ==
  []TypeOK /\ Placed => [](CleanStop /\ ParkedAreLost)
<1>1. Placing!Init => Minded
  BY DEF Placing!Init, Minded, At
<1>2. Minded /\ [Placing!Next]_(Placing!vars) => Minded'
  BY MindedStep
<1>3. TypeOK /\ Minded => CleanStop /\ ParkedAreLost
  <2> SUFFICES ASSUME TypeOK, Minded PROVE CleanStop /\ ParkedAreLost
    OBVIOUS
  <2>1. \A p \in Pid : Standing(p) # "astray" BY DEF Minded, At
  <2>2. CleanStop
    <3>1. pc = "stopped" => \A p \in Pid : Standing(p) # "held"
      BY DEF Minded, At, Phase
    <3>2. QED BY <2>1, <3>1 DEF CleanStop, Standing
  <2>3. ParkedAreLost
    <3>1. \A p \in Pid : where[p] = Strays =>
            Live(p) /\ where[p] \notin Dir /\ where[p] # home[p]
      BY PlaceAssumption, AbsentAssumption DEF TypeOK, Live
    <3>2. QED BY <2>1, <3>1 DEF ParkedAreLost, Standing
  <2>4. QED BY <2>2, <2>3
<1>4. QED BY <1>1, <1>2, <1>3, PTL DEF Placed, Placing!Spec

----------------------------------------------------------------------------
(* The state file under every fault.                                       *)

\* The file is the table, but for one process at most, unless the last write of
\* it failed.
SaveInv == /\ ~stale => FileIsTable
           /\ StopVisitsAll
           /\ OffDuty => enrolled = Nobody /\ unsaved = {}
           /\ \A p, q \in unsaved : p = q

\* What a visit of p by the daemon does to the table and to the file.
Touches(p) ==
  /\ ~OffDuty /\ unsaved = {} /\ UNCHANGED <<pc, saved, stale>>
  /\ pc = "stopping" => todo' = todo \ {p} /\ enrolled'[p] = Absent
  /\ \A q \in Pid \ {p} : enrolled'[q] = enrolled[q]
  /\ unsaved' = {p} \/ (unsaved' = {} /\ Record(p)' = Record(p))

LEMMA TouchesKeeps ==
  ASSUME TypeInv, SaveInv, NEW p \in Pid, Touches(p)
  PROVE  SaveInv'
BY DEF SaveInv, Touches, FileIsTable, Record, IsEnrolled, StopVisitsAll, EnrolledPids, OffDuty

\* No step of anybody takes the file away from the table.
LEMMA SaveInductive ==
  ASSUME TypeInv, SaveInv, [Next]_vars PROVE SaveInv'
<1> USE DEF SaveInv, StopVisitsAll, kernel, manager, cycle
<1>1. CASE Start \/ Stop \/ Crash
  BY <1>1 DEF Start, Stop, Crash, Up, FileIsTable, OffDuty, Record, IsEnrolled, EnrolledPids,
     Nobody
<1>2. CASE Recovered \/ BeginPoll \/ EndSync \/ EndSweep \/ EndPoll
  BY <1>2 DEF WriteFile, Recovered, BeginPoll, EndSync, EndSweep, EndPoll, FileIsTable, OffDuty,
     Record, IsEnrolled, Nobody
<1>3. CASE Persist BY <1>3 DEF WriteFile, Persist, FileIsTable, OffDuty, Record, IsEnrolled, EnrolledPids
<1>4. CASE Environment
  <2>1. UNCHANGED <<pc, todo, enrolled, unsaved, saved, stale>>
    BY <1>4 DEF Environment, LoseCpu, Exit, Exec, Relocate, Spawn, Fork, Vanish, SetRule
  <2>2. QED BY <2>1 DEF FileIsTable, OffDuty, Record, IsEnrolled, EnrolledPids
<1>5. ASSUME NEW d \in Dir, SweepDir(d) PROVE SaveInv'
  BY <1>5 DEF SweepDir, FileIsTable, OffDuty, Record, IsEnrolled
<1>6. ASSUME NEW p \in Pid, RecoverOrphan(p) PROVE SaveInv'
  BY <1>6 DEF RecoverOrphan, FileIsTable, OffDuty
<1>7. ASSUME NEW p \in Pid, SyncKeep(p) PROVE SaveInv'
  <2>1. enrolled[p] \in Enrolled /\ Wanted(p) \in Limits
    BY <1>7, RuleAssumption DEF SyncKeep, AtSync, IsEnrolled, Wanted, TypeInv, TypeOK, Named,
       ScannedPids
  <2>2. /\ enrolled'[p] = [enrolled[p] EXCEPT !.limits = Wanted(p)]
        /\ \A q \in Pid \ {p} : enrolled'[q] = enrolled[q]
    BY <1>7 DEF SyncKeep, TypeInv, TypeOK
  <2>3. /\ enrolled'[p] \in Enrolled
        /\ enrolled'[p].dir = enrolled[p].dir /\ enrolled'[p].origin = enrolled[p].origin
    BY <2>1, <2>2 DEF Enrolled
  <2>4. enrolled[p] # Absent /\ enrolled'[p] # Absent
    BY <2>1, <2>3, AbsentAssumption DEF Enrolled, Cgroup
  <2>5. Touches(p)
    BY <1>7, <2>2, <2>3, <2>4 DEF SyncKeep, AtSync, OffDuty, Touches, Record, IsEnrolled
  <2>6. QED BY <2>5, TouchesKeeps
<1>8. ASSUME NEW p \in Pid, Unenroll(p), unsaved = {}, ~OffDuty, UNCHANGED <<pc, saved, stale>>,
             pc = "stopping" => todo' = todo \ {p}
      PROVE  SaveInv'
  <2>1. Touches(p)
    BY <1>8 DEF Unenroll, OffDuty, Touches, TypeInv, TypeOK
  <2>2. QED BY <2>1, TouchesKeeps
<1>9. ASSUME NEW p \in Pid, SyncMoveOut(p) PROVE SaveInv'
  BY <1>8, <1>9 DEF SyncMoveOut, AtSync, OffDuty
<1>10. ASSUME NEW p \in Pid, StopRelease(p) PROVE SaveInv'
  BY <1>8, <1>10 DEF StopRelease, OffDuty
<1>11. ASSUME NEW p \in Pid, SyncRelease(p) PROVE SaveInv'
  <2>1. CASE IsEnrolled(p) BY <1>8, <1>11, <2>1 DEF SyncRelease, AtSync, OffDuty
  <2>2. CASE ~IsEnrolled(p)
    BY <1>11, <2>2 DEF SyncRelease, AtSync, FileIsTable, OffDuty, Record, IsEnrolled
  <2>3. QED BY <2>1, <2>2
<1>12. ASSUME NEW p \in Pid, SyncEnroll(p) \/ Forget(p) PROVE SaveInv'
  <2>1. \/ Touches(p)
        \/ pc # "stopping" /\ UNCHANGED <<pc, enrolled, unsaved, saved, stale>>
    BY <1>12 DEF SyncEnroll, Forget, AtSync, OffDuty, Touches, TypeInv, TypeOK
  <2>2. QED BY <2>1, TouchesKeeps DEF FileIsTable, OffDuty, Record, IsEnrolled
<1>13. CASE Stopped
  <2>1. enrolled = Nobody
    BY <1>13 DEF Stopped, EnrolledPids, IsEnrolled, Nobody, TypeInv, TypeOK
  <2>2. QED BY <1>13, <2>1 DEF WriteFile, Stopped, FileIsTable, OffDuty, EnrolledPids, Nobody
<1>14. CASE UNCHANGED vars
  BY <1>14 DEF vars, FileIsTable, OffDuty, Record, IsEnrolled, EnrolledPids
<1>15. QED
  BY <1>1, <1>2, <1>3, <1>4, <1>5, <1>6, <1>7, <1>9, <1>10, <1>11, <1>12, <1>13, <1>14
  DEF Next, Daemon, Operator

\* In a poll, a process in no table is in no file either, whatever faults there
\* were, unless the last write or removal of the file failed: sync_pid's
\* fallback to persisted_origin, meant for the orphans of a crashed run, finds a
\* record only in a file that ought to hold none.
THEOREM FallbackNeedsFailedWrite == Spec => []FallbackMeansStale
<1>1. Init => SaveInv
  BY DEF Init, SaveInv, FileIsTable, StopVisitsAll, OffDuty, Nobody
<1>2. SaveInv => FallbackMeansStale
  BY DEF SaveInv, FallbackMeansStale, FileIsTable, OffDuty, AtSync, Record
<1>3. QED BY <1>1, <1>2, TypeInit, TypeInductive, SaveInductive, PTL DEF Spec

\* Short of the disruptive faults, a kill at any point finds at most one
\* process whose way home is not on disk yet.
THEOREM OneProcessAtRisk ==
  ASSUME Undisrupted PROVE Spec => []OneAtRisk
<1>1. SaveInv /\ OriginsRecorded => OneAtRisk
  BY DEF SaveInv, OriginsRecorded, OneAtRisk
<1>2. Init => SaveInv
  BY DEF Init, SaveInv, FileIsTable, StopVisitsAll, OffDuty, Nobody
<1>3. Spec => []OriginsRecorded BY WayHomeOnDisk
<1>4. QED BY <1>1, <1>2, <1>3, TypeInit, TypeInductive, SaveInductive, PTL DEF Spec

----------------------------------------------------------------------------
(* Limits in force.                                                        *)

\* Each rule has a directory of its own, cpu does not come back by itself, and
\* no process is born in a managed directory under a pid that is still known.
LimitsAssumption ==
  /\ \A m, n \in Name : DirOf[m] = DirOf[n] => m = n
  /\ "blip" \notin Faults /\ ~({"fork", "reuse"} \subseteq Faults)

\* p sits where it was enrolled.
Seated(p) == p \in EnrolledPids /\ where[p] = enrolled[p].dir
Held(p)   == Holds(files[enrolled[p].dir], enrolled[p].limits)

SitsInDirs == \A p \in Pid : Live(p) => where[p] \in dirs

\* In the middle of the sync stage the processes already visited are as their
\* rules want them, and have their limits; those still to be visited have them,
\* if sync_pid is going to believe so.
VisitedAreRight ==
  pc = "sync" =>
    \A p \in Pid \ todo : Seated(p) =>
      /\ scan[p] \in Name /\ Wanted(p) # NoRule
      /\ enrolled[p].dir = TargetDir(p) /\ enrolled[p].limits = Wanted(p)

HeldInSync ==
  pc = "sync" /\ cpuOn =>
    \A p \in Pid : Seated(p) =>
      \/ p \in todo /\ (NeedsRewrite(p) \/ enrolled[p].dir # TargetDir(p))
      \/ Held(p)

HeldAfterSync ==
  pc \in {"sweep", "forget", "idle"} /\ cpuOn => \A p \in Pid : Seated(p) => Held(p)

LimitsInv == /\ OffDuty => enrolled = Nobody
             /\ SitsInDirs /\ VisitedAreRight /\ HeldInSync /\ HeldAfterSync

\* apply_limits, with the controllers there, leaves what Holds asks for, even
\* when it stops at a value the kernel rejects.
LEMMA AppliedHolds ==
  ASSUME NEW f, NEW l PROVE Holds(AfterApply(f, l, TRUE), l)
BY DEF Holds, AfterApply, Written, Planned

\* A step that enrolls nobody, moves nobody into a managed directory where it
\* is enrolled, and takes the files only of directories nobody sits in.
Harmless ==
  /\ cpuOn' => cpuOn
  /\ \A p \in Pid : where'[p] \in dirs' \cup {Gone}
  /\ \A p \in Pid : Seated(p)' =>
       /\ Seated(p) /\ enrolled'[p] = enrolled[p]
       /\ cpuOn' => files'[where[p]] = files[where[p]]

\* Directories that go are empty, and nobody loses his by that.
LEMMA FilesKept ==
  ASSUME NEW D, NEW w, NEW p \in Pid, NEW d \in Dir, w[p] = d,
         files \in [Dir -> CgroupLimits]
  PROVE  FilesWithout(files, Empty(D, w))[d] = files[d]
BY DEF FilesWithout, Empty

LEMMA UnenrollHarmless ==
  ASSUME TypeInv, LimitsInv, NEW p \in Pid, IsEnrolled(p), Unenroll(p), UNCHANGED cpuOn
  PROVE  Harmless
<1> DEFINE w == IF CanMove(p, enrolled[p].origin)
                THEN [where EXCEPT ![p] = enrolled[p].origin] ELSE where
           D == {enrolled[p].dir} \cap dirs
<1>1. /\ where' = w /\ dirs' = dirs \ Empty(D, w)
      /\ files' = FilesWithout(files, Empty(D, w))
      /\ enrolled' = [enrolled EXCEPT ![p] = Absent]
  BY DEF Unenroll, Prune
<1>2. \A q \in Pid : w[q] \in dirs \cup {Gone}
  BY DEF CanMove, Live, LimitsInv, SitsInDirs, TypeInv, TypeOK
<1>3. \A q \in Pid \ {p} : w[q] = where[q] BY DEF TypeInv, TypeOK
<1> HIDE DEF w, D
<1>4. \A q \in Pid : where'[q] \in dirs' \cup {Gone} BY <1>1, <1>2 DEF Empty
<1>5. ASSUME NEW q \in Pid, Seated(q)'
      PROVE  /\ Seated(q) /\ enrolled'[q] = enrolled[q]
             /\ files'[where[q]] = files[where[q]]
  <2>1. q # p /\ enrolled'[q] = enrolled[q] /\ enrolled[q] # Absent
    BY <1>1, <1>5 DEF Seated, EnrolledPids, IsEnrolled, TypeInv, TypeOK
  <2>2. where'[q] = where[q] /\ w[q] = where[q] BY <1>1, <1>3, <2>1
  <2>3. enrolled[q].dir \in Dir BY <2>1 DEF TypeInv, TypeOK, Enrolled
  <2>4. Seated(q) /\ where[q] \in Dir
    BY <1>5, <2>1, <2>2, <2>3 DEF Seated, EnrolledPids, IsEnrolled
  <2>5. files'[where[q]] = files[where[q]]
    <3>1. files \in [Dir -> CgroupLimits] BY DEF TypeInv, TypeOK
    <3>2. FilesWithout(files, Empty(D, w))[where[q]] = files[where[q]]
      BY <2>2, <2>4, <3>1, FilesKept
    <3>3. QED BY <1>1, <3>2
  <2>6. QED BY <2>1, <2>4, <2>5
<1>6. QED BY <1>4, <1>5 DEF Harmless

\* What is harmless keeps the invariant, in the stage it is in.
LEMMA HarmlessKeeps ==
  ASSUME TypeInv, LimitsInv, Harmless, UNCHANGED <<pc, scan, reasserted>>,
         pc = "sync" => UNCHANGED rules,
         ~OffDuty \/ UNCHANGED enrolled,
         pc = "sync" => \A p \in todo \ todo' : ~Seated(p)'
  PROVE  LimitsInv'
<1> USE DEF LimitsInv
<1>1. SitsInDirs' BY DEF SitsInDirs, Harmless, Live
<1>2. (OffDuty => enrolled = Nobody)' BY DEF OffDuty
<1>3. ASSUME NEW p \in Pid, Seated(p)'
      PROVE  /\ Seated(p) /\ enrolled'[p] = enrolled[p]
             /\ cpuOn' => cpuOn /\ Held(p)' = Held(p)
  BY <1>3 DEF Harmless, Seated, Held
<1>4. VisitedAreRight'
  BY <1>3 DEF VisitedAreRight, Wanted, TargetDir
<1>5. HeldInSync'
  <2> SUFFICES ASSUME pc = "sync", cpuOn', NEW p \in Pid, Seated(p)', ~Held(p)'
               PROVE  p \in todo' /\ (NeedsRewrite(p) \/ enrolled[p].dir # TargetDir(p))'
    BY DEF HeldInSync
  <2>1. Seated(p) /\ enrolled'[p] = enrolled[p] /\ cpuOn /\ ~Held(p) BY <1>3
  <2>2. p \in todo /\ (NeedsRewrite(p) \/ enrolled[p].dir # TargetDir(p))
    BY <2>1 DEF HeldInSync
  <2>3. p \in todo' BY <2>2
  <2>4. QED BY <2>1, <2>2, <2>3 DEF NeedsRewrite, Wanted, TargetDir
<1>6. HeldAfterSync' BY <1>3 DEF HeldAfterSync
<1>7. QED BY <1>1, <1>2, <1>4, <1>5, <1>6

\* The steps that only take the thread to its next stage.
LEMMA LimitsBasics ==
  ASSUME TypeInv, SaveInv, LimitsInv,
         \/ Start \/ Recovered \/ BeginPoll \/ Persist \/ EndSync \/ EndSweep
         \/ EndPoll \/ Stop \/ Stopped \/ Crash
  PROVE  LimitsInv'
<1> USE DEF LimitsInv, kernel, manager, cycle, Seated, EnrolledPids, IsEnrolled
<1>1. CASE Start \/ Crash
  BY <1>1 DEF Start, Crash, Up, OffDuty, SitsInDirs, Live, VisitedAreRight, HeldInSync,
     HeldAfterSync
<1>2. CASE Recovered
  BY <1>2 DEF Recovered, OffDuty, SitsInDirs, Live, VisitedAreRight, HeldInSync,
     HeldAfterSync, Nobody
<1>3. CASE BeginPoll
  <2>1. /\ pc = "idle" /\ pc' = "sync" /\ UNCHANGED <<where, dirs, files, enrolled>>
        /\ todo' = {p \in Pid : Live(p)}
    BY <1>3 DEF BeginPoll
  <2>2. cpuOn' => cpuOn \/ reasserted'
    BY <1>3, Zenon DEF BeginPoll, EnsureControllers
  <2>3. \A p \in Pid : Seated(p) => p \in todo'
    BY <2>1, Places DEF Live, TypeInv, TypeOK, Enrolled
  <2>4. HeldInSync'
    BY <2>1, <2>2, <2>3 DEF HeldInSync, HeldAfterSync, NeedsRewrite, Held
  <2>5. QED
    BY <2>1, <2>3, <2>4 DEF OffDuty, SitsInDirs, Live, VisitedAreRight, HeldAfterSync
<1>4. CASE Persist
  BY <1>4 DEF Persist, OffDuty, SitsInDirs, Live, VisitedAreRight, HeldInSync, HeldAfterSync,
     NeedsRewrite, Wanted, TargetDir, Held
<1>5. CASE EndSync
  BY <1>5 DEF EndSync, OffDuty, SitsInDirs, Live, VisitedAreRight, HeldInSync, HeldAfterSync,
     Held
<1>6. CASE EndSweep
  <2> DEFINE D == (Dir \cap dirs) \ created
  <2>1. /\ pc = "sweep" /\ pc' = "forget" /\ UNCHANGED <<where, cpuOn, enrolled>>
        /\ dirs' = dirs \ Empty(D, where) /\ files' = FilesWithout(files, Empty(D, where))
    BY <1>6 DEF EndSweep
  <2> HIDE DEF D
  <2>2. \A p \in Pid : Seated(p) => files'[enrolled[p].dir] = files[enrolled[p].dir]
    BY <2>1, FilesKept DEF TypeInv, TypeOK, Enrolled
  <2>3. SitsInDirs' BY <2>1 DEF SitsInDirs, Live, Empty
  <2>4. HeldAfterSync' BY <2>1, <2>2 DEF HeldAfterSync, Held
  <2>5. QED BY <2>1, <2>3, <2>4 DEF OffDuty, VisitedAreRight, HeldInSync
<1>7. CASE EndPoll \/ Stop
  BY <1>7 DEF EndPoll, Stop, OffDuty, SitsInDirs, Live, VisitedAreRight, HeldInSync,
     HeldAfterSync, Held
<1>8. CASE Stopped
  <2>1. enrolled = Nobody
    BY <1>8 DEF Stopped, SaveInv, StopVisitsAll, Nobody, TypeInv, TypeOK
  <2>2. QED BY <1>8, <2>1 DEF Stopped, OffDuty, SitsInDirs, Live, VisitedAreRight, HeldInSync,
        HeldAfterSync
<1>9. QED BY <1>1, <1>2, <1>3, <1>4, <1>5, <1>6, <1>7, <1>8

\* Nobody's limits change when the daemon lets go of a process, sweeps or
\* recovers.
LEMMA LimitsLetGo ==
  ASSUME TypeInv, LimitsInv,
         \/ \E p \in Pid : \/ RecoverOrphan(p) \/ SyncMoveOut(p) \/ SyncRelease(p)
                           \/ Forget(p) \/ (StopRelease(p) /\ IsEnrolled(p))
         \/ \E d \in Dir : SweepDir(d)
  PROVE  LimitsInv'
<1> USE DEF cycle
<1>1. \A p \in Pid : Live(p) => where[p] \in dirs BY DEF LimitsInv, SitsInDirs
<1>2. ASSUME NEW p \in Pid, RecoverOrphan(p) PROVE LimitsInv'
  <2> DEFINE w == IF IsOrphan(p) /\ CanMove(p, saved[p].origin)
                  THEN [where EXCEPT ![p] = saved[p].origin] ELSE where
  <2>1. /\ where' = w /\ UNCHANGED <<enrolled, cpuOn, pc, scan, reasserted, rules>>
        /\ pc = "recover"
        /\ dirs' = dirs \/ \E d : dirs' = dirs \ Empty({d} \cap dirs, w)
    BY <1>2 DEF RecoverOrphan, Prune
  <2>2. \A q \in Pid : w[q] \in dirs \cup {Gone}
    BY <1>1 DEF CanMove, Live, TypeInv, TypeOK
  <2> HIDE DEF w
  <2>3. \A q \in Pid : where'[q] \in dirs' \cup {Gone} BY <2>1, <2>2 DEF Empty
  <2>4. \A q \in Pid : ~Seated(q)'
    BY <2>1 DEF LimitsInv, OffDuty, Seated, EnrolledPids, IsEnrolled, Nobody
  <2>5. Harmless BY <2>1, <2>3, <2>4 DEF Harmless
  <2>6. QED BY <2>1, <2>5, HarmlessKeeps
<1>3. ASSUME NEW p \in Pid, IsEnrolled(p), Unenroll(p),
             UNCHANGED <<cpuOn, pc, scan, reasserted, rules>>, ~OffDuty,
             todo' = todo \/ todo' = todo \ {p}
      PROVE  LimitsInv'
  <2>1. ~Seated(p)'
    BY <1>3 DEF Unenroll, Seated, EnrolledPids, IsEnrolled, TypeInv, TypeOK
  <2>2. QED BY <1>3, <2>1, UnenrollHarmless, HarmlessKeeps
<1>4. ASSUME NEW p \in Pid, SyncMoveOut(p) PROVE LimitsInv'
  BY <1>3, <1>4 DEF SyncMoveOut, AtSync, OffDuty
<1>5. ASSUME NEW p \in Pid, StopRelease(p), IsEnrolled(p) PROVE LimitsInv'
  BY <1>3, <1>5 DEF StopRelease, OffDuty
<1>6. ASSUME NEW p \in Pid, SyncRelease(p) PROVE LimitsInv'
  <2>1. CASE IsEnrolled(p) BY <1>3, <1>6, <2>1 DEF SyncRelease, AtSync, OffDuty
  <2>2. CASE ~IsEnrolled(p)
    <3>1. /\ UNCHANGED <<where, dirs, files, enrolled, cpuOn, pc, scan, reasserted, rules>>
          /\ pc = "sync" /\ todo' = todo \ {p}
      BY <1>6, <2>2 DEF SyncRelease, AtSync
    <3>2. Harmless BY <1>1, <3>1 DEF Harmless, Live, Seated, EnrolledPids, IsEnrolled
    <3>3. ~Seated(p)' BY <2>2, <3>1 DEF Seated, EnrolledPids, IsEnrolled
    <3>4. QED BY <3>1, <3>2, <3>3, HarmlessKeeps DEF OffDuty
  <2>3. QED BY <2>1, <2>2
<1>7. ASSUME NEW p \in Pid, Forget(p) PROVE LimitsInv'
  <2>1. /\ pc = "forget" /\ UNCHANGED <<where, cpuOn, pc, scan, reasserted, rules>>
    BY <1>7 DEF Forget
  <2>2. Harmless
    <3>1. CASE IsEnrolled(p)
      <4> DEFINE D == {enrolled[p].dir} \cap dirs
      <4>1. /\ dirs' = dirs \ Empty(D, where) /\ files' = FilesWithout(files, Empty(D, where))
            /\ enrolled' = [enrolled EXCEPT ![p] = Absent]
        BY <1>7, <3>1 DEF Forget, Prune
      <4> HIDE DEF D
      <4>2. \A q \in Pid : where'[q] \in dirs' \cup {Gone}
        BY <1>1, <2>1, <4>1 DEF Empty, Live
      <4>3. ASSUME NEW q \in Pid, Seated(q)'
            PROVE  /\ Seated(q) /\ enrolled'[q] = enrolled[q]
                   /\ files'[where[q]] = files[where[q]]
        <5>1. enrolled'[q] = enrolled[q] /\ Seated(q)
          BY <2>1, <4>1, <4>3 DEF Seated, EnrolledPids, IsEnrolled, TypeInv, TypeOK
        <5>2. where[q] \in Dir
          BY <5>1 DEF Seated, EnrolledPids, IsEnrolled, TypeInv, TypeOK, Enrolled
        <5>3. QED BY <4>1, <5>1, <5>2, FilesKept DEF TypeInv, TypeOK
      <4>4. QED BY <2>1, <4>2, <4>3 DEF Harmless
    <3>2. CASE ~IsEnrolled(p)
      BY <1>1, <1>7, <3>2 DEF Forget, Harmless, Live, Seated, EnrolledPids, IsEnrolled
    <3>3. QED BY <3>1, <3>2
  <2>3. QED BY <2>1, <2>2, HarmlessKeeps DEF OffDuty
<1>8. ASSUME NEW d \in Dir, SweepDir(d) PROVE LimitsInv'
  <2>1. /\ pc = "sweep"
        /\ UNCHANGED <<cpuOn, pc, scan, reasserted, rules, enrolled, todo>>
    BY <1>8 DEF SweepDir
  <2>2. Harmless
    <3>1. CASE d \in dirs
      <4> DEFINE strays == StraysIn(d)
                 w == [p \in Pid |-> IF p \in strays THEN Strays ELSE where[p]]
                 D == {d, Strays}
      <4>1. /\ where' = w
            /\ dirs' = (dirs \cup {c \in {Strays} : strays # {}}) \ Empty(D, w)
            /\ files' = FilesWithout(files, Empty(D, w))
        BY <1>8, <3>1 DEF SweepDir
      <4>2. \A q \in Pid : w[q] = IF q \in strays THEN Strays ELSE where[q] OBVIOUS
      <4>3. \A q \in strays : enrolled[q] = Absent BY DEF StraysIn, IsEnrolled
      <4> HIDE DEF strays, w, D
      <4>4. \A q \in Pid : where'[q] \in dirs' \cup {Gone}
        BY <1>1, <4>1, <4>2 DEF Empty, Live
      <4>5. ASSUME NEW q \in Pid, Seated(q)'
            PROVE  /\ Seated(q) /\ enrolled'[q] = enrolled[q]
                   /\ files'[where[q]] = files[where[q]]
        <5>1. enrolled[q] # Absent /\ where'[q] = where[q] /\ w[q] = where[q]
          BY <2>1, <4>1, <4>2, <4>3, <4>5 DEF Seated, EnrolledPids, IsEnrolled
        <5>2. Seated(q) /\ where[q] \in Dir
          BY <2>1, <4>5, <5>1 DEF Seated, EnrolledPids, IsEnrolled, TypeInv, TypeOK, Enrolled
        <5>3. files \in [Dir -> CgroupLimits] BY DEF TypeInv, TypeOK
        <5>4. files'[where[q]] = files[where[q]]
          BY <4>1, <5>1, <5>2, <5>3, FilesKept
        <5>5. QED BY <2>1, <5>2, <5>4
      <4>6. QED BY <2>1, <4>4, <4>5 DEF Harmless
    <3>2. CASE d \notin dirs
      BY <1>1, <1>8, <3>2 DEF SweepDir, Harmless, Live, Seated, EnrolledPids, IsEnrolled
    <3>3. QED BY <3>1, <3>2
  <2>3. QED BY <2>1, <2>2, HarmlessKeeps DEF OffDuty
<1>9. QED BY <1>2, <1>4, <1>5, <1>6, <1>7, <1>8

\* What others do leaves a process where it is, or takes it out of the daemon's
\* directories; and a controller that is taken away is missed.
LEMMA LimitsEnvironment ==
  ASSUME TypeInv, LimitsInv, LimitsAssumption, Environment
  PROVE  LimitsInv'
<1> USE DEF manager, cycle
<1>1. /\ \A p \in Pid : Live(p) => where[p] \in dirs
      /\ \A p \in Pid : where[p] \in dirs \cup {Gone}
  BY DEF LimitsInv, SitsInDirs, Live
<1>2. UNCHANGED <<pc, todo, scan, reasserted, enrolled>>
  BY DEF Environment, LoseCpu, Exit, Exec, Relocate, Spawn, Fork, Vanish, SetRule
<1>3. pc = "sync" => UNCHANGED rules
  BY DEF Environment, LoseCpu, Exit, Exec, Relocate, Spawn, Fork, Vanish, SetRule
<1>4. \A p \in EnrolledPids : enrolled[p].dir \in Dir
  BY DEF EnrolledPids, IsEnrolled, TypeInv, TypeOK, Enrolled
<1>5. Harmless
  <2> USE <1>1, <1>2, <1>4 DEF Harmless, Seated, EnrolledPids, IsEnrolled
  <2>1. CASE LoseCpu
    <3>1. ~cpuOn' BY <2>1 DEF LoseCpu, LimitsAssumption
    <3>2. QED BY <2>1, <3>1 DEF LoseCpu
  <2>2. ASSUME NEW p \in Pid, Exit(p) PROVE Harmless
    BY <2>2, Places DEF Exit, TypeInv, TypeOK
  <2>3. ASSUME NEW p \in Pid, NEW n \in Name, Exec(p, n) PROVE Harmless
    BY <2>3 DEF Exec
  <2>4. ASSUME NEW p \in Pid, NEW o \in Origin, Relocate(p, o) PROVE Harmless
    BY <2>4, Places DEF Relocate, TypeInv, TypeOK
  <2>5. ASSUME NEW p \in Pid, NEW n \in Name, NEW o \in Origin, Spawn(p, n, o) PROVE Harmless
    BY <2>5, Places DEF Spawn, TypeInv, TypeOK
  <2>6. ASSUME NEW p \in Pid, NEW q \in Pid, Fork(p, q) PROVE Harmless
    <3>1. ~IsEnrolled(q) BY <2>6 DEF Fork, Fresh, LimitsAssumption
    <3>2. where' = [where EXCEPT ![q] = where[p]] /\ UNCHANGED <<dirs, files, cpuOn>>
      BY <2>6 DEF Fork
    <3>3. QED BY <3>1, <3>2 DEF TypeInv, TypeOK
  <2>7. ASSUME NEW o \in Origin, Vanish(o) PROVE Harmless
    BY <2>7 DEF Vanish, Empty
  <2>8. ASSUME NEW n \in Name, NEW r \in Limits \cup {NoRule}, SetRule(n, r) PROVE Harmless
    BY <2>8 DEF SetRule, kernel
  <2>9. QED BY <2>1, <2>2, <2>3, <2>4, <2>5, <2>6, <2>7, <2>8 DEF Environment
<1>6. QED BY <1>2, <1>3, <1>5, HarmlessKeeps

\* In one poll two processes that belong into one directory have one rule, so
\* limits written for the one are right for the other: sync_pid of p, which
\* writes, or finds that what is there is right, leaves everybody held.
LEMMA LimitsSync ==
  ASSUME TypeInv, LimitsInv, LimitsAssumption, NEW p \in Pid, SyncKeep(p) \/ SyncEnroll(p)
  PROVE  LimitsInv'
<1> DEFINE d == TargetDir(p)
<1>1. /\ pc = "sync" /\ p \in todo /\ todo' = todo \ {p} /\ Wanted(p) # NoRule
      /\ UNCHANGED <<pc, scan, rules, reasserted, cpuOn>>
  BY DEF SyncKeep, SyncEnroll, AtSync
<1>2. /\ scan[p] \in Name /\ d \in Dir /\ Wanted(p) \in Limits
  BY <1>1, RuleAssumption DEF Wanted, TargetDir, TypeInv, TypeOK, Named, ScannedPids
<1>3. /\ \A q \in Pid \ {p} : where'[q] = where[q] /\ enrolled'[q] = enrolled[q]
      /\ dirs \subseteq dirs'
      /\ where'[p] \in dirs' \cup {Gone}
      /\ Seated(p)' => /\ enrolled'[p].dir = d /\ enrolled'[p].limits = Wanted(p)
  <2>1. where[p] \in dirs \cup {Gone} BY DEF LimitsInv, SitsInDirs, Live
  <2>2. CASE SyncKeep(p)
    <3>1. UNCHANGED <<where, dirs>> /\ enrolled[p] \in Enrolled /\ enrolled[p].dir = d
      BY <2>2 DEF SyncKeep, IsEnrolled, TypeInv, TypeOK
    <3>2. enrolled' = [enrolled EXCEPT ![p].limits = Wanted(p)] BY <2>2 DEF SyncKeep
    <3>3. \A q \in Pid \ {p} : enrolled'[q] = enrolled[q] BY <3>2 DEF TypeInv, TypeOK
    <3>4. enrolled'[p] = [enrolled[p] EXCEPT !.limits = Wanted(p)]
      BY <3>2 DEF TypeInv, TypeOK
    <3>5. enrolled'[p].dir = d /\ enrolled'[p].limits = Wanted(p)
      BY <3>1, <3>4 DEF Enrolled
    <3>6. QED BY <2>1, <3>1, <3>3, <3>5
  <2>3. CASE SyncEnroll(p)
    <3>1. dirs' = dirs \cup {d} BY <2>3 DEF SyncEnroll
    <3>2. CASE UNCHANGED <<where, enrolled>>
      BY <2>1, <2>3, <3>1, <3>2 DEF SyncEnroll, Seated, EnrolledPids, IsEnrolled
    <3>3. CASE /\ where' = [where EXCEPT ![p] = d]
               /\ enrolled' = [enrolled EXCEPT
                    ![p] = [dir |-> d, origin |-> OriginToRecord(p), limits |-> Wanted(p)]]
      BY <3>1, <3>3 DEF TypeInv, TypeOK
    <3>4. QED BY <2>3, <3>2, <3>3 DEF SyncEnroll
  <2>4. QED BY <2>2, <2>3
<1>4. /\ \A c \in Dir \ {d} : files'[c] = files[c]
      /\ \/ files'[d] = AfterApply(files[d], Wanted(p), cpuOn)
         \/ /\ SyncKeep(p) /\ (~NeedsRewrite(p) \/ d \notin dirs)
            /\ UNCHANGED files
  BY <1>2 DEF SyncKeep, SyncEnroll, TypeInv, TypeOK
<1>5. \A q \in Pid \ {p} : Seated(q)' <=> Seated(q)
  BY <1>3 DEF Seated, EnrolledPids, IsEnrolled
<1>6. SitsInDirs'
  BY <1>3 DEF LimitsInv, SitsInDirs, Live
<1>7. VisitedAreRight'
  <2> SUFFICES ASSUME NEW q \in Pid \ todo', Seated(q)'
               PROVE  /\ scan[q] \in Name /\ Wanted(q) # NoRule
                      /\ enrolled'[q].dir = TargetDir(q) /\ enrolled'[q].limits = Wanted(q)
    BY <1>1 DEF VisitedAreRight, Wanted, TargetDir
  <2>1. CASE q = p BY <1>1, <1>2, <1>3, <2>1
  <2>2. CASE q # p BY <1>1, <1>3, <1>5, <2>2 DEF LimitsInv, VisitedAreRight
  <2>3. QED BY <2>1, <2>2
\* Who belongs into d has the rule of p.
<1>8. ASSUME NEW q \in Pid, scan[q] \in Name, TargetDir(q) = d
      PROVE  Wanted(q) = Wanted(p)
  <2>1. scan[q] = scan[p] BY <1>2, <1>8 DEF LimitsAssumption, TargetDir
  <2>2. QED BY <2>1 DEF Wanted
<1>9. HeldInSync'
  <2> SUFFICES ASSUME cpuOn, NEW q \in Pid, Seated(q)',
                      ~(q \in todo' /\ (NeedsRewrite(q) \/ enrolled[q].dir # TargetDir(q))')
               PROVE  Holds(files'[enrolled'[q].dir], enrolled'[q].limits)
    BY <1>1 DEF HeldInSync, Held
  <2>1. cpuOn = TRUE BY DEF TypeInv, TypeOK
  <2>2. Holds(AfterApply(files[d], Wanted(p), cpuOn), Wanted(p)) BY <2>1, AppliedHolds
  <2>3. CASE q = p
    <3>1. enrolled'[p].dir = d /\ enrolled'[p].limits = Wanted(p) BY <1>3, <2>3
    <3>2. CASE SyncKeep(p) /\ (~NeedsRewrite(p) \/ d \notin dirs) /\ UNCHANGED files
      <4>1. UNCHANGED <<where, dirs>> /\ IsEnrolled(p) /\ enrolled[p].dir = d
        BY <3>2 DEF SyncKeep
      <4>2. where[p] = d BY <2>3, <3>1, <4>1 DEF Seated
      <4>3. d \in dirs BY <1>2, <4>2, Places DEF LimitsInv, SitsInDirs, Live
      <4>4. ~NeedsRewrite(p) /\ enrolled[p].limits = Wanted(p)
        BY <3>2, <4>3 DEF NeedsRewrite
      <4>5. Seated(p) BY <4>1, <4>2 DEF Seated, EnrolledPids
      <4>6. Held(p) BY <1>1, <4>1, <4>4, <4>5 DEF LimitsInv, HeldInSync
      <4>7. QED BY <2>3, <3>1, <3>2, <4>1, <4>4, <4>6 DEF Held
    <3>3. QED BY <1>4, <2>2, <2>3, <3>1, <3>2
  <2>4. CASE q # p
    <3>1. Seated(q) /\ enrolled'[q] = enrolled[q] BY <1>3, <1>5, <2>4
    <3>2. enrolled[q].dir \in Dir
      BY <3>1 DEF Seated, EnrolledPids, IsEnrolled, TypeInv, TypeOK, Enrolled
    <3>3. Held(q)
      <4>1. ~(q \in todo /\ (NeedsRewrite(q) \/ enrolled[q].dir # TargetDir(q)))
        BY <1>1, <2>4, <3>1 DEF NeedsRewrite, Wanted, TargetDir
      <4>2. QED BY <1>1, <3>1, <4>1 DEF LimitsInv, HeldInSync
    <3>4. CASE enrolled[q].dir # d BY <1>4, <3>1, <3>2, <3>3, <3>4 DEF Held
    <3>5. CASE enrolled[q].dir = d
      <4>1. /\ scan[q] \in Name /\ TargetDir(q) = d /\ enrolled[q].limits = Wanted(q)
        <5>1. CASE q \in todo
          <6>1. scan[q] \in Name
            BY <1>1, <5>1 DEF TypeInv, TypeOK, Named, ScannedPids
          <6>2. QED
            BY <1>1, <2>4, <3>1, <3>5, <5>1, <6>1 DEF NeedsRewrite, Wanted, TargetDir
        <5>2. CASE q \notin todo
          BY <1>1, <3>1, <3>5, <5>2 DEF LimitsInv, VisitedAreRight
        <5>3. QED BY <5>1, <5>2
      <4>2. enrolled[q].limits = Wanted(p) BY <1>8, <4>1
      <4>3. QED BY <1>4, <2>2, <3>1, <3>3, <3>5, <4>2 DEF Held
    <3>6. QED BY <3>4, <3>5
  <2>5. QED BY <2>3, <2>4
<1>10. QED
  BY <1>1, <1>6, <1>7, <1>9 DEF LimitsInv, OffDuty, HeldAfterSync

LEMMA LimitsInductive ==
  ASSUME TypeInv, SaveInv, LimitsInv, LimitsAssumption, [Next]_vars
  PROVE  LimitsInv'
<1>1. CASE Daemon
  <2>1. ASSUME NEW p \in Pid, StopRelease(p) PROVE IsEnrolled(p)
    BY <2>1 DEF StopRelease, SaveInv, StopVisitsAll, EnrolledPids
  <2>2. CASE Recovered \/ BeginPoll \/ Persist \/ EndSync \/ EndSweep \/ EndPoll \/ Stopped
    BY <2>2, LimitsBasics
  <2>3. ASSUME NEW p \in Pid, SyncKeep(p) \/ SyncEnroll(p) PROVE LimitsInv'
    BY <2>3, LimitsSync
  <2>4. ASSUME NEW p \in Pid, RecoverOrphan(p) \/ SyncMoveOut(p) \/ SyncRelease(p) \/ Forget(p)
        PROVE  LimitsInv'
    BY <2>4, LimitsLetGo
  <2>5. ASSUME NEW p \in Pid, StopRelease(p) PROVE LimitsInv'
    BY <2>1, <2>5, LimitsLetGo
  <2>6. ASSUME NEW d \in Dir, SweepDir(d) PROVE LimitsInv'
    BY <2>6, LimitsLetGo
  <2>7. QED BY <1>1, <2>2, <2>3, <2>4, <2>5, <2>6 DEF Daemon
<1>2. CASE Operator BY <1>2, LimitsBasics DEF Operator
<1>3. CASE Environment BY <1>3, LimitsEnvironment
<1>4. CASE UNCHANGED vars
  BY <1>4 DEF vars, LimitsInv, OffDuty, SitsInDirs, Live, VisitedAreRight, HeldInSync,
     HeldAfterSync, NeedsRewrite, Wanted, TargetDir, Held, Seated, EnrolledPids, IsEnrolled
<1>5. QED BY <1>1, <1>2, <1>3, <1>4 DEF Next

\* Between polls every process that sits where it was enrolled has its limits,
\* through rule changes, rejected values, dropped controllers, failed attempts
\* to enable them, kills and restarts: for any number of processes, rules and
\* directories, when each rule has a directory of its own and cpu is never
\* dropped and enabled again between two polls.
THEOREM LimitsStayInForce ==
  ASSUME LimitsAssumption PROVE Spec => []LimitsInForce
<1>1. Init => LimitsInv
  BY DEF Init, LimitsInv, SitsInDirs, Live, VisitedAreRight, HeldInSync, HeldAfterSync
<1>2. LimitsInv => LimitsInForce
  BY DEF LimitsInv, HeldAfterSync, Seated, Held, EnrolledPids, LimitsInForce
<1>3. Init => SaveInv
  BY DEF Init, SaveInv, FileIsTable, StopVisitsAll, OffDuty, Nobody
<1>4. QED
  BY <1>1, <1>2, <1>3, TypeInit, TypeInductive, SaveInductive, LimitsInductive, PTL DEF Spec

----------------------------------------------------------------------------
(* Nothing left behind.                                                    *)

Uncut == Undisrupted /\ "crash" \notin Faults

\* A directory is there for somebody who is enrolled in it.
InUse(d) == \E p \in EnrolledPids : enrolled[p].dir = d

\* Without kills nobody is lost, so nobody is parked, and there is nothing to
\* recover; every directory is in use, or about to be looked at by the sweep.
TidyInv ==
  /\ lost = {} /\ Strays \notin dirs /\ pc # "killed"
  /\ pc = "recover" => todo = {}
  /\ \A d \in Dir \cap dirs :
       \/ InUse(d)
       \/ pc = "sync"
       \/ pc = "sweep" /\ (d \in sweep \/ d \notin created)

\* Whoever sits in a managed directory is enrolled in it.
LEMMA SittersAreEnrolled ==
  ASSUME HomeInv, TidyInv, NEW p \in Pid, where[p] \in Dir
  PROVE  IsEnrolled(p) /\ enrolled[p].dir = where[p]
<1>1. p \in Pid \ lost /\ Live(p) BY Places DEF TidyInv, Live
<1>2. ~OffDuty
  <2>1. ASSUME OffDuty PROVE FALSE
    <3>1. Recorded(p) /\ saved[p] # Absent
      <4>1. Recorded(p) BY <1>1, <2>1 DEF HomeInv, IndInv, FileLeadsHome
      <4>2. home[p] \in Origin BY <1>1 DEF HomeInv, IndInv, AtHomeOrHeld
      <4>3. saved[p] \in [dir : Dir, origin : Origin \cup Dir \cup {Strays}]
        BY <4>1, <4>2 DEF Recorded
      <4>4. QED BY <4>1, <4>3, AbsentAssumption
    <3>2. pc = "stopped" => saved[p] = Absent
      BY <2>1 DEF HomeInv, IndInv, FileLeadsHome, Nobody
    <3>3. pc = "recover" => p \in todo
      BY <1>1, <2>1 DEF HomeInv, IndInv, FileLeadsHome
    <3>4. QED BY <2>1, <3>1, <3>2, <3>3 DEF TidyInv, OffDuty
  <2>2. QED BY <2>1
<1>3. QED BY <1>1, <1>2 DEF HomeInv, IndInv, TableIsTrue, Remembered

\* When p is let go and the others stay, its directory goes too, unless
\* somebody else is enrolled there.
LEMMA LettingGoIsTidy ==
  ASSUME HomeInv, TidyInv, NEW p \in Pid, IsEnrolled(p), NEW w,
         \A q \in Pid \ {p} : w[q] = where[q], w[p] \notin Dir,
         Prune(enrolled[p].dir, w), enrolled' = [enrolled EXCEPT ![p] = Absent]
  PROVE  /\ dirs' \subseteq dirs
         /\ \A d \in Dir \cap dirs' : InUse(d) => InUse(d)'
<1>1. dirs' = dirs \ Empty({enrolled[p].dir} \cap dirs, w) BY DEF Prune
<1>2. \A q \in Pid \ {p} : enrolled'[q] = enrolled[q] BY DEF HomeInv, TypeInv, TypeOK
<1>3. ASSUME NEW d \in Dir \cap dirs', InUse(d) PROVE InUse(d)'
  <2>1. PICK q \in Pid : IsEnrolled(q) /\ enrolled[q].dir = d
    BY <1>3 DEF InUse, EnrolledPids
  <2>2. CASE q # p
    BY <1>2, <2>1, <2>2 DEF InUse, EnrolledPids, IsEnrolled
  <2>3. CASE q = p
    <3>1. d \notin Empty({d} \cap dirs, w) BY <1>1, <1>3, <2>1, <2>3
    <3>2. PICK r \in Pid : w[r] = d BY <1>1, <1>3, <3>1 DEF Empty
    <3>3. r # p /\ where[r] = d BY <1>3, <3>2
    <3>4. IsEnrolled(r) /\ enrolled[r].dir = d BY <1>3, <3>3, SittersAreEnrolled
    <3>5. QED BY <1>2, <3>3, <3>4 DEF InUse, EnrolledPids, IsEnrolled
  <2>4. QED BY <2>2, <2>3
<1>4. QED BY <1>1, <1>3

\* The stages of start-up, poll and shutdown keep things tidy.
LEMMA TidyBasics ==
  ASSUME HomeInv, TidyInv,
         \/ Start \/ Recovered \/ BeginPoll \/ Persist \/ EndSync \/ EndPoll
         \/ Stop \/ Stopped
  PROVE  TidyInv'
<1> USE DEF TidyInv, InUse, EnrolledPids, IsEnrolled, kernel, manager, cycle
<1>1. CASE Start
  <2>1. pc = "stopped" BY <1>1 DEF Start, Up
  <2>2. RecordedPids = {}
    BY <2>1 DEF HomeInv, IndInv, FileLeadsHome, OffDuty, RecordedPids, Nobody
  <2>3. QED BY <1>1, <2>1, <2>2 DEF Start
<1>2. CASE Recovered BY <1>2 DEF Recovered
<1>3. CASE BeginPoll BY <1>3 DEF BeginPoll
<1>4. CASE Persist BY <1>4 DEF Persist
<1>5. CASE EndSync BY <1>5 DEF EndSync
<1>6. CASE EndPoll \/ Stop BY <1>6 DEF EndPoll, Stop
<1>7. CASE Stopped BY <1>7 DEF Stopped
<1>8. QED BY <1>1, <1>2, <1>3, <1>4, <1>5, <1>6, <1>7

\* So does the sweep: a directory it leaves is somebody's.
LEMMA TidySweep ==
  ASSUME HomeInv, TidyInv, EndSweep \/ \E d \in Dir : SweepDir(d)
  PROVE  TidyInv'
<1>1. \A d \in Dir, p \in Pid : where[p] = d => InUse(d)
  BY SittersAreEnrolled DEF InUse, EnrolledPids
<1>2. CASE EndSweep
  <2>1. /\ pc = "sweep" /\ sweep = {} /\ pc' = "forget" /\ UNCHANGED <<enrolled, lost>>
        /\ dirs' = dirs \ Empty((Dir \cap dirs) \ created, where)
    BY <1>2 DEF EndSweep
  <2>2. \A d \in Dir \cap dirs' : InUse(d)
    BY <1>1, <2>1 DEF TidyInv, Empty
  <2>3. QED BY <2>1, <2>2 DEF TidyInv, InUse, EnrolledPids, IsEnrolled
<1>3. ASSUME NEW d \in Dir, SweepDir(d) PROVE TidyInv'
  <2>1. /\ pc = "sweep" /\ sweep' = sweep \ {d} /\ UNCHANGED <<pc, enrolled, lost>>
    BY <1>3 DEF SweepDir
  <2>2. StraysIn(d) = {} BY SittersAreEnrolled DEF StraysIn
  <2>3. /\ dirs' \subseteq dirs /\ created' \subseteq created
        /\ d \in dirs' => InUse(d)
    <3>1. CASE d \in dirs
      <4> DEFINE w == [p \in Pid |-> IF p \in StraysIn(d) THEN Strays ELSE where[p]]
      <4>1. /\ dirs' = (dirs \cup {c \in {Strays} : StraysIn(d) # {}}) \ Empty({d, Strays}, w)
            /\ created' = created \ Empty({d, Strays}, w)
        BY <1>3, <3>1 DEF SweepDir
      <4>2. \A p \in Pid : w[p] = where[p] BY <2>2
      <4>3. QED BY <1>1, <2>2, <4>1, <4>2 DEF Empty
    <3>2. CASE d \notin dirs BY <1>3, <3>2 DEF SweepDir
    <3>3. QED BY <3>1, <3>2
  <2>4. QED BY <2>1, <2>3 DEF TidyInv, InUse, EnrolledPids, IsEnrolled
<1>4. QED BY <1>2, <1>3

\* And whoever is let go takes his directory with him, if he is the last.
LEMMA TidyVisits ==
  ASSUME HomeInv, TidyInv, NEW p \in Pid,
         \/ RecoverOrphan(p) \/ SyncKeep(p) \/ SyncMoveOut(p) \/ SyncEnroll(p)
         \/ SyncRelease(p) \/ Forget(p) \/ StopRelease(p)
  PROVE  TidyInv'
<1> USE DEF cycle
<1>1. CASE RecoverOrphan(p) BY <1>1 DEF RecoverOrphan, TidyInv
<1>2. CASE SyncKeep(p) BY <1>2 DEF SyncKeep, AtSync, TidyInv
<1>3. CASE SyncMoveOut(p)
  BY <1>3 DEF SyncMoveOut, AtSync, Unenroll, Prune, TidyInv
<1>4. CASE SyncRelease(p)
  BY <1>4 DEF SyncRelease, AtSync, Unenroll, Prune, TidyInv
<1>5. CASE SyncEnroll(p)
  <2>1. TargetDir(p) \in Dir
    BY <1>5, RuleAssumption DEF SyncEnroll, AtSync, TargetDir, HomeInv, TypeInv, TypeOK, Named,
       ScannedPids
  <2>2. QED BY <1>5, <2>1, Places DEF SyncEnroll, AtSync, TidyInv
<1>6. CASE Forget(p)
  <2>1. where[p] \notin Dir BY <1>6, Places DEF Forget, HomeInv, GoneStaysGone, Live
  <2>2. CASE IsEnrolled(p)
    <3>1. /\ dirs' \subseteq dirs
          /\ \A d \in Dir \cap dirs' : InUse(d) => InUse(d)'
      BY <1>6, <2>1, <2>2, LettingGoIsTidy DEF Forget
    <3>2. QED BY <1>6, <3>1 DEF Forget, TidyInv
  <2>3. CASE ~IsEnrolled(p)
    BY <1>6, <2>3 DEF Forget, TidyInv, InUse, EnrolledPids, IsEnrolled
  <2>4. QED BY <2>2, <2>3
<1>7. CASE StopRelease(p)
  <2>1. IsEnrolled(p) /\ Unenroll(p) /\ pc = "stopping" /\ UNCHANGED <<pc, lost>>
    BY <1>7 DEF StopRelease, HomeInv, IndInv, StopVisitsAll, EnrolledPids
  <2>2. \A q \in Pid \ {p} : where'[q] = where[q]
    BY <2>1, UnenrollGoesHome DEF HomeInv, IndInv
  <2>3. where'[p] \notin Dir
    <3>1. (Live(p) => where'[p] = home[p]) /\ (~Live(p) => where'[p] = Gone)
      BY <2>1, UnenrollGoesHome DEF HomeInv, IndInv, TidyInv
    <3>2. QED BY <3>1, Places DEF HomeInv, IndInv, AtHomeOrHeld
  <2>4. /\ Prune(enrolled[p].dir, where') /\ enrolled' = [enrolled EXCEPT ![p] = Absent]
    BY <2>1 DEF Unenroll
  <2>5. /\ dirs' \subseteq dirs
        /\ \A d \in Dir \cap dirs' : InUse(d) => InUse(d)'
    BY <2>1, <2>2, <2>3, <2>4, LettingGoIsTidy
  <2>6. QED BY <2>1, <2>5 DEF TidyInv
<1>8. QED BY <1>1, <1>2, <1>3, <1>4, <1>5, <1>6, <1>7

LEMMA TidyInductive ==
  ASSUME HomeInv, TidyInv, Uncut, [Next]_vars
  PROVE  TidyInv'
<1>1. CASE Daemon
  <2>1. CASE Recovered \/ BeginPoll \/ Persist \/ EndSync \/ EndPoll \/ Stopped
    BY <2>1, TidyBasics
  <2>2. CASE EndSweep \/ \E d \in Dir : SweepDir(d) BY <2>2, TidySweep
  <2>3. ASSUME NEW p \in Pid,
               \/ RecoverOrphan(p) \/ SyncKeep(p) \/ SyncMoveOut(p) \/ SyncEnroll(p)
               \/ SyncRelease(p) \/ Forget(p) \/ StopRelease(p)
        PROVE  TidyInv'
    BY <2>3, TidyVisits
  <2>4. QED BY <1>1, <2>1, <2>2, <2>3 DEF Daemon
<1>2. CASE Operator BY <1>2, TidyBasics DEF Operator, Crash, Uncut
<1>3. CASE Environment
  <2>1. UNCHANGED <<pc, todo, sweep, created, enrolled>> /\ lost' \subseteq lost
    BY <1>3 DEF Environment, LoseCpu, Exit, Exec, Relocate, Spawn, Fork, Vanish, SetRule,
       manager, cycle
  <2>2. dirs' \subseteq dirs \cup Origin
    BY <1>3 DEF Environment, LoseCpu, Exit, Exec, Relocate, Spawn, Fork, Vanish, SetRule,
       kernel
  <2>3. Strays \notin Origin /\ Origin \cap Dir = {} BY PlaceAssumption
  <2>4. QED BY <2>1, <2>2, <2>3 DEF TidyInv, InUse, EnrolledPids, IsEnrolled
<1>4. CASE UNCHANGED vars
  BY <1>4 DEF vars, TidyInv, InUse, EnrolledPids, IsEnrolled
<1>5. QED BY <1>1, <1>2, <1>3, <1>4 DEF Next

\* README: empty subgroups are removed.  Without kills, and short of the
\* disruptive faults, a shutdown leaves none of the daemon's directories, not
\* even those of failed writes and of processes that have ended unnoticed.
THEOREM NothingLeftBehind ==
  ASSUME Uncut PROVE Spec => []NoLeftovers
<1>1. Undisrupted BY DEF Uncut
<1>2. Init => TidyInv BY PlaceAssumption DEF Init, TidyInv
<1>3. HomeInv /\ TidyInv => NoLeftovers
  <2> SUFFICES ASSUME HomeInv, TidyInv, pc = "stopped", NEW d \in dirs, d \in Dir
               PROVE  FALSE
    BY DEF NoLeftovers, TidyInv
  <2>1. InUse(d) BY DEF TidyInv
  <2>2. enrolled = Nobody BY DEF HomeInv, IndInv, FileLeadsHome, OffDuty
  <2>3. QED BY <2>1, <2>2 DEF InUse, EnrolledPids, IsEnrolled, Nobody
<1>4. Spec => []HomeInv BY <1>1, HomeInit, HomeInductive, PTL DEF Spec
<1>5. QED BY <1>2, <1>3, <1>4, TidyInductive, PTL DEF Spec
=============================================================================
