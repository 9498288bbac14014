--------------------------- MODULE CgroupManager ---------------------------
(***************************************************************************)
(* The daemon's CgroupManager (daemon/src/applier.rs), driven by the poll  *)
(* cycle of daemon/src/main.rs, over a cgroup v2 hierarchy that processes, *)
(* systemd and the user change at the same time.                           *)
(*                                                                         *)
(* Each process sits in one cgroup: one that somebody else owns (Origin),  *)
(* one that the daemon made for a rule (Dir), or the daemon's parking lot  *)
(* (Strays).  The daemon moves a process into its rule's directory and     *)
(* remembers where it came from, in memory and in a state file.  A step of *)
(* the model is a stretch of the daemon's single thread that ends where    *)
(* something visible from outside happened: in particular the move of a    *)
(* process and the rewrite of the state file are two steps, and the daemon *)
(* can be killed between them.                                             *)
(***************************************************************************)
EXTENDS Cgroupfs, FiniteSets

CONSTANTS Pid,       \* process ids
          Name,      \* process names, which are also the rules' keys
          Critical,  \* the names game_detect::is_de_critical recognises
          Origin,    \* cgroups that are not the daemon's
          Dir,       \* the "nw-..." directories under the base
          DirOf,     \* name -> directory: "nw-" + sanitize_dir(key)
          Strays,    \* the "_strays" directory under the base
          Gone,      \* where a process that does not exist sits
          Limits,    \* the cgroup blocks the rules may hold
          NoRule,    \* the name has no rule, or a rule without a block
          Absent,    \* no entry in a table, no process
          Faults     \* what the environment does besides starting and
                     \* ending processes and editing rules

Fault == {"crash",     \* the daemon is killed
          "torn",      \* ... leaving the state file truncated
          "exec",      \* a process changes its name
          "fork",      \* a process starts a child in its own cgroup
          "relocate",  \* systemd moves a process to another of its cgroups
          "vanish",    \* systemd removes a cgroup that became empty
          "unwritten", \* writing or removing the state file fails
          "hiccup",    \* ... but never twice in a row
          "reuse",     \* a pid is reused before the daemon noticed its exit
          "drop",      \* systemd drops the cpu controller from the base
          "blip",      \* ... and enables it again by itself
          "denied"}    \* the base's subtree_control rejects the daemon's write

ASSUME PlaceAssumption ==
  /\ Origin \cap Dir = {}
  /\ Strays \notin Origin \cup Dir
  /\ Gone \notin Origin \cup Dir \cup {Strays}
ASSUME RuleAssumption ==
  /\ DirOf \in [Name -> Dir]
  /\ Critical \subseteq Name
  /\ Limits \subseteq CgroupLimits
  /\ NoRule \notin Limits
ASSUME AbsentAssumption ==
  /\ Absent \notin Name
  /\ Absent \notin Origin \cup {Strays}
  /\ Absent \notin [dir : Dir, origin : Origin \cup Dir \cup {Strays}]
  /\ Absent \notin [dir : Dir, origin : Origin \cup Dir \cup {Strays},
                    limits : Limits]
ASSUME FaultAssumption == Faults \subseteq Fault

VARIABLES
  \* the processes and the hierarchy
  name,        \* name[p]: /proc/<p>/comm
  where,       \* where[p]: /proc/<p>/cgroup
  dirs,        \* the cgroup directories that exist
  files,       \* files[d]: the interface files of directory d
  cpuOn,       \* cpu is in the base's cgroup.subtree_control
  rules,       \* rules[n]: the cgroup block of the rule in force for n
  \* the daemon
  pc,          \* where its thread is
  todo,        \* the pids the current stage still has to visit
  sweep,       \* the directories sweep_strays still has to visit
  scan,        \* scan[p]: the name scan_proc read for p in this poll
  known,       \* the pids of the previous poll (full_info)
  enrolled,    \* enrolled[p]: the Enrolled record
  created,     \* created_dirs
  unsaved,     \* pids whose record changed since the last persist
  reasserted,  \* controllers_reasserted
  saved,       \* the state file
  stale,       \* this daemon's last write or removal of the state file failed
  \* history
  home,        \* home[p]: the last cgroup p sat in that is not the daemon's
  lost         \* processes caught by a kill between move and persist

kernel  == <<name, where, home, dirs, files, cpuOn>>
manager == <<enrolled, created, unsaved, reasserted>>
cycle   == <<pc, todo, sweep, scan, known>>
vars    == <<name, where, dirs, files, cpuOn, rules, pc, todo, sweep, scan,
             known, enrolled, created, unsaved, reasserted, saved, stale,
             home, lost>>

Cgroup   == Origin \cup Dir \cup {Strays}
Enrolled == [dir : Dir, origin : Cgroup, limits : Limits]
Saved    == [dir : Dir, origin : Cgroup]
Stage    == {"stopped", "killed", "recover", "idle", "sync", "sweep",
             "forget", "stopping"}
Nobody   == [p \in Pid |-> Absent]

Up           == pc \notin {"stopped", "killed"}
Live(p)      == where[p] # Gone
IsEnrolled(p) == enrolled[p] # Absent
EnrolledPids == {p \in Pid : IsEnrolled(p)}
RecordedPids == {p \in Pid : saved[p] # Absent}
ScannedPids  == {p \in Pid : scan[p] # Absent}

TypeOK ==
  /\ name \in [Pid -> Name \cup {Absent}]
  /\ where \in [Pid -> Cgroup \cup {Gone}]
  /\ dirs \subseteq Cgroup
  /\ files \in [Dir -> CgroupLimits]
  /\ cpuOn \in BOOLEAN
  /\ rules \in [Name -> Limits \cup {NoRule}]
  /\ pc \in Stage
  /\ todo \subseteq Pid
  /\ sweep \subseteq Dir
  /\ scan \in [Pid -> Name \cup {Absent}]
  /\ known \subseteq Pid
  /\ enrolled \in [Pid -> Enrolled \cup {Absent}]
  /\ created \subseteq Dir
  /\ unsaved \subseteq Pid
  /\ reasserted \in BOOLEAN
  /\ saved \in [Pid -> Saved \cup {Absent}] /\ stale \in BOOLEAN
  /\ home \in [Pid -> Origin \cup {Absent}]
  /\ lost \subseteq Pid

Init ==
  /\ name = Nobody /\ where = [p \in Pid |-> Gone] /\ home = Nobody
  /\ dirs = Origin /\ files = [d \in Dir |-> Pristine] /\ cpuOn = TRUE
  /\ rules = [n \in Name |-> NoRule]
  /\ pc = "stopped" /\ todo = {} /\ sweep = {} /\ scan = Nobody /\ known = {}
  /\ enrolled = Nobody /\ created = {} /\ unsaved = {} /\ reasserted = FALSE
  /\ saved = Nobody /\ stale = FALSE /\ lost = {}

----------------------------------------------------------------------------
(* The kernel's side of the daemon's calls.                                *)

\* Directories of S in which no process sits once the processes are at w.
Empty(S, w) == {d \in S : \A p \in Pid : w[p] # d}

\* rmdir takes the interface files with it.
FilesWithout(f, D) == [d \in Dir |-> IF d \in D THEN Pristine ELSE f[d]]

\* Mutant: unenroll leaves the directory for later.
KeepDir(d, w) == UNCHANGED <<dirs, files, created>>

\* prune_dir(d) with the processes at w: d goes if it exists and is empty.
Prune(d, w) ==
  LET out == Empty({d} \cap dirs, w)
  IN  /\ dirs' = dirs \ out
      /\ files' = FilesWithout(files, out)
      /\ created' = created \ out

\* Writing p to d/cgroup.procs.
CanMove(p, d) == Live(p) /\ d \in dirs

----------------------------------------------------------------------------
(* Building blocks of the daemon's steps.                                  *)

\* What sync_pid is asked to do with p: the block of its rule, never for a
\* desktop-critical name.
Wanted(p) == IF scan[p] \in Critical THEN NoRule ELSE rules[scan[p]]
TargetDir(p) == DirOf[scan[p]]

\* sync_pid's "same target" case rewrites the files when the limits changed or
\* the controllers were re-asserted.
OnlyIfChanged(p) == enrolled[p].limits # Wanted(p)     \* mutant: not the latter
NeedsRewrite(p) == enrolled[p].limits # Wanted(p) \/ reasserted

\* Mutant: the controllers are enabled again, and nobody is told.
ReassertSilently(r) == cpuOn' = TRUE /\ reasserted' = r

\* ensure_controllers, from a daemon whose flag is r.
EnsureControllers(r) ==
  \/ /\ reasserted' = (r \/ ~cpuOn)
     /\ cpuOn' = TRUE
  \/ /\ "denied" \in Faults
     /\ reasserted' = r
     /\ UNCHANGED cpuOn

\* unenroll: back to the recorded origin if that still exists, drop the
\* record, prune the directory.  persist is a step of its own.
Unenroll(p) ==
  LET en == enrolled[p]
      w  == IF CanMove(p, en.origin) THEN [where EXCEPT ![p] = en.origin] ELSE where
  IN  /\ where' = w
      /\ Prune(en.dir, w)
      /\ enrolled' = [enrolled EXCEPT ![p] = Absent]
      /\ unsaved' = unsaved \cup {p}

\* Mutant: the whole table is written.
RecordWhole(p) == enrolled[p]

\* The record persist writes for p.
Record(p) == IF IsEnrolled(p)
             THEN [dir |-> enrolled[p].dir, origin |-> enrolled[p].origin]
             ELSE Absent

\* The state file becomes f (Nobody: it is removed).  A failure is at most
\* logged and nothing retries: the file keeps its contents, or is left
\* truncated, which no reader can parse.
WriteFile(f) ==
  /\ \/ saved' = f
     \/ /\ "unwritten" \in Faults \/ ("hiccup" \in Faults /\ ~stale)
        /\ saved' \in {saved, Nobody}
  /\ stale' = (saved' # f)

\* A directory that is the daemon's as far as it can tell.
LooksManaged(d) == d \in created \/ \E q \in EnrolledPids : enrolled[q].dir = d

\* Mutant: the origin is read once p has been moved.
OriginAfterMove(p) == TargetDir(p)

\* The origin sync_pid records for p just before it moves p.
OriginToRecord(p) ==
  IF LooksManaged(where[p]) /\ saved[p] # Absent
  THEN saved[p].origin
  ELSE where[p]

----------------------------------------------------------------------------
(* Start-up: recover_orphans, then ensure_controllers.                     *)

\* Mutant: a new daemon does not look at what the last one left behind.
StartAfresh ==
  /\ ~Up
  /\ pc' = "recover"
  /\ todo' = {}
  /\ UNCHANGED <<kernel, manager, sweep, scan, known, rules, saved, stale, lost>>

Start ==
  /\ ~Up
  /\ pc' = "recover"
  /\ todo' = RecordedPids
  /\ UNCHANGED <<kernel, manager, sweep, scan, known, rules, saved, stale, lost>>

\* Mutant: whatever the file names is moved.
IsInFile(p) == saved[p] # Absent

\* The process is still where the previous run put it.
IsOrphan(p) == where[p] = saved[p].dir

RecoverOrphan(p) ==
  /\ pc = "recover" /\ p \in todo
  /\ LET w == IF IsOrphan(p) /\ CanMove(p, saved[p].origin)
              THEN [where EXCEPT ![p] = saved[p].origin] ELSE where
     IN  /\ where' = w
         /\ IF IsOrphan(p) THEN Prune(saved[p].dir, w) ELSE UNCHANGED <<dirs, files, created>>
  /\ todo' = todo \ {p}
  /\ UNCHANGED <<name, home, cpuOn, rules, pc, sweep, scan, known, enrolled,
                 unsaved, reasserted, saved, stale, lost>>

\* Mutant: the file stays until the next persist.
RecoveredKeepsFile ==
  /\ pc = "recover" /\ todo = {}
  /\ EnsureControllers(FALSE)
  /\ pc' = "idle"
  /\ UNCHANGED <<name, where, home, dirs, files, rules, todo, sweep, scan,
                 known, enrolled, created, unsaved, saved, stale, lost>>

Recovered ==
  /\ pc = "recover" /\ todo = {}
  /\ WriteFile(Nobody)
  /\ EnsureControllers(FALSE)
  /\ pc' = "idle"
  /\ UNCHANGED <<name, where, home, dirs, files, rules, todo, sweep, scan,
                 known, enrolled, created, unsaved, lost>>

----------------------------------------------------------------------------
(* One poll: ensure_controllers and scan, sync_pid for every process,      *)
(* sweep_strays, forget for every pid that is gone since the last poll.    *)

BeginPoll ==
  /\ pc = "idle"
  /\ EnsureControllers(reasserted)
  /\ scan' = name
  /\ todo' = {p \in Pid : Live(p)}
  /\ pc' = "sync"
  /\ UNCHANGED <<name, where, home, dirs, files, rules, sweep, known, enrolled,
                 created, unsaved, saved, stale, lost>>

\* sync_pid is about to be called for p; what the calls before it changed is on
\* disk.
AtSync(p) == pc = "sync" /\ p \in todo /\ unsaved = {}

\* sync_pid(Some), already in the right directory: rewrite the files when the
\* limits changed or the controllers were re-asserted.  The record takes the
\* new limits whether or not the writes went through.
SyncKeep(p) ==
  /\ AtSync(p)
  /\ Wanted(p) # NoRule
  /\ IsEnrolled(p) /\ enrolled[p].dir = TargetDir(p)
  /\ LET d == TargetDir(p)
     IN  files' = IF NeedsRewrite(p) /\ d \in dirs
                  THEN [files EXCEPT ![d] = AfterApply(@, Wanted(p), cpuOn)]
                  ELSE files
  /\ enrolled' = [enrolled EXCEPT ![p].limits = Wanted(p)]
  /\ todo' = todo \ {p}
  /\ UNCHANGED <<name, where, home, dirs, cpuOn, rules, pc, sweep, scan, known,
                 created, unsaved, reasserted, saved, stale, lost>>

\* sync_pid(Some), in another rule's directory: move out first; the same call
\* then goes on to enroll p.
SyncMoveOut(p) ==
  /\ AtSync(p)
  /\ Wanted(p) # NoRule
  /\ IsEnrolled(p) /\ enrolled[p].dir # TargetDir(p)
  /\ Unenroll(p)
  /\ UNCHANGED <<name, home, cpuOn, rules, cycle, reasserted, saved, stale, lost>>

\* sync_pid(Some), not enrolled: make the directory, write the limits, move p.
\* When a write or the move fails, what was done so far stays and nothing is
\* recorded.
SyncEnroll(p) ==
  /\ AtSync(p)
  /\ Wanted(p) # NoRule
  /\ ~IsEnrolled(p)
  /\ LET d == TargetDir(p)
         done == Live(p) /\ Succeeds(Wanted(p), cpuOn)
     IN  /\ dirs' = dirs \cup {d}
         /\ files' = [files EXCEPT ![d] = AfterApply(@, Wanted(p), cpuOn)]
         /\ IF done
            THEN /\ where' = [where EXCEPT ![p] = d]
                 /\ enrolled' = [enrolled EXCEPT
                      ![p] = [dir |-> d, origin |-> OriginToRecord(p),
                              limits |-> Wanted(p)]]
                 /\ created' = created \cup {d}
                 /\ unsaved' = {p}
            ELSE UNCHANGED <<where, enrolled, created, unsaved>>
  /\ todo' = todo \ {p}
  /\ UNCHANGED <<name, home, cpuOn, rules, pc, sweep, scan, known, reasserted,
                 saved, stale, lost>>

\* sync_pid(None).
SyncRelease(p) ==
  /\ AtSync(p)
  /\ Wanted(p) = NoRule
  /\ IF IsEnrolled(p) THEN Unenroll(p)
     ELSE UNCHANGED <<where, dirs, files, enrolled, created, unsaved>>
  /\ todo' = todo \ {p}
  /\ UNCHANGED <<name, home, cpuOn, rules, pc, sweep, scan, known, reasserted,
                 saved, stale, lost>>

\* The write of the state file that ends every change of the table.
Persist ==
  /\ Up /\ unsaved # {}
  /\ WriteFile([p \in Pid |-> Record(p)])
  /\ unsaved' = {}
  /\ UNCHANGED <<kernel, rules, cycle, enrolled, created, reasserted, lost>>

\* Mutant: only the directories some enrolled process uses are swept.
EndSyncUsed ==
  /\ pc = "sync" /\ todo = {} /\ unsaved = {}
  /\ sweep' = {enrolled[p].dir : p \in EnrolledPids}
  /\ pc' = "sweep"
  /\ UNCHANGED <<kernel, manager, rules, todo, scan, known, saved, stale, lost>>

\* sync_pid has seen every process; sweep_strays starts from created_dirs.
EndSync ==
  /\ pc = "sync" /\ todo = {} /\ unsaved = {}
  /\ sweep' = created
  /\ pc' = "sweep"
  /\ UNCHANGED <<kernel, manager, rules, todo, scan, known, saved, stale, lost>>

\* sweep_strays, one managed directory: processes nobody enrolled go to
\* _strays, except desktop-critical ones; both directories are pruned.
StraysAll(d) == {p \in Pid : where[p] = d /\ name[p] \notin Critical}  \* mutant
StraysIn(d)  == {p \in Pid : where[p] = d /\ ~IsEnrolled(p) /\ name[p] \notin Critical}

SweepDir(d) ==
  /\ pc = "sweep" /\ d \in sweep
  /\ LET strays == StraysIn(d)
         w   == [p \in Pid |-> IF p \in strays THEN Strays ELSE where[p]]
         out == Empty({d, Strays}, w)
     IN  IF d \in dirs
         THEN /\ where' = w
              /\ dirs' = (dirs \cup {c \in {Strays} : strays # {}}) \ out
              /\ files' = FilesWithout(files, out)
              /\ created' = created \ out
         ELSE UNCHANGED <<where, dirs, files, created>>
  /\ sweep' = sweep \ {d}
  /\ UNCHANGED <<name, home, cpuOn, rules, pc, todo, scan, known, enrolled,
                 unsaved, reasserted, saved, stale, lost>>

\* sweep_strays, second half: adopt "nw-" directories nobody created in this
\* run and prune the empty ones.  Then the reassertion flag is cleared and the
\* table of this poll replaces the one before.
EndSweep ==
  /\ pc = "sweep" /\ sweep = {}
  /\ LET found == (Dir \cap dirs) \ created
         out   == Empty(found, where)
     IN  /\ dirs' = dirs \ out
         /\ files' = FilesWithout(files, out)
         /\ created' = created \cup (found \ out)
  /\ reasserted' = FALSE
  /\ todo' = known \ ScannedPids
  /\ known' = ScannedPids
  /\ scan' = Nobody
  /\ pc' = "forget"
  /\ UNCHANGED <<name, where, home, cpuOn, rules, sweep, enrolled, unsaved,
                 saved, stale, lost>>

\* forget: the pid is gone, there is nothing to move.
Forget(p) ==
  /\ pc = "forget" /\ p \in todo /\ unsaved = {}
  /\ IF IsEnrolled(p)
     THEN /\ Prune(enrolled[p].dir, where)
          /\ enrolled' = [enrolled EXCEPT ![p] = Absent]
          /\ unsaved' = {p}
     ELSE UNCHANGED <<dirs, files, created, enrolled, unsaved>>
  /\ todo' = todo \ {p}
  /\ UNCHANGED <<name, where, home, cpuOn, rules, pc, sweep, scan, known,
                 reasserted, saved, stale, lost>>

EndPoll ==
  /\ pc = "forget" /\ todo = {} /\ unsaved = {}
  /\ pc' = "idle"
  /\ UNCHANGED <<kernel, manager, rules, todo, sweep, scan, known, saved, stale, lost>>

----------------------------------------------------------------------------
(* Shutdown: release every enrolled pid, delete the state file.            *)

Stop ==
  /\ pc = "idle"
  /\ pc' = "stopping"
  /\ todo' = EnrolledPids
  /\ UNCHANGED <<kernel, manager, rules, sweep, scan, known, saved, stale, lost>>

StopRelease(p) ==
  /\ pc = "stopping" /\ p \in todo /\ unsaved = {}
  /\ Unenroll(p)
  /\ todo' = todo \ {p}
  /\ UNCHANGED <<name, home, cpuOn, rules, pc, sweep, scan, known, reasserted,
                 saved, stale, lost>>

Stopped ==
  /\ pc = "stopping" /\ todo = {} /\ unsaved = {}
  /\ WriteFile(Nobody)
  /\ created' = {} /\ known' = {} /\ reasserted' = FALSE
  /\ pc' = "stopped"
  /\ UNCHANGED <<kernel, rules, todo, sweep, scan, enrolled, unsaved, lost>>

\* SIGKILL, at any point: memory is gone, the state file is what the last
\* persist left of it.  The write is not atomic: killed inside it, the file can
\* be left truncated, which the next run cannot parse.
Crash ==
  /\ "crash" \in Faults
  /\ Up
  /\ \/ UNCHANGED saved
     \/ "torn" \in Faults /\ unsaved # {} /\ saved' = Nobody
  /\ lost' = lost \cup {p \in unsaved : where[p] \in Dir}
  /\ pc' = "killed" /\ todo' = {} /\ sweep' = {} /\ scan' = Nobody /\ known' = {}
  /\ enrolled' = Nobody /\ created' = {} /\ unsaved' = {} /\ reasserted' = FALSE
  /\ stale' = FALSE
  /\ UNCHANGED <<kernel, rules>>

----------------------------------------------------------------------------
(* The environment.                                                        *)

\* A pid the daemon has no memory of, unless pids may be reused that fast.
Fresh(p) == /\ ~Live(p)
            /\ \/ "reuse" \in Faults
               \/ ~IsEnrolled(p) /\ p \notin known \cup todo \cup ScannedPids

Spawn(p, n, o) ==
  /\ Fresh(p)
  /\ name' = [name EXCEPT ![p] = n]
  /\ where' = [where EXCEPT ![p] = o]
  /\ home' = [home EXCEPT ![p] = o]
  /\ dirs' = dirs \cup {o}
  /\ UNCHANGED <<files, cpuOn, rules, manager, cycle, saved, stale, lost>>

Exit(p) ==
  /\ Live(p)
  /\ name' = [name EXCEPT ![p] = Absent]
  /\ where' = [where EXCEPT ![p] = Gone]
  /\ home' = [home EXCEPT ![p] = Absent]
  /\ lost' = lost \ {p}
  /\ UNCHANGED <<dirs, files, cpuOn, rules, manager, cycle, saved, stale>>

Fork(p, q) ==
  /\ "fork" \in Faults
  /\ Live(p) /\ Fresh(q)
  /\ name' = [name EXCEPT ![q] = name[p]]
  /\ where' = [where EXCEPT ![q] = where[p]]
  /\ home' = [home EXCEPT ![q] = home[p]]
  /\ UNCHANGED <<dirs, files, cpuOn, rules, manager, cycle, saved, stale, lost>>

Exec(p, n) ==
  /\ "exec" \in Faults
  /\ Live(p)
  /\ name' = [name EXCEPT ![p] = n]
  /\ UNCHANGED <<where, home, dirs, files, cpuOn, rules, manager, cycle, saved, stale, lost>>

Relocate(p, o) ==
  /\ "relocate" \in Faults
  /\ Live(p)
  /\ where' = [where EXCEPT ![p] = o]
  /\ home' = [home EXCEPT ![p] = o]
  /\ dirs' = dirs \cup {o}
  /\ UNCHANGED <<name, files, cpuOn, rules, manager, cycle, saved, stale, lost>>

Vanish(o) ==
  /\ "vanish" \in Faults
  /\ o \in Empty(Origin \cap dirs, where)
  /\ dirs' = dirs \ {o}
  /\ UNCHANGED <<name, where, home, files, cpuOn, rules, manager, cycle, saved, stale, lost>>

LoseCpu ==
  /\ \/ "drop" \in Faults /\ cpuOn' = FALSE
     \/ "blip" \in Faults /\ UNCHANGED cpuOn
  /\ cpuOn
  /\ files' = [d \in Dir |-> WithoutCpu(files[d])]
  /\ UNCHANGED <<name, where, home, dirs, rules, manager, cycle, saved, stale, lost>>

\* The rule set is replaced between polls (the main loop drains IPC and config
\* events first), or edited while no daemon runs.
SetRule(n, r) ==
  /\ pc \in {"idle", "stopped", "killed"}
  /\ rules' = [rules EXCEPT ![n] = r]
  /\ UNCHANGED <<kernel, manager, cycle, saved, stale, lost>>

----------------------------------------------------------------------------
\* The daemon's thread, which never waits for anything.
Daemon ==
  \/ Recovered \/ BeginPoll \/ Persist \/ EndSync \/ EndSweep \/ EndPoll \/ Stopped
  \/ \E p \in Pid : \/ RecoverOrphan(p) \/ Forget(p) \/ StopRelease(p)
                    \/ SyncKeep(p) \/ SyncMoveOut(p) \/ SyncEnroll(p) \/ SyncRelease(p)
  \/ \E d \in Dir : SweepDir(d)

Operator == Start \/ Stop \/ Crash

Environment ==
  \/ LoseCpu
  \/ \E p \in Pid : Exit(p)
  \/ \E p \in Pid, n \in Name : Exec(p, n)
  \/ \E p \in Pid, o \in Origin : Relocate(p, o)
  \/ \E p \in Pid, n \in Name, o \in Origin : Spawn(p, n, o)
  \/ \E p, q \in Pid : Fork(p, q)
  \/ \E o \in Origin : Vanish(o)
  \/ \E n \in Name, r \in Limits \cup {NoRule} : SetRule(n, r)

Next == Daemon \/ Operator \/ Environment

Spec == Init /\ [][Next]_vars
FairSpec == Spec /\ WF_vars(Daemon)
----------------------------------------------------------------------------
(* What the manager promises.                                              *)

Remembered(p) == /\ IsEnrolled(p)
                 /\ enrolled[p].dir = where[p] /\ enrolled[p].origin = home[p]
Recorded(p)   == saved[p] = [dir |-> where[p], origin |-> home[p]]

\* Whatever kills the daemon, it can be undone: a process in a managed cgroup
\* is in the state file with the cgroup it truly came from, or the daemon is
\* about to write that, or an earlier kill hit exactly this window.  This is
\* what the order "read the origin, move, insert, persist" of sync_pid and the
\* order "move back, persist" of unenroll are for.
OriginsRecorded ==
  \A p \in Pid :
    where[p] \in Dir => \/ p \in lost
                        \/ Recorded(p)
                        \/ p \in unsaved /\ Remembered(p)

\* A kill can cost at most one process its way home: sync_pid persists before
\* the next process is touched.
OneAtRisk ==
  \A p, q \in Pid :
    /\ where[p] \in Dir /\ p \notin lost /\ ~Recorded(p)
    /\ where[q] \in Dir /\ q \notin lost /\ ~Recorded(q)
    => p = q

\* After a clean shutdown every process is back where it came from (README: "on
\* exit or config change, pids are moved back to their origin cgroup").
CleanStop ==
  pc = "stopped" => \A p \in Pid : Live(p) => where[p] = home[p] \/ p \in lost

\* ... and no directory of the daemon is left ("empty subgroups are removed").
NoLeftovers == pc = "stopped" => dirs \cap (Dir \cup {Strays}) = {}

\* Between polls, a process that sits where it was enrolled has its limits in
\* the kernel, as long as the cpu controller is there: changed rules, dropped
\* controllers and failed writes have all been made good.
LimitsInForce ==
  pc = "idle" /\ cpuOn =>
    \A p \in EnrolledPids :
      where[p] = enrolled[p].dir => Holds(files[where[p]], enrolled[p].limits)

\* Only a process that a kill cut off from its origin is ever parked.
ParkedAreLost == \A p \in Pid : where[p] = Strays => p \in lost

\* The daemon moves a process for one of three reasons: the poll's scan found
\* a rule for its name, it goes home, or its home is not known any more.
MovesJustified ==
  [][Daemon => \A p \in Pid :
       where'[p] # where[p] =>
         \/ /\ pc = "sync" /\ p \in todo
            /\ Wanted(p) # NoRule /\ where'[p] = TargetDir(p)
         \/ where'[p] = home[p]
         \/ p \in lost]_vars

\* Where p stands in the eyes of Placement; nobody goes astray.
Standing(p) ==
  IF ~Live(p) THEN "out"
  ELSE IF p \in lost THEN "lost"
  ELSE IF where[p] \in Dir THEN "held"
  ELSE IF where[p] = home[p] THEN "home" ELSE "astray"

Phase == CASE pc = "stopped"  -> "off"
           [] pc = "killed"   -> "killed"
           [] pc = "recover"  -> "recovering"
           [] pc = "stopping" -> "ending"
           [] OTHER           -> "serving"

Placing == INSTANCE Placement WITH
  phase <- Phase, at <- [p \in Pid |-> Standing(p)], atRisk <- unsaved

\* The manager keeps the promises of Placement: whoever it holds is brought
\* home by it or, after a kill, by the next one before that serves; it touches
\* one process at a time; and a kill loses at most that one.
Placed == Placing!Spec

\* sync_pid's fallback to persisted_origin is meant for the orphans of a crashed
\* run, but recover_orphans has deleted the file and persist has rewritten it
\* from the table.  When the file does name a process that is in no table, the
\* last write or removal of it failed, and what the fallback would then read is
\* not the record of an orphan but a record that ought to be gone.
FallbackMeansStale ==
  \A p \in Pid : AtSync(p) /\ ~IsEnrolled(p) /\ saved[p] # Absent => stale

\* A process under a rule that stays, with controllers that stay, ends up in
\* the rule's cgroup with the rule's limits, and remains there.
Applied ==
  \A p \in Pid, n \in Name \ Critical, r \in Limits :
    Succeeds(r, TRUE) =>
      (<>[](Up /\ cpuOn /\ name[p] = n /\ rules[n] = r)
         => <>[](where[p] = DirOf[n] /\ Holds(files[DirOf[n]], r)))

\* A process without a rule does not stay limited: released, or swept out.
Released ==
  \A p \in Pid, n \in Name \ Critical :
    <>[](Up /\ name[p] = n /\ rules[n] = NoRule) => <>[](where[p] \notin Dir)

----------------------------------------------------------------------------
(* What the repository says of itself.                                     *)

\* sync.rs on upsert_cap_rule: "Set (Some) or remove (None) the hard CPU cap":
\* between polls a process that sits under its rule is under no other limit
\* than the rule's.
OnlyTheRulesLimits ==
  pc = "idle" /\ cpuOn =>
    \A p \in EnrolledPids :
      where[p] = enrolled[p].dir => Exact(files[where[p]], enrolled[p].limits)
=============================================================================
