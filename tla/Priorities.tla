----------------------------- MODULE Priorities ------------------------------
(***************************************************************************)
(* How a poll reads, judges and changes the processes it does not own:     *)
(* proc_scan.rs, apply_target, apply_preset_now and the bookkeeping of the *)
(* poll in main.rs, and the system calls of applier.rs that fail.          *)
(*                                                                         *)
(* A poll reads every process, then visits them by pid.  Between the       *)
(* reading and each system call processes exit, start under the pid of a   *)
(* dead one, exec, change their user or their scheduling class, and are    *)
(* reniced by others.  Nothing in the daemon tells two processes of one    *)
(* pid apart.                                                              *)
(***************************************************************************)
EXTENDS Integers

CONSTANTS Pid,
          Name,
          Spaced,    \* names with a blank, which is_rt_scheduled miscounts
          Twice,     \* ... with two of them
          Nice,
          Io,        \* ionice classes
          RtIo,      \* the one for the privileged only
          Leave,     \* a target's ionice class None: leave it alone
          Target,    \* what a rule or a tier asks for
          Program,   \* what a process can look like
          Found,     \* the processes a daemon may find when it comes, by pid
          Config,    \* ... and the rules
          Absent,
          MaxTicks,  \* bound: CPU ticks of a process
          MaxDeeds   \* bound: changes from outside the daemon

Process == [name : Name, mine : BOOLEAN, rt : BOOLEAN, nice : Nice, io : Io,
            ticks : 0..MaxTicks,
            ran : 0..MaxTicks]  \* ghost: ticks since the daemon last looked
Row     == [name : Name, nice : Nice]

ASSUME PidAssumption == Pid \subseteq Nat
ASSUME NameAssumption == Twice \subseteq Spaced
ASSUME NiceAssumption == Nice \subseteq Int /\ 0 \in Nice
ASSUME TargetAssumption ==
  Target \subseteq [nice : Nice, io : Io \cup {Leave}] /\ Leave \notin Io
ASSUME ProgramAssumption ==
  Program \subseteq [name : Name, mine : BOOLEAN, rt : BOOLEAN, nice : Nice,
                     io : Io]
ASSUME FoundAssumption == Found \subseteq [Pid -> Program \cup {Absent}]
ASSUME ConfigAssumption == Config \subseteq [Name -> Target \cup {Absent}]
ASSUME BoundAssumption == MaxTicks \in Nat /\ MaxDeeds \in Nat
ASSUME AbsentAssumption ==
  Absent \notin Process \cup Program \cup Row \cup Target \cup 0..MaxTicks

VARIABLES
  proc,     \* the processes, by pid
  root,     \* the daemon runs as root
  rules,    \* the target of a name
  \* the poll
  pc, todo,
  scan,     \* entries
  \* what is kept from poll to poll
  table,    \* full_info
  prev,     \* prev_ticks
  warned,   \* FailureTracker
  \* history
  changed,  \* pids where something has changed since they were last read
  told,     \* pids whose present process the user has been told about
  deeds

kept == <<table, prev, warned>>
vars == <<proc, root, rules, pc, todo, scan, kept, changed, told, deeds>>

Live == {p \in Pid : proc[p] # Absent}
Keys(f) == {p \in Pid : f[p] # Absent}
Nobody == [p \in Pid |-> Absent]

TypeOK ==
  /\ proc \in [Pid -> Process \cup {Absent}] /\ root \in BOOLEAN
  /\ rules \in [Name -> Target \cup {Absent}]
  /\ pc \in {"idle", "nice", "io", "account"}
  /\ scan \in [Pid -> Process \cup {Absent}] /\ todo \subseteq Keys(scan)
  /\ table \in [Pid -> Row \cup {Absent}]
  /\ prev \in [Pid -> 0..MaxTicks \cup {Absent}]
  /\ changed \subseteq Pid /\ told \subseteq Live /\ deeds \in 0..MaxDeeds
  \* nothing is kept for a pid that is not in the table
  /\ Keys(prev) \cup warned \subseteq Keys(table) \cup Keys(scan)
  /\ pc = "idle" => todo = {} /\ scan = Nobody /\ Keys(prev) = Keys(table)

\* A process that looks like x.
As(x, ticks, ran) == [name |-> x.name, mine |-> x.mine, rt |-> x.rt,
                      nice |-> x.nice, io |-> x.io,
                      ticks |-> ticks, ran |-> ran]

\* The processes have run before the daemon comes.
Init ==
  /\ \E f \in Found : proc = [p \in Pid |-> IF f[p] = Absent THEN Absent
                                         ELSE As(f[p], MaxTicks \div 2, 0)]
  /\ root \in BOOLEAN /\ rules \in Config
  /\ pc = "idle" /\ todo = {} /\ scan = Nobody
  /\ table = Nobody /\ prev = Nobody /\ warned = {}
  /\ changed = {} /\ told = {} /\ deeds = 0

----------------------------------------------------------------------------
(* The kernel's part: who may change whose priority.                       *)

Owned(x) == root \/ x.mine

MayRenice(p, n) ==
  /\ proc[p] # Absent /\ ~proc[p].rt
  /\ Owned(proc[p]) /\ (root \/ n >= proc[p].nice)

MaySetIo(p, c) ==
  /\ proc[p] # Absent /\ ~proc[p].rt
  /\ Owned(proc[p]) /\ (root \/ c # RtIo)

\* apply_nice asks for a negative nice value as root only.
Clamped(n) == IF n < 0 /\ ~root THEN 0 ELSE n

----------------------------------------------------------------------------
(* The poll.                                                               *)

BeginPoll ==
  /\ pc = "idle"
  /\ scan' = proc /\ todo' = Live /\ pc' = "nice"
  /\ proc' = [p \in Pid |->
       IF proc[p] = Absent THEN Absent ELSE [proc[p] EXCEPT !.ran = 0]]
  /\ changed' = {}
  /\ UNCHANGED <<root, rules, kept, told, deeds>>

Visited(p) == p \in todo /\ \A q \in todo : p <= q

\* Other users' processes are left alone by a daemon that is not root.
TargetOf(e) == IF Owned(e) THEN rules[e.name] ELSE Absent

\* What is_rt_scheduled may answer.  It looks again, finds nothing where the
\* process is gone, and compares the 41st word of its line with 1 and 2: that is
\* the policy, but for a name with a blank the real-time priority, and with two
\* the CPU that the process, real-time or not, has run on last.
SeenRt(p) ==
  IF proc[p] = Absent THEN {FALSE}
  ELSE IF proc[p].name \in Twice THEN BOOLEAN
  ELSE IF proc[p].name \in Spaced THEN {FALSE, proc[p].rt}
  ELSE {proc[p].rt}

\* Mutant: the smaller one.
LesserNice(e, t) == IF root \/ t.nice <= e.nice THEN t.nice ELSE e.nice

\* A daemon that is not root only raises nice values.
EffectiveNice(e, t) == IF root \/ t.nice >= e.nice THEN t.nice ELSE e.nice

\* Mutant: nobody is remembered.
ComplainAgain(p) ==
  /\ warned' = {p}
  /\ told' = IF p \in warned \/ p \notin Live THEN told ELSE told \cup {p}
  /\ UNCHANGED proc

\* Told once per pid, until the pid is gone.
Complain(p) ==
  /\ warned' = warned \cup {p}
  /\ told' = IF p \in warned \/ p \notin Live THEN told ELSE told \cup {p}
  /\ UNCHANGED proc

ApplyNice(p) ==
  /\ pc = "nice" /\ Visited(p)
  /\ LET e == scan[p]
         t == TargetOf(e)
         n == EffectiveNice(e, t)
     IN  \/ /\ t = Absent \/ TRUE \in SeenRt(p)
            /\ pc' = "account" /\ UNCHANGED <<proc, warned, told>>
         \/ /\ t # Absent /\ FALSE \in SeenRt(p)
            /\ pc' = "io"
            /\ IF e.nice = n THEN UNCHANGED <<proc, warned, told>>
               ELSE IF MayRenice(p, Clamped(n))
               THEN /\ proc' = [proc EXCEPT ![p].nice = Clamped(n)]
                    /\ UNCHANGED <<warned, told>>
               ELSE Complain(p)
  /\ UNCHANGED <<root, rules, todo, scan, table, prev, changed, deeds>>

ApplyIo(p) ==
  /\ pc = "io" /\ Visited(p)
  /\ pc' = "account"
  /\ LET c == TargetOf(scan[p]).io
     IN  IF c = Leave \/ (proc[p] # Absent /\ proc[p].io = c)
         THEN UNCHANGED <<proc, warned, told>>
         ELSE IF MaySetIo(p, c)
         THEN proc' = [proc EXCEPT ![p].io = c] /\ UNCHANGED <<warned, told>>
         ELSE Complain(p)
  /\ UNCHANGED <<root, rules, todo, scan, table, prev, changed, deeds>>

\* Mutant: newly seen processes are charged for all they have used.
UsedInAll(p) == scan[p].ticks - (IF prev[p] = Absent THEN 0 ELSE prev[p])

\* compute_cpu_percent: newly seen processes start at zero, and so does one that
\* has used less than another of its pid had.
Used(p) ==
  IF prev[p] = Absent \/ scan[p].ticks < prev[p] THEN 0
  ELSE scan[p].ticks - prev[p]

Account(p) ==
  /\ pc = "account" /\ Visited(p)
  /\ prev' = [prev EXCEPT ![p] = scan[p].ticks]
  /\ todo' = todo \ {p} /\ pc' = "nice"
  /\ UNCHANGED <<proc, root, rules, scan, table, warned, changed, told, deeds>>

\* Mutant: the table is only ever added to.
Accumulate ==
  /\ pc = "nice" /\ todo = {}
  /\ table' = [p \in Pid |->
       IF scan[p] = Absent \/ table[p] # Absent THEN table[p]
       ELSE [name |-> scan[p].name, nice |-> scan[p].nice]]
  /\ pc' = "idle" /\ scan' = Nobody
  /\ UNCHANGED <<proc, root, rules, todo, prev, warned, changed, told, deeds>>

\* Mutant: the ticks of the gone are kept.
KeepTicks ==
  /\ pc = "nice" /\ todo = {}
  /\ table' = [p \in Pid |-> IF scan[p] = Absent THEN Absent
                ELSE [name |-> scan[p].name, nice |-> scan[p].nice]]
  /\ warned' = {p \in warned : scan[p] # Absent}
  /\ pc' = "idle" /\ scan' = Nobody
  /\ UNCHANGED <<proc, root, rules, todo, prev, changed, told, deeds>>

\* diff_tables: what the scan no longer has is forgotten.
EndPoll ==
  /\ pc = "nice" /\ todo = {}
  /\ table' = [p \in Pid |-> IF scan[p] = Absent THEN Absent
                ELSE [name |-> scan[p].name, nice |-> scan[p].nice]]
  /\ LET removed == {p \in Keys(table) : scan[p] = Absent}
     IN  /\ prev' = [p \in Pid |-> IF p \in removed THEN Absent ELSE prev[p]]
         /\ warned' = warned \ removed
  /\ pc' = "idle" /\ scan' = Nobody
  /\ UNCHANGED <<proc, root, rules, todo, changed, told, deeds>>

----------------------------------------------------------------------------
(* A tier set in the GUI: a rule for the name of the row, and a preset at  *)
(* once for every row of that name.  Failures are not told.                *)

Deed == deeds < MaxDeeds /\ deeds' = deeds + 1

PresetNow(p, t) ==
  LET x == proc[p]
      n == IF table[p].nice # t.nice /\ MayRenice(p, Clamped(t.nice))
           THEN Clamped(t.nice) ELSE x.nice
      c == IF t.io # Leave /\ MaySetIo(p, t.io) THEN t.io ELSE x.io
  IN  IF x = Absent THEN Absent ELSE [x EXCEPT !.nice = n, !.io = c]

SetTier(p, t) ==
  /\ Deed
  /\ pc = "idle" /\ table[p] # Absent
  /\ rules' = [rules EXCEPT ![table[p].name] = t]
  /\ proc' = [q \in Pid |->
       IF table[q] # Absent /\ table[q].name = table[p].name
       THEN PresetNow(q, t) ELSE proc[q]]
  /\ UNCHANGED <<root, pc, todo, scan, kept, changed, told>>

----------------------------------------------------------------------------
(* Everybody else.                                                         *)

Touched(p) == changed' = changed \cup {p}

Exit(p) ==
  /\ Deed
  /\ proc[p] # Absent
  /\ proc' = [proc EXCEPT ![p] = Absent]
  /\ told' = told \ {p}
  /\ Touched(p)
  /\ UNCHANGED <<root, rules, pc, todo, scan, kept>>

Spawn(p, x) ==
  /\ Deed
  /\ proc[p] = Absent
  /\ proc' = [proc EXCEPT ![p] = As(x, 0, 0)]
  /\ Touched(p)
  /\ UNCHANGED <<root, rules, pc, todo, scan, kept, told>>

\* It execs, changes its user or its class, or is reniced, by itself or by
\* somebody who may.
Alter(p, x) ==
  /\ Deed
  /\ proc[p] # Absent
  /\ proc' = [proc EXCEPT ![p] = As(x, proc[p].ticks, proc[p].ran)]
  /\ Touched(p)
  /\ UNCHANGED <<root, rules, pc, todo, scan, kept, told>>

Run(p) ==
  /\ proc[p] # Absent /\ proc[p].ticks < MaxTicks
  /\ proc' = [proc EXCEPT ![p].ticks = proc[p].ticks + 1,
                          ![p].ran   = proc[p].ran + 1]
  /\ UNCHANGED <<root, rules, pc, todo, scan, kept, changed, told, deeds>>

EditRules(n, t) ==
  /\ Deed
  /\ pc = "idle"
  /\ rules' = [rules EXCEPT ![n] = t]
  /\ UNCHANGED <<proc, root, pc, todo, scan, kept, changed, told>>

\* The daemon is killed or stopped, and started again.
Restart ==
  /\ Deed
  /\ pc' = "idle" /\ todo' = {} /\ scan' = Nobody
  /\ table' = Nobody /\ prev' = Nobody /\ warned' = {} /\ told' = {}
  /\ UNCHANGED <<proc, root, rules, changed>>

----------------------------------------------------------------------------
Poll ==
  \/ BeginPoll \/ EndPoll
  \/ \E p \in Pid : ApplyNice(p) \/ ApplyIo(p) \/ Account(p)

User == \E p \in Pid, t \in Target : SetTier(p, t)

World ==
  \/ Restart
  \/ \E p \in Pid : \/ Exit(p) \/ Run(p)
                    \/ \E x \in Program : Spawn(p, x) \/ Alter(p, x)
  \/ \E n \in Name, t \in Target \cup {Absent} : EditRules(n, t)

Next == Poll \/ User \/ World

Spec == Init /\ [][Next]_vars

\* The loop polls whatever happens.
FairSpec == Spec /\ WF_vars(Poll)

----------------------------------------------------------------------------
\* The CPU share reported for a process is never more than what that process has
\* used since the poll before: nothing is taken over from another process of its
\* pid, from before the daemon came, or from two polls at once.
CpuNotInvented ==
  [][\A p \in Pid : Account(p) => Used(p) <= scan[p].ran]_vars

\* A refused call that nothing but the daemon's own attempt explains.
Explained(p) ==
  \/ p \in changed                      \* it is not what was read any more
  \/ proc[p].rt /\ proc[p].name \in Spaced
  \/ pc = "io" /\ ~root /\ TargetOf(scan[p]).io = RtIo

\* "Any scheduling write to them is pointless - and would otherwise warn once
\* per pid forever": the user hears of a process once, and never of one that
\* belongs to another user, is real-time or already nicer than its rule asks,
\* unless it became so under the poll's hands.
NoNagging ==
  [][\A p \in Pid :
       p \in warned' \ warned => p \notin told /\ Explained(p)]_vars

\* A process that still is what the daemon last read is only touched when a rule
\* or a tier for its own name asks for that, whatever had its pid before.
OnlyTheNamed ==
  [][Poll \/ User =>
       \A p \in Live \ changed :
         \/ proc'[p] = [proc[p] EXCEPT !.ran = proc'[p].ran]
         \/ rules'[proc[p].name] # Absent]_vars

\* A process that the daemon may change and will: one whose name has two blanks
\* may be taken for real-time in every poll, as long as it stays on its CPU.
Governed(p) == /\ proc[p] # Absent /\ rules[proc[p].name] # Absent
               /\ Owned(proc[p]) /\ ~proc[p].rt /\ proc[p].name \notin Twice

InForce(p) ==
  LET t == rules[proc[p].name]
  IN  /\ proc[p].nice >= t.nice /\ (root => proc[p].nice = t.nice)
      /\ t.io \notin {Leave, RtIo} => proc[p].io = t.io

\* When others let go, every process the daemon may change, but for those it
\* takes for real-time by their names, has what its rule asks for in the end,
\* whatever was refused before.
Settles == \A p \in Pid : <>[](Governed(p) => InForce(p))
=============================================================================
