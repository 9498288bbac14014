--------------------------- MODULE PrioritiesProofs --------------------------
(***************************************************************************)
(* What a poll does to other people's processes, for any set of pids,      *)
(* names, targets and programs: its own tables stay in step, no CPU time   *)
(* is invented, nobody is nagged, and only the named are touched.          *)
(***************************************************************************)
EXTENDS Priorities, TLAPS

\* Between its two steps, a process has a target.
Aimed == pc = "io" => \A p \in Pid : Visited(p) => TargetOf(scan[p]) # Absent

LEMMA StillAimed ==
  ASSUME Aimed, \/ UNCHANGED <<pc, todo, scan, root, rules>>
                \/ pc' # "io"
  PROVE  Aimed'
<1>1. CASE UNCHANGED <<pc, todo, scan, root, rules>>
  BY <1>1 DEF Aimed, Visited, TargetOf, Owned
<1>2. CASE pc' # "io" BY <1>2 DEF Aimed
<1>3. QED BY <1>1, <1>2

\* TypeOK, and what keeps it: who has been visited has been accounted for, and
\* nobody has used more since the last look than he has used in all.
TypeInv ==
  /\ TypeOK
  /\ \A p \in Pid : proc[p] # Absent => proc[p].ran <= proc[p].ticks
  /\ \A p \in Keys(scan) \ todo : prev[p] = scan[p].ticks
  /\ Aimed

LEMMA AsType ==
  ASSUME NEW x \in Program, NEW t \in 0..MaxTicks, NEW r \in 0..MaxTicks
  PROVE  As(x, t, r) \in Process
BY ProgramAssumption DEF As, Process

LEMMA TypeInit == Init => TypeInv
<1> SUFFICES ASSUME Init PROVE TypeInv
  OBVIOUS
<1>1. PICK f \in Found :
        proc = [p \in Pid |-> IF f[p] = Absent THEN Absent
                              ELSE As(f[p], MaxTicks \div 2, 0)]
  BY DEF Init
<1>2. MaxTicks \div 2 \in 0..MaxTicks /\ 0 \in 0..MaxTicks BY BoundAssumption
<1>3. \A p \in Pid : f[p] # Absent => f[p] \in Program
  BY FoundAssumption
<1>4. proc \in [Pid -> Process \cup {Absent}] BY <1>1, <1>2, <1>3, AsType
<1>5. \A p \in Pid : proc[p] # Absent => proc[p].ran <= proc[p].ticks
  BY <1>1, <1>2 DEF As
<1>6. rules \in [Name -> Target \cup {Absent}] BY ConfigAssumption DEF Init
<1>7. QED BY <1>4, <1>5, <1>6, BoundAssumption
          DEF Init, TypeInv, TypeOK, Keys, Live, Nobody, Aimed

\* Two processes that differ in what the daemon sets at most.
SameBut(x, y) ==
  /\ x.name = y.name /\ x.mine = y.mine /\ x.rt = y.rt
  /\ x.ran = y.ran /\ x.ticks = y.ticks

\* Nobody comes or goes, and nobody becomes another.
StillThere ==
  /\ proc' \in [Pid -> Process \cup {Absent}]
  /\ \A q \in Pid : /\ proc'[q] # Absent <=> proc[q] # Absent
                    /\ proc[q] # Absent => SameBut(proc'[q], proc[q])

\* A preset given to the processes of a name leaves them what they are.
LEMMA TierKeeps ==
  ASSUME TypeInv, NEW p \in Pid, NEW t \in Target, SetTier(p, t)
  PROVE  StillThere
<1>1. ASSUME NEW q \in Pid, proc[q] # Absent
      PROVE  PresetNow(q, t) \in Process /\ SameBut(PresetNow(q, t), proc[q])
  <2>1. proc[q] \in Process BY <1>1 DEF TypeInv, TypeOK
  <2>2. t.nice \in Nice /\ t.io \in Io \cup {Leave} BY TargetAssumption
  <2>3. Clamped(t.nice) \in Nice BY <2>2, NiceAssumption DEF Clamped
  <2>4. PICK n \in Nice, c \in Io :
          PresetNow(q, t) = [proc[q] EXCEPT !.nice = n, !.io = c]
    <3> DEFINE m == IF table[q].nice # t.nice /\ MayRenice(q, Clamped(t.nice))
                    THEN Clamped(t.nice) ELSE proc[q].nice
               d == IF t.io # Leave /\ MaySetIo(q, t.io)
                    THEN t.io ELSE proc[q].io
    <3>1. m \in Nice BY <2>1, <2>3 DEF Process
    <3>2. d \in Io BY <2>1, <2>2 DEF Process
    <3>3. PresetNow(q, t) = [proc[q] EXCEPT !.nice = m, !.io = d]
      BY <1>1 DEF PresetNow
    <3> HIDE DEF m, d
    <3>4. QED BY <3>1, <3>2, <3>3
  <2>5. QED BY <2>1, <2>4 DEF Process, SameBut
<1>2. \A q \in Pid : PresetNow(q, t) = Absent <=> proc[q] = Absent
  BY <1>1, AbsentAssumption DEF PresetNow
<1>3. \A q \in Pid : proc'[q] = proc[q] \/ proc'[q] = PresetNow(q, t)
  BY DEF SetTier
<1>4. \A q \in Pid : proc[q] = Absent <=> proc'[q] = Absent BY <1>2, <1>3
<1>5. \A q \in Pid : proc'[q] \in Process \cup {Absent}
  BY <1>1, <1>3, <1>4 DEF TypeInv, TypeOK
<1>6. proc' \in [Pid -> Process \cup {Absent}] BY <1>5 DEF SetTier
<1>7. QED BY <1>1, <1>3, <1>4, <1>6 DEF StillThere, SameBut

\* A process that has been changed is still one, unless it is gone.
LEMMA TypeEnvironment == ASSUME TypeInv, User \/ World PROVE TypeInv'
<1> USE AbsentAssumption, BoundAssumption, StillAimed
    DEF TypeInv, TypeOK, Keys, Live, kept, Deed
<1>1. CASE Restart BY <1>1 DEF Restart, Nobody
<1>2. ASSUME NEW p \in Pid, Exit(p) PROVE TypeInv'
  BY <1>2 DEF Exit, Touched
<1>3. ASSUME NEW p \in Pid, Run(p) PROVE TypeInv'
  <2>1. [proc[p] EXCEPT !.ticks = proc[p].ticks + 1,
                        !.ran = proc[p].ran + 1] \in Process
    <3>1. proc[p] \in Process /\ proc[p].ticks < MaxTicks BY <1>3 DEF Run
    <3>2. proc[p].ran <= proc[p].ticks BY <1>3 DEF Run
    <3>3. /\ proc[p].ticks + 1 \in 0..MaxTicks
          /\ proc[p].ran + 1 \in 0..MaxTicks
      BY <3>1, <3>2 DEF Process
    <3>4. QED BY <3>1, <3>3 DEF Process
  <2>2. proc' = [proc EXCEPT ![p] = [proc[p] EXCEPT
                   !.ticks = proc[p].ticks + 1, !.ran = proc[p].ran + 1]]
    BY <1>3 DEF Run
  <2>3. proc' \in [Pid -> Process \cup {Absent}] BY <2>1, <2>2
  <2>4. \A q \in Pid : proc'[q] # Absent => proc'[q].ran <= proc'[q].ticks
    <3>1. proc[p].ran \in Nat /\ proc[p].ticks \in Nat BY <1>3 DEF Run, Process
    <3>2. proc[p].ran <= proc[p].ticks BY <1>3 DEF Run
    <3>3. /\ proc'[p].ticks = proc[p].ticks + 1
          /\ proc'[p].ran = proc[p].ran + 1
      BY <1>3, <2>2 DEF Run, Process
    <3>4. \A q \in Pid : q # p => proc'[q] = proc[q] BY <2>2
    <3>5. QED BY <3>1, <3>2, <3>3, <3>4
  <2> DEFINE y == [proc[p] EXCEPT !.ticks = proc[p].ticks + 1,
                                  !.ran = proc[p].ran + 1]
  <2>5. y \in Process /\ y # Absent BY <2>1
  <2>6. proc' = [proc EXCEPT ![p] = y] BY <2>2
  <2> HIDE DEF y
  <2>7. \A q \in Pid : proc'[q] # Absent <=> proc[q] # Absent
    BY <1>3, <2>5, <2>6 DEF Run
  <2>8. QED BY <1>3, <2>3, <2>4, <2>7 DEF Run
<1>4. ASSUME NEW p \in Pid, NEW x \in Program, Spawn(p, x) PROVE TypeInv'
  <2>1. As(x, 0, 0) \in Process BY AsType
  <2>2. As(x, 0, 0).ran <= As(x, 0, 0).ticks BY DEF As
  <2>3. QED BY <1>4, <2>1, <2>2 DEF Spawn, Touched
<1>5. ASSUME NEW p \in Pid, NEW x \in Program, Alter(p, x) PROVE TypeInv'
  <2>1. proc[p] \in Process BY <1>5 DEF Alter
  <2> DEFINE y == As(x, proc[p].ticks, proc[p].ran)
  <2>2. y \in Process BY <2>1, AsType DEF Process
  <2>3. y.ran <= y.ticks BY <1>5 DEF As, Alter
  <2>4. proc' = [proc EXCEPT ![p] = y] BY <1>5 DEF Alter
  <2>5. y # Absent BY <2>2
  <2> HIDE DEF y
  <2>6. QED BY <1>5, <2>2, <2>3, <2>4, <2>5 DEF Alter, Touched
<1>6. ASSUME NEW n \in Name, NEW t \in Target \cup {Absent}, EditRules(n, t)
      PROVE  TypeInv'
  BY <1>6 DEF EditRules
<1>7. ASSUME NEW p \in Pid, NEW t \in Target, SetTier(p, t) PROVE TypeInv'
  <2>1. StillThere BY <1>7, TierKeeps
  <2>2. rules' \in [Name -> Target \cup {Absent}] BY <1>7 DEF SetTier
  <2>3. QED BY <1>7, <2>1, <2>2 DEF SetTier, StillThere, SameBut
<1>8. QED BY <1>1, <1>2, <1>3, <1>4, <1>5, <1>6, <1>7 DEF User, World

\* A process whose nice value or class the daemon sets is still that process.
LEMMA Reset ==
  ASSUME TypeInv, NEW p \in Pid, proc[p] # Absent, NEW n \in Nice, NEW c \in Io,
         \/ proc' = [proc EXCEPT ![p].nice = n]
         \/ proc' = [proc EXCEPT ![p].io = c]
  PROVE  StillThere
<1>1. proc[p] \in Process /\ proc \in [Pid -> Process \cup {Absent}]
  BY DEF TypeInv, TypeOK
<1> DEFINE y == [proc[p] EXCEPT !.nice = n]
           z == [proc[p] EXCEPT !.io = c]
<1>2. y \in Process /\ z \in Process BY <1>1 DEF Process
<1>3. SameBut(y, proc[p]) /\ SameBut(z, proc[p])
  BY <1>1 DEF Process, SameBut
<1>4. proc' = [proc EXCEPT ![p] = y] \/ proc' = [proc EXCEPT ![p] = z]
  OBVIOUS
<1>5. y # Absent /\ z # Absent BY <1>2, AbsentAssumption
<1> HIDE DEF y, z
<1>6. QED BY <1>1, <1>2, <1>3, <1>4, <1>5 DEF StillThere, SameBut

\* What the nice step and the ionice step do to processes and warnings.
Applied ==
  /\ StillThere
  /\ told' \subseteq Live
  /\ warned' \subseteq warned \cup todo
  /\ pc' \in {"io", "account"} /\ pc # "idle"
  /\ UNCHANGED <<root, rules, todo, scan, table, prev, changed, deeds>>

LEMMA TargetOfType ==
  ASSUME TypeInv, NEW p \in todo
  PROVE  TargetOf(scan[p]) \in Target \cup {Absent}
BY DEF TypeInv, TypeOK, Keys, TargetOf, Process

LEMMA EffectiveNiceType ==
  ASSUME TypeInv, NEW p \in todo, NEW t \in Target
  PROVE  Clamped(EffectiveNice(scan[p], t)) \in Nice
BY NiceAssumption, TargetAssumption
   DEF TypeInv, TypeOK, Keys, EffectiveNice, Clamped, Process

LEMMA NiceApplied == ASSUME TypeInv, NEW p \in Pid, ApplyNice(p) PROVE Applied
<1> DEFINE t == TargetOf(scan[p])
           n == Clamped(EffectiveNice(scan[p], t))
<1>1. p \in todo BY DEF ApplyNice, Visited
<1>2. CASE UNCHANGED <<proc, warned, told>>
  BY <1>2 DEF ApplyNice, Applied, StillThere, SameBut, TypeInv, TypeOK
<1>3. CASE t # Absent /\ MayRenice(p, n) /\ proc' = [proc EXCEPT ![p].nice = n]
           /\ UNCHANGED <<warned, told>>
  <2>1. n \in Nice BY <1>1, <1>3, TargetOfType, EffectiveNiceType
  <2>2. proc[p] # Absent BY <1>3 DEF MayRenice
  <2>3. Io # {} BY <2>2 DEF TypeInv, TypeOK, Process
  <2>4. PICK c \in Io : TRUE BY <2>3
  <2> HIDE DEF n
  <2>5. StillThere BY <1>3, <2>1, <2>2, <2>4, Reset
  <2>6. QED BY <1>3, <2>5 DEF ApplyNice, Applied, TypeInv, TypeOK
<1>4. CASE Complain(p)
  BY <1>1, <1>4
     DEF ApplyNice, Applied, Complain, StillThere, SameBut, TypeInv, TypeOK
<1>5. QED BY <1>2, <1>3, <1>4 DEF ApplyNice

LEMMA IoApplied ==
  ASSUME TypeInv, NEW p \in Pid, ApplyIo(p), TargetOf(scan[p]) # Absent
  PROVE  Applied
<1> DEFINE c == TargetOf(scan[p]).io
<1>1. p \in todo BY DEF ApplyIo, Visited
<1>2. CASE UNCHANGED <<proc, warned, told>>
  BY <1>2 DEF ApplyIo, Applied, StillThere, SameBut, TypeInv, TypeOK
<1>3. CASE c # Leave /\ MaySetIo(p, c) /\ proc' = [proc EXCEPT ![p].io = c]
           /\ UNCHANGED <<warned, told>>
  <2>1. c \in Io BY <1>1, <1>3, TargetOfType, TargetAssumption
  <2>2. proc[p] # Absent BY <1>3 DEF MaySetIo
  <2> HIDE DEF c
  <2>3. StillThere BY <1>3, <2>1, <2>2, NiceAssumption, Reset
  <2>4. QED BY <1>3, <2>3 DEF ApplyIo, Applied, TypeInv, TypeOK
<1>4. CASE Complain(p)
  BY <1>1, <1>4
     DEF ApplyIo, Applied, Complain, StillThere, SameBut, TypeInv, TypeOK
<1>5. QED BY <1>2, <1>3, <1>4 DEF ApplyIo

\* Only one process is visited at a time.
LEMMA OneVisited ==
  ASSUME TypeInv, NEW p \in Pid, NEW q \in Pid, Visited(p), Visited(q)
  PROVE  p = q
BY PidAssumption DEF Visited, TypeInv, TypeOK

\* A real-time process is passed over, unless its name has a blank.
LEMMA NotSeenRt ==
  ASSUME NEW p \in Pid, proc[p] \in Process, FALSE \in SeenRt(p)
  PROVE  ~proc[p].rt \/ proc[p].name \in Spaced
<1>1. proc[p].rt \in BOOLEAN BY DEF Process
<1>2. CASE proc[p].name \in Spaced BY <1>2
<1>3. CASE proc[p].name \notin Spaced
  <2>1. SeenRt(p) = {proc[p].rt}
    BY <1>3, NameAssumption, AbsentAssumption DEF SeenRt
  <2>2. QED BY <1>1, <2>1
<1>4. QED BY <1>2, <1>3

LEMMA NiceAims == ASSUME TypeInv, NEW p \in Pid, ApplyNice(p) PROVE Aimed'
<1>1. CASE pc' = "io"
  <2>1. TargetOf(scan[p]) # Absent BY <1>1 DEF ApplyNice
  <2>2. TargetOf(scan[p])' # Absent BY <2>1 DEF ApplyNice, TargetOf, Owned
  <2>3. \A q \in Pid : Visited(q)' => q = p
    BY OneVisited DEF ApplyNice, Visited
  <2>4. QED BY <2>2, <2>3 DEF Aimed
<1>2. CASE pc' # "io" BY <1>2 DEF Aimed
<1>3. QED BY <1>1, <1>2

LEMMA AppliedType == ASSUME TypeInv, Applied, Aimed' PROVE TypeInv'
<1>0. \A q \in Pid : /\ proc'[q] # Absent <=> proc[q] # Absent
                     /\ proc[q] # Absent => /\ proc'[q].ran = proc[q].ran
                                            /\ proc'[q].ticks = proc[q].ticks
  BY DEF Applied, StillThere, SameBut
<1>1. Live' = Live BY <1>0 DEF Live
<1>2. Keys(scan)' = Keys(scan) /\ Keys(table)' = Keys(table)
      /\ Keys(prev)' = Keys(prev)
  BY DEF Applied, Keys
<1>3. /\ todo \subseteq Keys(scan)
      /\ Keys(prev) \cup warned \subseteq Keys(table) \cup Keys(scan)
  BY DEF TypeInv, TypeOK
<1>4. Keys(prev)' \cup warned' \subseteq Keys(table)' \cup Keys(scan)'
  BY <1>2, <1>3 DEF Applied
<1>5. TypeOK'
  BY <1>1, <1>2, <1>4 DEF TypeInv, TypeOK, Applied, StillThere
<1>6. \A p \in Pid : proc'[p] # Absent => proc'[p].ran <= proc'[p].ticks
  <2>1. \A p \in Pid : proc[p] # Absent => proc[p].ran <= proc[p].ticks
    BY DEF TypeInv
  <2>2. QED BY <1>0, <2>1
<1>7. \A p \in Keys(scan)' \ todo' : prev'[p] = scan'[p].ticks
  <2>1. \A p \in Keys(scan) \ todo : prev[p] = scan[p].ticks BY DEF TypeInv
  <2>2. UNCHANGED <<scan, todo, prev>> BY DEF Applied
  <2>3. QED BY <1>2, <2>1, <2>2
<1>8. QED BY <1>5, <1>6, <1>7 DEF TypeInv

LEMMA TypePoll == ASSUME TypeInv, Poll PROVE TypeInv'
<1> USE AbsentAssumption, BoundAssumption DEF kept
<1>1. CASE BeginPoll
  <2> DEFINE y(p) == [proc[p] EXCEPT !.ran = 0]
  <2>1. \A p \in Pid : proc[p] # Absent =>
          /\ y(p) \in Process /\ y(p).ran = 0 /\ y(p).ticks \in Nat
    BY DEF TypeInv, TypeOK, Process
  <2>2. \A p \in Pid : proc[p] # Absent => y(p) # Absent BY <2>1
  <2>3. proc' = [p \in Pid |-> IF proc[p] = Absent THEN Absent ELSE y(p)]
    BY <1>1, Zenon DEF BeginPoll
  <2> HIDE DEF y
  <2>4. /\ proc' \in [Pid -> Process \cup {Absent}] /\ Live' = Live
        /\ \A p \in Pid : proc'[p] # Absent => proc'[p].ran <= proc'[p].ticks
    BY <2>1, <2>2, <2>3 DEF Live
  <2>5. Aimed' BY <1>1 DEF BeginPoll, Aimed
  <2>6. Keys(scan)' = Live /\ todo' = Live
    BY <1>1 DEF BeginPoll, Keys, Live
  <2>7. Keys(table)' = Keys(table) /\ Keys(prev)' = Keys(prev)
        /\ Keys(scan) = {}
    BY <1>1 DEF BeginPoll, Keys, TypeInv, TypeOK, Nobody
  <2>8. QED BY <1>1, <2>4, <2>5, <2>6, <2>7 DEF BeginPoll, TypeInv, TypeOK
<1>2. CASE EndPoll
  <2>1. todo = {} BY <1>2 DEF EndPoll
  <2>2. \A p \in Keys(scan) : prev[p] \in 0..MaxTicks
    BY <2>1 DEF TypeInv, TypeOK, Keys, Process
  <2>3. table' \in [Pid -> Row \cup {Absent}] /\ Keys(table)' = Keys(scan)
    <3> DEFINE r(p) == [name |-> scan[p].name, nice |-> scan[p].nice]
    <3>1. \A p \in Pid : scan[p] # Absent => r(p) \in Row /\ r(p) # Absent
      BY DEF TypeInv, TypeOK, Process, Row
    <3>2. table' = [p \in Pid |-> IF scan[p] = Absent THEN Absent ELSE r(p)]
      BY <1>2 DEF EndPoll
    <3> HIDE DEF r
    <3>3. QED BY <3>1, <3>2 DEF Keys
  <2>4. Keys(prev)' = Keys(scan)
    BY <1>2, <2>2 DEF EndPoll, Keys, TypeInv, TypeOK
  <2>5. prev' \in [Pid -> 0..MaxTicks \cup {Absent}]
    BY <1>2 DEF EndPoll, TypeInv, TypeOK
  <2>6. warned' \subseteq Keys(scan)
    BY <1>2 DEF EndPoll, TypeInv, TypeOK, Keys
  <2>7. scan' = Nobody /\ Keys(scan)' = {} /\ todo' = {}
    BY <1>2 DEF EndPoll, Keys, Nobody, TypeInv, TypeOK
  <2>8. Aimed' BY <1>2 DEF EndPoll, Aimed
  <2>9. QED BY <1>2, <2>3, <2>4, <2>5, <2>6, <2>7, <2>8
            DEF EndPoll, TypeInv, TypeOK, Nobody, Live
<1>3. ASSUME NEW p \in Pid, ApplyNice(p) PROVE TypeInv'
  BY <1>3, NiceApplied, NiceAims, AppliedType
<1>4. ASSUME NEW p \in Pid, ApplyIo(p) PROVE TypeInv'
  <2>1. TargetOf(scan[p]) # Absent BY <1>4 DEF ApplyIo, TypeInv, Aimed
  <2>2. Aimed' BY <1>4 DEF ApplyIo, Aimed
  <2>3. QED BY <1>4, <2>1, <2>2, IoApplied, AppliedType
<1>5. ASSUME NEW p \in Pid, Account(p) PROVE TypeInv'
  <2>1. p \in Keys(scan) /\ scan[p].ticks \in 0..MaxTicks
    BY <1>5 DEF Account, Visited, TypeInv, TypeOK, Keys, Process
  <2>2. prev' \in [Pid -> 0..MaxTicks \cup {Absent}]
        /\ Keys(prev)' = Keys(prev) \cup {p}
    BY <1>5, <2>1 DEF Account, TypeInv, TypeOK, Keys
  <2>3. \A q \in Keys(scan) \ todo' : prev'[q] = scan[q].ticks
    BY <1>5, <2>1 DEF Account, TypeInv, TypeOK, Keys
  <2>4. Keys(scan)' = Keys(scan) /\ Keys(table)' = Keys(table)
        /\ Live' = Live
    BY <1>5 DEF Account, Keys, Live
  <2>5. Aimed' BY <1>5 DEF Account, Aimed
  <2>6. QED BY <1>5, <2>1, <2>2, <2>3, <2>4, <2>5
            DEF Account, TypeInv, TypeOK
<1>6. QED BY <1>1, <1>2, <1>3, <1>4, <1>5 DEF Poll

LEMMA TypeStep == ASSUME TypeInv, [Next]_vars PROVE TypeInv'
<1>1. CASE UNCHANGED vars
  BY <1>1, StillAimed DEF vars, kept, TypeInv, TypeOK, Keys, Live
<1>2. QED BY <1>1, TypePoll, TypeEnvironment DEF Next

LEMMA Typed == Spec => []TypeInv
BY TypeInit, TypeStep, PTL DEF Spec

\* Nothing is kept of a process that has left the table: the ticks, warnings and
\* rows of the daemon are about the same pids between two polls.
THEOREM TablesInStep == Spec => []TypeOK
<1>1. TypeInv => TypeOK BY DEF TypeInv
<1>2. QED BY Typed, <1>1, PTL
----------------------------------------------------------------------------
\* What is charged at the next reading, or will be in this poll, is not more
\* than the process has run since the reading before.
TicksInv ==
  /\ pc # "idle" =>
       /\ \A p \in todo :
            prev[p] # Absent => scan[p].ticks - prev[p] <= scan[p].ran
       /\ \A p \in Keys(scan) :
            proc[p] # Absent => proc[p].ticks - scan[p].ticks <= proc[p].ran
  /\ pc = "idle" =>
       \A p \in Live :
         prev[p] # Absent => proc[p].ticks - prev[p] <= proc[p].ran

\* Where no poll has read anything since, only running costs ticks.
LEMMA TicksKept ==
  ASSUME TypeInv, TypeInv', TicksInv,
         UNCHANGED <<todo, scan, prev>>, pc' = "idle" <=> pc = "idle",
         \A q \in Pid : proc'[q] # Absent =>
           \/ proc'[q].ticks = 0
           \/ /\ proc[q] # Absent
              /\ proc'[q].ticks - proc[q].ticks <= proc'[q].ran - proc[q].ran
  PROVE  TicksInv'
<1>1. /\ \A p \in Live : proc[p].ticks \in Nat /\ proc[p].ran \in Nat
      /\ \A p \in Keys(scan) : scan[p].ticks \in Nat /\ scan[p].ran \in Nat
      /\ \A p \in Pid : prev[p] # Absent => prev[p] \in Nat
  BY DEF TypeInv, TypeOK, Live, Keys, Process
<1>2. \A p \in Pid : proc'[p] # Absent =>
        proc'[p].ticks \in Nat /\ proc'[p].ran \in Nat
  BY DEF TypeInv, TypeOK, Process
<1>3. CASE pc # "idle"
  <2>1. ASSUME NEW p \in Keys(scan), proc'[p] # Absent
        PROVE  proc'[p].ticks - scan[p].ticks <= proc'[p].ran
    BY <1>1, <1>2, <1>3, <2>1 DEF TicksInv, Keys, Live
  <2>2. QED BY <1>3, <2>1 DEF TicksInv, Keys
<1>4. CASE pc = "idle"
  <2>1. ASSUME NEW p \in Pid, proc'[p] # Absent, prev[p] # Absent
        PROVE  proc'[p].ticks - prev[p] <= proc'[p].ran
    BY <1>1, <1>2, <1>4, <2>1 DEF TicksInv, Live
  <2>2. QED BY <1>4, <2>1 DEF TicksInv, Live
<1>5. QED BY <1>3, <1>4

LEMMA TicksStill ==
  ASSUME TypeInv, TypeInv', TicksInv, StillThere,
         UNCHANGED <<todo, scan, prev>>, pc' = "idle" <=> pc = "idle"
  PROVE  TicksInv'
<1>1. \A q \in Pid : proc'[q] # Absent =>
        /\ proc[q] # Absent /\ proc[q] \in Process
        /\ proc'[q].ticks = proc[q].ticks /\ proc'[q].ran = proc[q].ran
  BY DEF StillThere, SameBut, TypeInv, TypeOK
<1>2. QED BY <1>1, TicksKept DEF Process

LEMMA TicksInit == ASSUME Init PROVE TicksInv
BY DEF Init, TicksInv, Nobody, Live

LEMMA TicksWorld == ASSUME TypeInv, TypeInv', TicksInv, User \/ World
                    PROVE  TicksInv'
<1> USE DEF kept
<1>1. CASE Restart BY <1>1 DEF Restart, TicksInv, Nobody, Live
<1>2. ASSUME NEW p \in Pid, Exit(p) PROVE TicksInv'
  <2>1. \A q \in Pid : proc'[q] # Absent => proc'[q] = proc[q]
    BY <1>2 DEF Exit, TypeInv, TypeOK
  <2>2. \A q \in Pid : proc[q] # Absent =>
          proc[q].ticks \in Nat /\ proc[q].ran \in Nat
    BY DEF TypeInv, TypeOK, Process
  <2>3. QED BY <1>2, <2>1, <2>2, TicksKept DEF Exit
<1>3. ASSUME NEW p \in Pid, Run(p) PROVE TicksInv'
  <2>1. proc \in [Pid -> Process \cup {Absent}] /\ proc[p] # Absent
    BY <1>3 DEF Run, TypeInv, TypeOK
  <2>2. /\ proc'[p].ticks = proc[p].ticks + 1 /\ proc'[p].ran = proc[p].ran + 1
        /\ \A q \in Pid : q # p => proc'[q] = proc[q]
    BY <1>3, <2>1 DEF Run, Process
  <2>3. \A q \in Pid : proc[q] # Absent =>
          proc[q].ticks \in Nat /\ proc[q].ran \in Nat
    BY <2>1 DEF Process
  <2>4. QED BY <1>3, <2>1, <2>2, <2>3, TicksKept DEF Run
<1>4. ASSUME NEW p \in Pid, NEW x \in Program, Spawn(p, x) PROVE TicksInv'
  <2>1. /\ proc'[p].ticks = 0
        /\ \A q \in Pid : q # p => proc'[q] = proc[q]
    BY <1>4 DEF Spawn, As, TypeInv, TypeOK
  <2>2. \A q \in Pid : proc[q] # Absent =>
          proc[q].ticks \in Nat /\ proc[q].ran \in Nat
    BY DEF TypeInv, TypeOK, Process
  <2>3. QED BY <1>4, <2>1, <2>2, TicksKept DEF Spawn
<1>5. ASSUME NEW p \in Pid, NEW x \in Program, Alter(p, x) PROVE TicksInv'
  <2>1. /\ proc'[p].ticks = proc[p].ticks /\ proc'[p].ran = proc[p].ran
        /\ \A q \in Pid : q # p => proc'[q] = proc[q]
    BY <1>5 DEF Alter, As, TypeInv, TypeOK
  <2>2. \A q \in Pid : proc[q] # Absent =>
          proc[q].ticks \in Nat /\ proc[q].ran \in Nat
    BY DEF TypeInv, TypeOK, Process
  <2>3. QED BY <1>5, <2>1, <2>2, TicksKept DEF Alter
<1>6. ASSUME NEW n \in Name, NEW t \in Target \cup {Absent}, EditRules(n, t)
      PROVE  TicksInv'
  BY <1>6 DEF EditRules, TicksInv, Keys, Live
<1>7. ASSUME NEW p \in Pid, NEW t \in Target, SetTier(p, t) PROVE TicksInv'
  BY <1>7, TierKeeps, TicksStill DEF SetTier
<1>8. QED BY <1>1, <1>2, <1>3, <1>4, <1>5, <1>6, <1>7 DEF User, World

LEMMA TicksPoll == ASSUME TypeInv, TypeInv', TicksInv, Poll PROVE TicksInv'
<1> USE DEF kept
<1>1. CASE BeginPoll
  <2>1. /\ \A p \in Pid : proc[p] # Absent =>
             /\ proc'[p].ran = 0 /\ proc'[p].ticks = proc[p].ticks
             /\ proc[p].ticks \in Nat
        /\ \A p \in Pid : proc[p] = Absent => proc'[p] = Absent
    BY <1>1 DEF BeginPoll, TypeInv, TypeOK, Process
  <2>2. /\ scan' = proc /\ todo' = Live /\ prev' = prev
        /\ pc = "idle" /\ pc' # "idle"
    BY <1>1 DEF BeginPoll
  <2>3. QED BY <2>1, <2>2 DEF TicksInv, Keys, Live
<1>2. CASE EndPoll
  <2>1. \A p \in Pid : prev'[p] # Absent =>
          p \in Keys(scan) /\ prev'[p] = scan[p].ticks
    BY <1>2 DEF EndPoll, TypeInv, TypeOK, Keys
  <2>2. pc # "idle" /\ pc' = "idle" /\ proc' = proc BY <1>2 DEF EndPoll
  <2>3. QED BY <2>1, <2>2 DEF TicksInv, Live
<1>3. ASSUME NEW p \in Pid, ApplyNice(p) PROVE TicksInv'
  BY <1>3, NiceApplied, TicksStill DEF Applied
<1>4. ASSUME NEW p \in Pid, ApplyIo(p) PROVE TicksInv'
  <2>1. TargetOf(scan[p]) # Absent BY <1>4 DEF ApplyIo, TypeInv, Aimed
  <2>2. QED BY <1>4, <2>1, IoApplied, TicksStill DEF Applied
<1>5. ASSUME NEW p \in Pid, Account(p) PROVE TicksInv'
  <2>1. \A q \in todo' : prev'[q] = prev[q] /\ q \in todo
    BY <1>5 DEF Account, TypeInv, TypeOK
  <2>2. QED BY <1>5, <2>1 DEF Account, TicksInv, Keys
<1>6. QED BY <1>1, <1>2, <1>3, <1>4, <1>5 DEF Poll

LEMMA Ticks == Spec => []TicksInv
<1>1. ASSUME TypeInv, TypeInv', TicksInv, [Next]_vars PROVE TicksInv'
  <2>1. CASE UNCHANGED vars
    BY <1>1, <2>1 DEF vars, kept, TicksInv, Keys, Live
  <2>2. QED BY <1>1, <2>1, TicksPoll, TicksWorld DEF Next
<1>2. QED BY Typed, TicksInit, <1>1, PTL DEF Spec

\* For any pids and any number of ticks, the CPU share reported for a process is
\* never more than what it has used since the poll before.
THEOREM NoCpuInvented == Spec => CpuNotInvented
<1>1. TypeInv /\ TicksInv =>
        [\A p \in Pid : Account(p) => Used(p) <= scan[p].ran]_vars
  <2> SUFFICES ASSUME TypeInv, TicksInv, NEW p \in Pid, Account(p)
               PROVE  Used(p) <= scan[p].ran
    OBVIOUS
  <2>1. p \in todo /\ pc # "idle" BY DEF Account, Visited
  <2>2. scan[p].ticks \in Nat /\ scan[p].ran \in Nat
    BY <2>1 DEF TypeInv, TypeOK, Keys, Process
  <2>3. prev[p] # Absent => scan[p].ticks - prev[p] <= scan[p].ran
    BY <2>1 DEF TicksInv
  <2>4. QED BY <2>2, <2>3 DEF Used
<1>2. QED BY Typed, Ticks, <1>1, PTL DEF CpuNotInvented

----------------------------------------------------------------------------
\* A process is what the daemon has read.
AsRead(p) ==
  /\ proc[p] # Absent
  /\ proc[p].name = scan[p].name
  /\ proc[p].mine = scan[p].mine
  /\ proc[p].rt = scan[p].rt

\* What has not changed since it was read is what was read, and its nice value
\* is until it is visited; what is about to be set is not real-time; and between
\* two polls the table names it right.
SameInv ==
  /\ \A p \in Keys(scan) \ changed : AsRead(p)
  /\ \A p \in todo \ changed :
       pc = "nice" \/ ~Visited(p) => proc[p].nice = scan[p].nice
  /\ \A p \in todo \ changed :
       pc = "io" /\ Visited(p) => ~proc[p].rt \/ proc[p].name \in Spaced
  /\ pc = "idle" => \A p \in Keys(table) \ changed :
       proc[p] # Absent /\ proc[p].name = table[p].name

LEMMA SameInit == ASSUME Init PROVE SameInv
BY DEF Init, SameInv, Keys, Nobody

\* The world says what it touches.
LEMMA SameKept ==
  ASSUME SameInv,
         UNCHANGED <<pc, todo, scan, table>>, changed \subseteq changed',
         \A q \in Pid \ changed' : proc'[q] # proc[q] =>
           /\ proc[q] # Absent => proc'[q] # Absent
           /\ proc'[q].name = proc[q].name /\ proc'[q].mine = proc[q].mine
           /\ proc'[q].rt = proc[q].rt /\ proc'[q].nice = proc[q].nice,
         TypeInv
  PROVE  SameInv'
<1>1. /\ Keys(scan)' = Keys(scan) /\ Keys(table)' = Keys(table)
      /\ todo \subseteq Keys(scan) /\ Keys(scan) \subseteq Pid
      /\ Keys(table) \subseteq Pid
  BY DEF Keys, TypeInv, TypeOK
<1>2. \A q \in Pid : Visited(q)' <=> Visited(q) BY DEF Visited
<1>3. \A q \in Keys(scan)' \ changed' : AsRead(q)'
  BY <1>1 DEF SameInv, AsRead
<1>4. \A q \in todo' \ changed' :
        pc' = "nice" \/ ~Visited(q)' => proc'[q].nice = scan'[q].nice
  BY <1>1, <1>2 DEF SameInv
<1>5. \A q \in todo' \ changed' :
        pc' = "io" /\ Visited(q)' => ~proc'[q].rt \/ proc'[q].name \in Spaced
  BY <1>1, <1>2 DEF SameInv
<1>6. pc' = "idle" => \A q \in Keys(table)' \ changed' :
        proc'[q] # Absent /\ proc'[q].name = table'[q].name
  BY <1>1 DEF SameInv
<1>7. QED BY <1>3, <1>4, <1>5, <1>6 DEF SameInv

LEMMA SameWorld == ASSUME TypeInv, SameInv, User \/ World PROVE SameInv'
<1> USE DEF kept
<1>1. CASE Restart BY <1>1 DEF Restart, SameInv, Keys, Nobody
<1>2. ASSUME NEW p \in Pid, Exit(p) PROVE SameInv'
  <2>1. \A q \in Pid \ changed' : proc'[q] = proc[q]
    BY <1>2 DEF Exit, Touched, TypeInv, TypeOK
  <2>2. QED BY <1>2, <2>1, SameKept DEF Exit, Touched
<1>3. ASSUME NEW p \in Pid, Run(p) PROVE SameInv'
  <2>1. proc \in [Pid -> Process \cup {Absent}] /\ proc[p] # Absent
    BY <1>3 DEF Run, TypeInv, TypeOK
  <2>2. proc'[p] \in Process
    BY <1>3, TypeEnvironment, AbsentAssumption, <2>1
       DEF World, TypeInv, TypeOK, Run, Process
  <2>3. /\ proc'[p].name = proc[p].name /\ proc'[p].mine = proc[p].mine
        /\ proc'[p].rt = proc[p].rt /\ proc'[p].nice = proc[p].nice
        /\ \A q \in Pid : q # p => proc'[q] = proc[q]
    BY <1>3, <2>1 DEF Run, Process
  <2>4. proc'[p] # Absent BY <2>2, AbsentAssumption
  <2>5. QED BY <1>3, <2>3, <2>4, SameKept DEF Run
<1>4. ASSUME NEW p \in Pid, NEW x \in Program, Spawn(p, x) \/ Alter(p, x)
      PROVE  SameInv'
  <2>1. \A q \in Pid \ changed' : proc'[q] = proc[q]
    BY <1>4 DEF Spawn, Alter, Touched, TypeInv, TypeOK
  <2>2. QED BY <1>4, <2>1, SameKept DEF Spawn, Alter, Touched
<1>5. ASSUME NEW n \in Name, NEW t \in Target \cup {Absent}, EditRules(n, t)
      PROVE  SameInv'
  BY <1>5, SameKept DEF EditRules
<1>6. ASSUME NEW p \in Pid, NEW t \in Target, SetTier(p, t) PROVE SameInv'
  <2>1. StillThere BY <1>6, TierKeeps
  <2>2. Keys(scan) = {} /\ todo = {} /\ pc = "idle"
    BY <1>6 DEF SetTier, TypeInv, TypeOK, Keys, Nobody
  <2>3. Keys(table)' = Keys(table) /\ Keys(scan)' = {} /\ todo' = {}
    BY <1>6, <2>2 DEF SetTier, Keys
  <2>4. \A q \in Keys(table) \ changed :
          proc'[q] # Absent /\ proc'[q].name = table[q].name
    BY <2>1, <2>2 DEF StillThere, SameBut, SameInv, Keys
  <2>5. QED BY <1>6, <2>3, <2>4 DEF SetTier, SameInv
<1>7. QED BY <1>1, <1>2, <1>3, <1>4, <1>5, <1>6 DEF User, World

\* The nice step: what it sets is not real-time, as far as is_rt_scheduled sees.
LEMMA SameNice == ASSUME TypeInv, SameInv, NEW p \in Pid, ApplyNice(p)
                  PROVE  SameInv'
<1>1. Applied BY NiceApplied
<1>2. p \in todo /\ Visited(p) /\ pc = "nice" BY DEF ApplyNice, Visited
<1>3. \A q \in Pid : Visited(q)' <=> Visited(q) BY <1>1 DEF Applied, Visited
<1>4. \A q \in Pid : Visited(q) => q = p BY <1>2, OneVisited
<1>5. Keys(scan)' = Keys(scan) /\ todo' = todo /\ changed' = changed
      /\ todo \subseteq Keys(scan) /\ Keys(scan) \subseteq Pid /\ scan' = scan
  BY <1>1 DEF Applied, Keys, TypeInv, TypeOK
<1>6. \A q \in Keys(scan)' \ changed' : AsRead(q)'
  BY <1>1, <1>5 DEF Applied, StillThere, SameBut, SameInv, AsRead
<1>7. \A q \in Pid : q # p => proc'[q] = proc[q]
  BY DEF ApplyNice, Complain, TypeInv, TypeOK
<1>8. \A q \in todo' \ changed' : ~Visited(q)' => proc'[q].nice = scan'[q].nice
  BY <1>2, <1>3, <1>4, <1>5, <1>7 DEF SameInv
<1>9. ASSUME pc' = "io", p \notin changed
      PROVE  ~proc'[p].rt \/ proc'[p].name \in Spaced
  <2>1. FALSE \in SeenRt(p) BY <1>9 DEF ApplyNice
  <2>2. proc[p] # Absent /\ proc[p] \in Process
    BY <1>2, <1>5, <1>9 DEF SameInv, AsRead, TypeInv, TypeOK
  <2>3. SameBut(proc'[p], proc[p]) BY <1>1, <2>2 DEF Applied, StillThere
  <2>4. QED BY <2>1, <2>2, <2>3, NotSeenRt DEF SameBut
<1>10. \A q \in todo' \ changed' :
         pc' = "io" /\ Visited(q)' => ~proc'[q].rt \/ proc'[q].name \in Spaced
  BY <1>3, <1>4, <1>5, <1>9
<1>11. pc' \in {"io", "account"} BY <1>1 DEF Applied
<1>12. QED BY <1>6, <1>8, <1>10, <1>11 DEF SameInv

LEMMA SameIo == ASSUME TypeInv, SameInv, NEW p \in Pid, ApplyIo(p)
                PROVE  SameInv'
<1>1. Applied BY IoApplied DEF ApplyIo, TypeInv, Aimed
<1>2. p \in todo /\ Visited(p) /\ pc = "io" /\ pc' = "account"
  BY DEF ApplyIo, Visited
<1>3. \A q \in Pid : Visited(q)' <=> Visited(q) BY <1>1 DEF Applied, Visited
<1>4. \A q \in Pid : Visited(q) => q = p BY <1>2, OneVisited
<1>5. Keys(scan)' = Keys(scan) /\ todo' = todo /\ changed' = changed
      /\ todo \subseteq Keys(scan) /\ Keys(scan) \subseteq Pid /\ scan' = scan
  BY <1>1 DEF Applied, Keys, TypeInv, TypeOK
<1>6. \A q \in Keys(scan)' \ changed' : AsRead(q)'
  BY <1>1, <1>5 DEF Applied, StillThere, SameBut, SameInv, AsRead
<1>7. \A q \in Pid : q # p => proc'[q] = proc[q]
  BY DEF ApplyIo, Complain, TypeInv, TypeOK
<1>8. \A q \in todo' \ changed' : ~Visited(q)' => proc'[q].nice = scan'[q].nice
  BY <1>2, <1>3, <1>4, <1>5, <1>7 DEF SameInv
<1>9. QED BY <1>2, <1>6, <1>8 DEF SameInv

LEMMA SamePoll == ASSUME TypeInv, SameInv, Poll PROVE SameInv'
<1> USE DEF kept
<1>1. CASE BeginPoll
  <2>1. ASSUME NEW q \in Pid, proc[q] # Absent
        PROVE  LET y == [proc[q] EXCEPT !.ran = 0]
               IN  /\ proc'[q] = y /\ y # Absent
                   /\ y.name = proc[q].name /\ y.mine = proc[q].mine
                   /\ y.rt = proc[q].rt /\ y.nice = proc[q].nice
    <3> DEFINE y == [proc[q] EXCEPT !.ran = 0]
    <3>1. proc[q] \in Process BY <2>1 DEF TypeInv, TypeOK
    <3>2. y \in Process BY <3>1, BoundAssumption DEF Process
    <3>3. y # Absent BY <3>2, AbsentAssumption
    <3>4. /\ y.name = proc[q].name /\ y.mine = proc[q].mine
          /\ y.rt = proc[q].rt /\ y.nice = proc[q].nice
      BY <3>1 DEF Process
    <3>5. proc'[q] = y BY <1>1, <2>1 DEF BeginPoll
    <3>6. QED BY <3>3, <3>4, <3>5
  <2>2. \A q \in Pid : proc[q] # Absent =>
          /\ proc'[q] # Absent /\ proc'[q].name = proc[q].name
          /\ proc'[q].mine = proc[q].mine /\ proc'[q].rt = proc[q].rt
          /\ proc'[q].nice = proc[q].nice
    BY <2>1
  <2>3. scan' = proc /\ todo' = Live /\ pc' = "nice" BY <1>1 DEF BeginPoll
  <2>4. QED BY <2>2, <2>3 DEF SameInv, AsRead, Keys, Live
<1>2. CASE EndPoll
  <2>1. Keys(scan)' = {} /\ todo' = {} /\ changed' = changed /\ proc' = proc
    BY <1>2 DEF EndPoll, Keys, Nobody
  <2>2. \A q \in Keys(table)' :
          q \in Keys(scan) /\ table'[q].name = scan[q].name
    BY <1>2 DEF EndPoll, Keys
  <2>3. QED BY <2>1, <2>2 DEF SameInv, AsRead
<1>3. ASSUME NEW p \in Pid, ApplyNice(p) PROVE SameInv'
  BY <1>3, SameNice
<1>4. ASSUME NEW p \in Pid, ApplyIo(p) PROVE SameInv'
  BY <1>4, SameIo
<1>5. ASSUME NEW p \in Pid, Account(p) PROVE SameInv'
  <2>1. \A q \in todo' : q \in todo /\ q # p BY <1>5 DEF Account
  <2>2. \A q \in todo' : ~Visited(q)
    BY <1>5, <2>1, OneVisited DEF Account, TypeInv, TypeOK, Keys
  <2>3. \A q \in todo' \ changed' : proc'[q].nice = scan'[q].nice
    BY <1>5, <2>1, <2>2 DEF Account, SameInv
  <2>4. \A q \in Keys(scan)' \ changed' : AsRead(q)'
    BY <1>5 DEF Account, SameInv, AsRead, Keys
  <2>5. pc' = "nice" BY <1>5 DEF Account
  <2>6. QED BY <2>3, <2>4, <2>5 DEF SameInv
<1>6. QED BY <1>1, <1>2, <1>3, <1>4, <1>5 DEF Poll

LEMMA Same == Spec => []SameInv
<1>1. ASSUME TypeInv, SameInv, [Next]_vars PROVE SameInv'
  <2>1. CASE UNCHANGED vars
    BY <1>1, <2>1, SameKept DEF vars, kept
  <2>2. QED BY <1>1, <2>1, SamePoll, SameWorld DEF Next
<1>2. QED BY Typed, SameInit, <1>1, PTL DEF Spec
----------------------------------------------------------------------------
\* A warning is remembered while its process is there: the poll that forgets it
\* has read the pid as gone, and who has been told about was read.
ToldInv == told \subseteq warned /\ (pc # "idle" => told \subseteq Keys(scan))

LEMMA ToldStep == ASSUME TypeInv, ToldInv, [Next]_vars PROVE ToldInv'
<1> USE DEF ToldInv
<1>1. CASE UNCHANGED vars BY <1>1 DEF vars, kept, Keys
<1>2. CASE BeginPoll
  <2>1. told \subseteq Live BY DEF TypeInv, TypeOK
  <2>2. QED BY <1>2, <2>1 DEF BeginPoll, kept, Keys, Live
<1>3. CASE EndPoll
  <2>1. told \subseteq Keys(scan) BY <1>3 DEF EndPoll
  <2>2. QED BY <1>3, <2>1 DEF EndPoll, Keys
<1>4. ASSUME NEW p \in Pid, ApplyNice(p) \/ ApplyIo(p) PROVE ToldInv'
  <2>1. p \in Keys(scan) /\ pc # "idle"
    BY <1>4 DEF ApplyNice, ApplyIo, Visited, TypeInv, TypeOK
  <2>2. UNCHANGED <<warned, told>> \/ Complain(p)
    BY <1>4 DEF ApplyNice, ApplyIo
  <2>3. scan' = scan BY <1>4 DEF ApplyNice, ApplyIo
  <2>4. QED BY <2>1, <2>2, <2>3 DEF Complain, Keys
<1>5. ASSUME NEW p \in Pid, Account(p) PROVE ToldInv'
  BY <1>5 DEF Account, Keys
<1>6. CASE User BY <1>6 DEF User, SetTier, kept, Keys
<1>7. CASE World
  BY <1>7 DEF World, Restart, Exit, Run, Spawn, Alter, EditRules, kept, Keys,
              Nobody
<1>8. QED BY <1>1, <1>2, <1>3, <1>4, <1>5, <1>6, <1>7 DEF Next, Poll

LEMMA Told == Spec => []ToldInv
<1>1. Init => ToldInv BY DEF Init, ToldInv
<1>2. QED BY Typed, <1>1, ToldStep, PTL DEF Spec

\* A nice value of a process that is what was read, is not real-time and is the
\* daemon's to set, is not refused: it is only raised, unless by root.
LEMMA NiceRefused ==
  ASSUME TypeInv, SameInv, NEW p \in Pid, ApplyNice(p), p \notin changed,
         warned' # warned
  PROVE  Explained(p)
<1> DEFINE e == scan[p]
           t == TargetOf(e)
           n == EffectiveNice(e, t)
<1>1. p \in todo /\ p \in Keys(scan) /\ pc = "nice"
  BY DEF ApplyNice, Visited, TypeInv, TypeOK
<1>2. t # Absent /\ FALSE \in SeenRt(p) /\ ~MayRenice(p, Clamped(n)) BY DEF ApplyNice
<1>3. AsRead(p) /\ proc[p].nice = e.nice BY <1>1 DEF SameInv
<1>4. proc[p] \in Process /\ e \in Process
  BY <1>1, <1>3 DEF AsRead, TypeInv, TypeOK, Keys
<1>5. Owned(e) BY <1>2 DEF TargetOf
<1>6. t \in Target BY <1>1, <1>2, TargetOfType
<1>7. e.nice \in Int /\ t.nice \in Int
  BY <1>4, <1>6, NiceAssumption, TargetAssumption DEF Process
<1>8. root \/ n >= e.nice BY <1>7 DEF EffectiveNice
<1>9. n \in Int BY <1>7 DEF EffectiveNice
<1>10. Owned(proc[p]) BY <1>3, <1>5 DEF Owned, AsRead
<1> HIDE DEF n
<1>11. root \/ Clamped(n) >= e.nice BY <1>7, <1>8, <1>9 DEF Clamped
<1>12. proc[p].rt BY <1>2, <1>3, <1>10, <1>11 DEF MayRenice, AsRead
<1>13. proc[p].name \in Spaced BY <1>2, <1>4, <1>12, NotSeenRt
<1>14. QED BY <1>12, <1>13 DEF Explained

LEMMA IoRefused ==
  ASSUME TypeInv, SameInv, NEW p \in Pid, ApplyIo(p), p \notin changed,
         warned' # warned
  PROVE  Explained(p)
<1> DEFINE e == scan[p]
           c == TargetOf(e).io
<1>1. p \in todo /\ p \in Keys(scan) /\ Visited(p) /\ pc = "io"
  BY DEF ApplyIo, Visited, TypeInv, TypeOK
<1>2. ~MaySetIo(p, c) BY DEF ApplyIo
<1>3. AsRead(p) BY <1>1 DEF SameInv
<1>4. Owned(e) BY <1>1 DEF TypeInv, Aimed, TargetOf
<1>5. Owned(proc[p]) BY <1>3, <1>4 DEF Owned, AsRead
<1>6. ~proc[p].rt \/ proc[p].name \in Spaced BY <1>1 DEF SameInv
<1>7. CASE proc[p].rt BY <1>6, <1>7 DEF Explained
<1>8. CASE ~proc[p].rt
  <2>1. ~root /\ c = RtIo BY <1>2, <1>3, <1>5, <1>8 DEF MaySetIo, AsRead
  <2>2. QED BY <1>1, <2>1 DEF Explained
<1>9. QED BY <1>7, <1>8

\* Nobody is nagged, with any programs, targets and names.
THEOREM NobodyNagged == Spec => NoNagging
<1>1. TypeInv /\ SameInv /\ ToldInv /\ [Next]_vars =>
        [\A p \in Pid : p \in warned' \ warned =>
           p \notin told /\ Explained(p)]_vars
  <2> SUFFICES ASSUME TypeInv, SameInv, ToldInv, Next,
                      NEW p \in Pid, p \in warned' \ warned
               PROVE  p \notin told /\ Explained(p)
    OBVIOUS
  <2>1. p \notin told BY DEF ToldInv
  <2>2. PICK q \in Pid : ApplyNice(q) \/ ApplyIo(q)
    BY DEF Next, Poll, User, World, BeginPoll, EndPoll, Account, SetTier,
           Restart, Exit, Run, Spawn, Alter, EditRules, kept
  <2>3. p = q BY <2>2 DEF ApplyNice, ApplyIo, Complain
  <2>4. CASE p \in changed BY <2>1, <2>4 DEF Explained
  <2>5. CASE p \notin changed
    BY <2>1, <2>2, <2>3, <2>5, NiceRefused, IoRefused
  <2>6. QED BY <2>1, <2>4, <2>5
<1>2. QED BY Typed, Same, Told, <1>1, PTL DEF Spec, NoNagging

\* Nobody is touched by what was meant for another.
THEOREM NoneButTheNamed == Spec => OnlyTheNamed
<1> DEFINE Touch(p) == \/ proc'[p] = [proc[p] EXCEPT !.ran = proc'[p].ran]
                       \/ rules'[proc[p].name] # Absent
<1>1. ASSUME TypeInv, SameInv, Poll \/ User, NEW p \in Live \ changed
      PROVE  Touch(p)
  <2>1. p \in Pid /\ proc[p] \in Process BY <1>1 DEF Live, TypeInv, TypeOK
  <2>2. proc[p] = [proc[p] EXCEPT !.ran = proc[p].ran] BY <2>1 DEF Process
  <2>3. CASE BeginPoll
    <3>1. proc'[p] = [proc[p] EXCEPT !.ran = 0]
      BY <2>1, <2>3, <1>1 DEF BeginPoll, Live
    <3>2. proc'[p].ran = 0 BY <2>1, <3>1 DEF Process
    <3>3. QED BY <3>1, <3>2
  <2>4. CASE UNCHANGED proc BY <2>2, <2>4
  <2>5. ASSUME NEW q \in Pid, ApplyNice(q) \/ ApplyIo(q) PROVE Touch(p)
    <3>1. q \in Keys(scan) /\ rules' = rules
      BY <1>1, <2>5 DEF ApplyNice, ApplyIo, Visited, TypeInv, TypeOK
    <3>2. TargetOf(scan[q]) # Absent \/ proc' = proc
      BY <1>1, <2>5 DEF ApplyNice, ApplyIo, TypeInv, Aimed
    <3>3. p # q => proc'[p] = proc[p]
      BY <1>1, <2>1, <2>5 DEF ApplyNice, ApplyIo, Complain, TypeInv, TypeOK
    <3>4. CASE p = q /\ TargetOf(scan[q]) # Absent
      <4>1. proc[p].name = scan[p].name BY <3>1, <3>4, <1>1 DEF SameInv, AsRead
      <4>2. rules[scan[p].name] # Absent BY <3>4 DEF TargetOf
      <4>3. QED BY <3>1, <4>1, <4>2
    <3>5. QED BY <2>2, <3>2, <3>3, <3>4
  <2>6. ASSUME NEW q \in Pid, NEW t \in Target, SetTier(q, t) PROVE Touch(p)
    <3>1. CASE table[p] # Absent /\ table[p].name = table[q].name
      <4>1. proc[p].name = table[p].name
        BY <2>1, <2>6, <3>1, <1>1 DEF SetTier, SameInv, Keys
      <4>2. t # Absent BY AbsentAssumption
      <4>3. proc[p].name \in Name /\ DOMAIN rules = Name
        BY <1>1, <2>1 DEF Process, TypeInv, TypeOK
      <4>4. rules'[proc[p].name] = t BY <2>6, <3>1, <4>1, <4>3 DEF SetTier
      <4>5. QED BY <4>2, <4>4
    <3>2. CASE ~(table[p] # Absent /\ table[p].name = table[q].name)
      BY <2>1, <2>2, <2>6, <3>2 DEF SetTier
    <3>3. QED BY <3>1, <3>2
  <2>7. QED BY <1>1, <2>3, <2>4, <2>5, <2>6 DEF Poll, User, EndPoll, Account
<1>2. TypeInv /\ SameInv /\ [Next]_vars =>
        [Poll \/ User => \A p \in Live \ changed :
           \/ proc'[p] = [proc[p] EXCEPT !.ran = proc'[p].ran]
           \/ rules'[proc[p].name] # Absent]_vars
  BY <1>1
<1>3. QED BY Typed, Same, <1>2, PTL DEF Spec, OnlyTheNamed
=============================================================================
