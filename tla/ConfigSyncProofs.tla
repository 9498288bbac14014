-------------------------- MODULE ConfigSyncProofs --------------------------
(***************************************************************************)
(* The dual configuration, for any settings, debounces and tolerance, and  *)
(* under any faults: what is promoted has settled and somebody changed it; *)
(* a restart agrees with the daemon it replaces; the user's last word is   *)
(* in force; and the files and the daemon implement Register.              *)
(***************************************************************************)
EXTENDS ConfigSync, TLAPS

----------------------------------------------------------------------------
(* Invariants.                                                             *)

\* No time the daemon keeps is ahead of the file or the clock it is from.
TimesInOrder ==
  /\ \A f \in File : Exists(f) => file[f].mtime =< clock
  /\ local_changed_at # Missing =>
       local_mtime_at_change \in Time /\ local_mtime_at_change =< local_changed_at

\* f is as the daemon knows it, or as the daemon wrote it: looking at it, now
\* or when its event arrives, changes nothing.
Quiet(f) == f \in events \/ Changed(f) => IsSelfWrite(f)

\* Down, the daemon knows nothing.
DownKnowsNothing ==
  pc = "down" => /\ events = {} /\ ~pending_promote /\ ~pending_local_write
                 /\ self_writes = [f \in File |-> Missing]
                 /\ known_mtimes = [f \in File |-> Missing]

\* Nothing to promote, and nothing that could bring a promotion about.
NothingToPromote ==
  /\ ~pending_promote /\ ~pending_local_write /\ "local" \notin unnoticed
  /\ ~Newer("local", "root")
  /\ pc # "down" => Quiet("local")

\* A change of the local file that is in the queue still when the daemon decides
\* to promote came after the queue was drained, and the file is too new for it.
LateEvents ==
  /\ pc \in {"local", "root", "flush", "check"} /\ "local" \in events =>
       IsSelfWrite("local") \/ (Exists("local") => file["local"].mtime = clock)
  /\ pc = "promote" /\ "local" \in events =>
       IsSelfWrite("local") \/ ~Exists("local") \/ "local" \in unnoticed
  /\ pc \in {"root", "flush", "check", "promote"} /\ Changed("local") =>
       IsSelfWrite("local") \/ "local" \in unnoticed

Caused ==
  /\ pc = "promote" => unpromoted
  /\ ~unpromoted => NothingToPromote
  /\ LateEvents

\* While everybody is considerate, at most one change is unnoticed, and it is
\* the latest ...
OneAtATime ==
  /\ \A f, g \in unnoticed : f = g
  /\ \A f \in unnoticed :
       /\ Exists(f) /\ Changed(f) /\ ~IsSelfWrite(f)
       /\ \A g \in File \ {f} : Exists(g) => file[g].mtime < file[f].mtime
  /\ pc = "root" => "local" \notin unnoticed
  /\ pc \in {"flush", "check", "promote"} => unnoticed = {}

\* ... what the daemon knows of a file is its past ...
KnowsThePast ==
  \A f \in File :
    /\ Exists(f) => file[f].cfg # Bad
    /\ known_mtimes[f] # Missing =>
         Exists(f) /\ known_mtimes[f] =< file[f].mtime
    /\ self_writes[f] # Missing =>
         Exists(f) /\ self_writes[f] =< file[f].mtime

\* ... the other files are quiet, but for the one just loaded, whose time or
\* event is not looked at yet ...
Looking == {"events", "local", "root"}
OthersQuiet ==
  /\ pc \notin Looking \/ unnoticed # {} => \A f \in File \ unnoticed : Quiet(f)
  /\ pc \in Looking /\ unnoticed = {} =>
       \A f \in File : Quiet(f) \/ (Exists(f) => file[f].cfg = active)
  /\ pc \in {"local", "root"} => events = {}
  /\ pc = "root" => Quiet("local")

\* ... a write that is due comes before the root file can change at that time,
\* unless it is due at once ...
WriteComesFirst ==
  pending_local_write =>
    /\ local_write_at \in Nat
    /\ \/ WriteDebounce = 0 \/ clock < local_write_at
       \/ /\ pc \in {"ipc", "flush"} \cup Looking
          /\ Exists("root") => file["root"].mtime < clock

\* ... and the files hold what is in force.
Latest == IF Newer("local", "root") THEN "local" ELSE "root"
FilesAgree ==
  WriteDebounce # 0 /\ unnoticed = {} /\ ~pending_local_write =>
    /\ Exists(Latest) => file[Latest].cfg = active
    /\ pending_promote /\ Exists("local") => file["local"].cfg = active

Considerate ==
  /\ OneAtATime /\ KnowsThePast /\ WriteComesFirst
  /\ pc # "down" => OthersQuiet /\ FilesAgree
  /\ pc = "promote" => pending_promote
  /\ pc = "starting" =>
       unnoticed = {} /\ known_mtimes = [f \in File |-> Mtime(f)]

----------------------------------------------------------------------------
(* Types.                                                                  *)

LEMMA DefaultType == Default \in Config
<1>1. PICK v \in Value : TRUE BY ContentAssumption
<1>2. [s \in Setting |-> v] \in Config BY DEF Config
<1>3. QED BY <1>2 DEF Default

LEMMA FileType ==
  ASSUME TypeOK, NEW f \in File, Exists(f)
  PROVE  /\ file[f].cfg \in Config \cup {Bad} /\ file[f].mtime \in Time
         /\ Mtime(f) = file[f].mtime /\ Mtime(f) # Missing
BY ContentAssumption DEF TypeOK, Exists, Mtime

LEMMA MtimeType == ASSUME TypeOK, NEW f \in File PROVE Mtime(f) \in Stamp
BY FileType DEF Mtime, Stamp

LEMMA ParsesType ==
  ASSUME TypeOK, NEW f \in File, Parses(f) PROVE file[f].cfg \in Config
BY FileType DEF Parses

LEMMA PathChangedType ==
  ASSUME TypeOK, NEW f \in File, PathChanged(f)
  PROVE  /\ active' \in Config /\ active_source' \in {"root", "local", "missing"}
         /\ pending_promote' \in BOOLEAN
         /\ local_changed_at' \in Stamp /\ local_mtime_at_change' \in Stamp
         /\ unnoticed' \subseteq File
<1>1. "local" \in File /\ "root" \in File BY DEF File
<1>2. unnoticed' \subseteq File BY DEF PathChanged, TypeOK
<1>3. CASE UNCHANGED <<active, active_source, promotion>>
  BY <1>2, <1>3 DEF TypeOK, promotion
<1>4. CASE f = "local" /\ LoadLocal /\ pending_promote' = TRUE
  <2>1. clock \in Stamp BY DEF TypeOK, Stamp
  <2>2. QED BY <1>1, <1>2, <1>4, <2>1, MtimeType, ParsesType DEF TypeOK, LoadLocal
<1>5. CASE /\ f = "root" /\ LoadRoot /\ pending_promote' = FALSE
           /\ UNCHANGED <<local_changed_at, local_mtime_at_change>>
  BY <1>1, <1>2, <1>5, ParsesType DEF TypeOK, LoadRoot
<1>6. QED BY <1>3, <1>4, <1>5 DEF PathChanged

LEMMA TypeInit == Init => TypeOK
<1> SUFFICES ASSUME Init PROVE TypeOK
  OBVIOUS
<1>1. 0 \in Time BY TimeAssumption DEF Time
<1>2. file \in [File -> [cfg : Config \cup {Bad}, mtime : Time] \cup {Missing}]
  <2>1. [cfg : Config, mtime : {0}] \subseteq [cfg : Config \cup {Bad}, mtime : Time]
    BY <1>1
  <2>2. file
        \in [File -> [cfg : Config, mtime : {0}] \cup {Missing}] BY DEF Init
  <2>3. QED BY <2>1, <2>2
<1>3. ASSUME NEW f \in File, Exists(f) PROVE file[f].cfg \in Config
  BY <1>3 DEF Init, Exists
<1>4. intent \in Config
  BY <1>3, DefaultType DEF Init, File
<1>5. QED BY <1>1, <1>2, <1>4, DefaultType DEF Init, TypeOK, Stamp, Stage

\* Everything a step replaces has its type.
LEMMA TypeStep == TypeOK /\ [Next]_vars => TypeOK'
<1> SUFFICES ASSUME TypeOK, [Next]_vars PROVE TypeOK'
  OBVIOUS
<1>t. /\ clock \in Stamp /\ Missing \in Stamp /\ clock \in Nat
      /\ "local" \in File /\ "root" \in File
  BY DEF TypeOK, Stamp, Time, File
<1>1. ASSUME NEW s \in Setting, NEW v \in Value, GuiSet(s, v) PROVE TypeOK'
  <2>1. active' \in Config /\ intent' \in Config
    BY <1>1 DEF GuiSet, TypeOK, Config
  <2>2. local_write_at' \in Nat
    BY <1>1, <1>t, TimeAssumption DEF GuiSet
  <2>3. QED BY <1>1, <2>1, <2>2
           DEF GuiSet, TypeOK, disk, promotion
<1>2. CASE \/ EndIpc \/ EndEvents \/ CheckPromote \/ Wake \/ PromoteFails
  BY <1>2 DEF EndIpc, EndEvents, CheckPromote, Wake, PromoteFails, TypeOK,
     disk, promotion, writeback, history, Stage
<1>3. ASSUME NEW f \in File, HandleEvent(f) PROVE TypeOK'
  <2>1. PathChanged(f) BY <1>3 DEF HandleEvent
  <2>2. QED BY <1>3, <2>1, PathChangedType
           DEF HandleEvent, TypeOK, writeback
<1>4. ASSUME NEW f \in File, PollMtime(f) PROVE TypeOK'
  <2>1. CASE Changed(f)
    <3>1. PathChanged(f) BY <1>4, <2>1 DEF PollMtime
    <3>2. known_mtimes' \in [File -> Stamp]
      BY <1>4, <2>1, MtimeType DEF PollMtime, TypeOK
    <3>3. QED BY <1>4, <3>1, <3>2, PathChangedType
             DEF PollMtime, TypeOK, disk, writeback, Stage
  <2>2. CASE ~Changed(f)
    BY <1>4, <2>2 DEF PollMtime, TypeOK, disk, writeback, promotion, Stage
  <2>3. QED BY <2>1, <2>2
<1>5. CASE Flush
  <2>1. [cfg |-> active, mtime |-> clock]
          \in [cfg : Config \cup {Bad}, mtime : Time]
    BY DEF TypeOK
  <2>2. file'
        \in [File -> [cfg : Config \cup {Bad}, mtime : Time] \cup {Missing}]
    BY <1>5, <2>1 DEF Flush, TypeOK
  <2>3. events' \subseteq File
    BY <1>5, <1>t DEF Flush, TypeOK, Notify
  <2>4. QED BY <1>5, <1>t, <2>2, <2>3
           DEF Flush, TypeOK, promotion, writeback, Stage
<1>6. CASE Promote
  <2>1. [cfg |-> file["local"].cfg, mtime |-> clock]
          \in [cfg : Config \cup {Bad}, mtime : Time]
    BY <1>6, <1>t, FileType DEF TypeOK, Promote
  <2>2. file'
        \in [File -> [cfg : Config \cup {Bad}, mtime : Time] \cup {Missing}]
    BY <1>6, <2>1 DEF Promote, TypeOK
  <2>3. events' \subseteq File
    BY <1>6, <1>t DEF Promote, TypeOK, Notify
  <2>4. QED BY <1>6, <1>t, <2>2, <2>3
           DEF Promote, TypeOK, promotion, writeback, Stage
<1>7. CASE Boot
  <2>1. known_mtimes' \in [File -> Stamp] BY <1>7, MtimeType DEF Boot
  <2>2. CASE LoadLocal /\ pending_promote' = TRUE
    BY <1>7, <1>t, <2>1, <2>2, MtimeType, ParsesType
       DEF Boot, LoadLocal, TypeOK, disk, writeback, Stage
  <2>3. CASE LoadRoot /\ UNCHANGED promotion
    BY <1>7, <1>t, <2>1, <2>3, ParsesType
       DEF Boot, LoadRoot, TypeOK, disk, writeback, promotion, Stage
  <2>4. QED BY <1>7, <2>2, <2>3 DEF Boot
<1>s. CASE Snapshot
  <2>1. known_mtimes' \in [File -> Stamp] BY <1>s, MtimeType DEF Snapshot
  <2>2. QED BY <1>s, <2>1
           DEF Snapshot, TypeOK, disk, promotion, writeback, history, Stage
<1>8. CASE Halt
  BY <1>8, <1>t, DefaultType DEF Halt, TypeOK, Stage
<1>9. CASE Tick
  BY <1>9, TimeAssumption
     DEF Tick, TypeOK, Time, promotion, writeback, history, Stage
<1>10. ASSUME NEW f \in File, NEW c \in Config \cup {Bad}, Edit(f, c)
       PROVE  TypeOK'
  <2>1. [cfg |-> c, mtime |-> clock]
          \in [cfg : Config \cup {Bad}, mtime : Time]
    BY DEF TypeOK
  <2>2. file'
        \in [File -> [cfg : Config \cup {Bad}, mtime : Time] \cup {Missing}]
    BY <1>10, <2>1 DEF Edit, TypeOK
  <2>3. events' \subseteq File /\ unnoticed' \subseteq File
    BY <1>10, <1>t DEF Edit, TypeOK, Notify
  <2>4. intent' \in Config BY <1>10 DEF Edit, TypeOK
  <2>5. QED BY <1>10, <2>2, <2>3, <2>4
           DEF Edit, TypeOK, promotion, writeback, Inconsiderate, WithOverlooked
<1>11. ASSUME NEW f \in File, Remove(f) PROVE TypeOK'
  <2>1. file'
        \in [File -> [cfg : Config \cup {Bad}, mtime : Time] \cup {Missing}]
    BY <1>11 DEF Remove, TypeOK
  <2>2. events' \subseteq File /\ unnoticed' \subseteq File
    BY <1>11, <1>t DEF Remove, TypeOK, Notify
  <2>3. QED BY <1>11, <2>1, <2>2
           DEF Remove, TypeOK, promotion, writeback, WithOverlooked
<1>12. CASE UNCHANGED vars BY <1>12 DEF vars, TypeOK
<1>13. QED
  BY <1>1, <1>2, <1>3, <1>4, <1>5, <1>6, <1>7, <1>s, <1>8, <1>9, <1>10, <1>11,
     <1>12 DEF Next, Daemon, User

----------------------------------------------------------------------------
(* What is promoted has settled.                                           *)

LEMMA Written ==
  ASSUME TypeOK, NEW g \in File, NEW c \in Config \cup {Bad},
         file' = [file EXCEPT ![g] = [cfg |-> c, mtime |-> clock]]
  PROVE  /\ file'[g] # Missing /\ file'[g].cfg = c /\ file'[g].mtime = clock
         /\ \A f \in File \ {g} : file'[f] = file[f]
<1>1. file'[g] = [cfg |-> c, mtime |-> clock] BY DEF TypeOK
<1>2. file'[g] \in [cfg : Config \cup {Bad}, mtime : Time]
  BY <1>1 DEF TypeOK
<1>3. QED BY <1>1, <1>2, ContentAssumption DEF TypeOK

LEMMA TimesInit == Init => TimesInOrder
<1> SUFFICES ASSUME Init PROVE TimesInOrder
  OBVIOUS
<1>1. \A f \in File : Exists(f) => file[f].mtime = 0 BY DEF Init, Exists
<1>2. QED BY <1>1 DEF Init, TimesInOrder

LEMMA LoadLocalTimes ==
  ASSUME TypeOK, TimesInOrder, LoadLocal
  PROVE  local_changed_at' # Missing =>
           /\ local_mtime_at_change' \in Time
           /\ local_mtime_at_change' =< local_changed_at'
<1>1. CASE Parses("local")
  BY <1>1, FileType DEF LoadLocal, TimesInOrder, Parses, File
<1>2. CASE ~Parses("local") BY <1>2 DEF LoadLocal, TimesInOrder
<1>3. QED BY <1>1, <1>2

LEMMA PathChangedTimes ==
  ASSUME TypeOK, TimesInOrder, NEW f \in File, PathChanged(f)
  PROVE  local_changed_at' # Missing =>
           /\ local_mtime_at_change' \in Time
           /\ local_mtime_at_change' =< local_changed_at'
BY LoadLocalTimes DEF PathChanged, promotion, TimesInOrder

LEMMA TimesStep == TypeOK /\ TimesInOrder /\ [Next]_vars => TimesInOrder'
<1> SUFFICES ASSUME TypeOK, TimesInOrder, [Next]_vars PROVE TimesInOrder'
  OBVIOUS
<1>t. /\ clock \in Time /\ clock \in Nat
      /\ \A f \in File : Exists(f) => file[f].mtime \in Nat
  BY FileType DEF TypeOK, Time
<1>1. CASE UNCHANGED <<clock, file, local_changed_at, local_mtime_at_change>>
  BY <1>1 DEF TimesInOrder, Exists
<1>2. ASSUME NEW f \in File, HandleEvent(f) PROVE TimesInOrder'
  BY <1>2, PathChangedTimes DEF HandleEvent, TimesInOrder, Exists
<1>3. ASSUME NEW f \in File, PollMtime(f) PROVE TimesInOrder'
  <2>1. CASE Changed(f)
    BY <1>3, <2>1, PathChangedTimes DEF PollMtime, disk, TimesInOrder, Exists
  <2>2. CASE ~Changed(f)
    BY <1>3, <2>2 DEF PollMtime, disk, promotion, TimesInOrder, Exists
  <2>3. QED BY <2>1, <2>2
<1>4. ASSUME Flush, file' # file PROVE TimesInOrder'
  <2>1. file' = [file EXCEPT !["local"] = [cfg |-> active, mtime |-> clock]]
    BY <1>4 DEF Flush
  <2>2. local_changed_at' = clock /\ local_mtime_at_change' = clock /\ clock' = clock
    BY <1>4 DEF Flush
  <2>3. \A f \in File : file'[f] # Missing => file'[f].mtime =< clock
    BY <1>t, <2>1, Written DEF TypeOK, File, TimesInOrder, Exists
  <2>4. QED BY <1>t, <2>2, <2>3 DEF TimesInOrder, Exists
<1>5. ASSUME Flush, file' = file PROVE TimesInOrder'
  BY <1>t, <1>5 DEF Flush, promotion, TimesInOrder, Exists
<1>6. CASE Promote
  <2>1. file["local"].cfg \in Config \cup {Bad}
    BY <1>6, FileType DEF Promote, File
  <2>2. \A f \in File : file'[f] # Missing => file'[f].mtime =< clock
    BY <1>6, <1>t, <2>1, Written DEF Promote, File, TimesInOrder, Exists
  <2>3. QED BY <1>6, <2>2 DEF Promote, TimesInOrder, Exists
<1>7. CASE Boot
  BY <1>7, LoadLocalTimes DEF Boot, disk, promotion, TimesInOrder, Exists
<1>8. CASE Halt
  BY <1>8 DEF Halt, TimesInOrder, Exists
<1>9. CASE Tick
  BY <1>9, <1>t DEF Tick, TimesInOrder, Exists, promotion
<1>10. ASSUME NEW f \in File, NEW c \in Config \cup {Bad}, Edit(f, c)
       PROVE  TimesInOrder'
  <2>1. \A g \in File : file'[g] # Missing => file'[g].mtime =< clock
    BY <1>10, <1>t, Written DEF Edit, TimesInOrder, Exists
  <2>2. QED BY <1>10, <2>1 DEF Edit, promotion, TimesInOrder, Exists
<1>11. ASSUME NEW f \in File, Remove(f) PROVE TimesInOrder'
  BY <1>11 DEF Remove, promotion, TimesInOrder, Exists, TypeOK
<1>12. QED
  BY <1>1, <1>2, <1>3, <1>4, <1>5, <1>6, <1>7, <1>8, <1>9, <1>10, <1>11
     DEF Next, Daemon, User, Snapshot, EndIpc, EndEvents, CheckPromote,
         PromoteFails, Wake, GuiSet, disk, promotion, vars

\* Types and times, always.
LEMMA TimesAlways == Spec => [](TypeOK /\ TimesInOrder)
<1>1. Init => TypeOK /\ TimesInOrder BY TypeInit, TimesInit
<1>2. TypeOK /\ TimesInOrder /\ [Next]_vars => (TypeOK /\ TimesInOrder)'
  BY TypeStep, TimesStep
<1>3. QED BY <1>1, <1>2, PTL DEF Spec

\* Every variable of sync.rs keeps its type, whatever happens to the files.
THEOREM Typed == Spec => []TypeOK
BY TimesAlways, PTL

\* PromotesSettled, for any debounce: a promotion is decided on only when the
\* local file is at least that old, however its changes were noticed.
THEOREM SettledWhenPromoted == Spec => PromotesSettled
<1>1. ASSUME TypeOK, TimesInOrder, CheckPromote, pc' = "promote"
      PROVE  clock - file["local"].mtime >= PromoteDebounce
  <2>1. /\ local_changed_at # Missing /\ Exists("local")
        /\ clock - local_changed_at >= PromoteDebounce
        /\ Mtime("local") = local_mtime_at_change
    BY <1>1 DEF CheckPromote, Settled
  <2>2. file["local"].mtime = local_mtime_at_change
    BY <1>1, <2>1 DEF Mtime
  <2>3. local_mtime_at_change \in Nat /\ local_changed_at \in Nat /\ clock \in Nat
    BY <1>1, <2>1 DEF TimesInOrder, TypeOK, Stamp, Time
  <2>4. local_mtime_at_change =< local_changed_at
    BY <1>1, <2>1 DEF TimesInOrder
  <2>5. QED BY <2>1, <2>2, <2>3, <2>4, TimeAssumption
<1>2. TypeOK /\ TimesInOrder =>
        [(CheckPromote /\ pc' = "promote") =>
           clock - file["local"].mtime >= PromoteDebounce]_vars
  BY <1>1
<1>3. QED BY <1>2, TimesAlways, PTL DEF PromotesSettled

----------------------------------------------------------------------------
(* Promotions are caused.                                                  *)

LEMMA DownInit == Init => DownKnowsNothing
BY DEF Init, DownKnowsNothing

LEMMA DownStep == DownKnowsNothing /\ [Next]_vars => DownKnowsNothing'
<1> SUFFICES ASSUME DownKnowsNothing, [Next]_vars PROVE DownKnowsNothing'
  OBVIOUS
<1>1. CASE Daemon
  BY <1>1 DEF Daemon, Snapshot, EndIpc, EndEvents, Flush, CheckPromote, Promote,
     PromoteFails, Wake, HandleEvent, PollMtime, DownKnowsNothing, File
<1>2. CASE User
  BY <1>2 DEF User, GuiSet, Edit, Remove, Unwatched, DownKnowsNothing, promotion,
     writeback
<1>3. CASE Boot \/ Halt \/ Tick
  BY <1>3 DEF Boot, Halt, Tick, DownKnowsNothing, promotion, writeback
<1>4. CASE UNCHANGED vars BY <1>4 DEF vars, DownKnowsNothing
<1>5. QED BY <1>1, <1>2, <1>3, <1>4 DEF Next

\* IsSelfWrite(f), Changed(f) and Quiet(f) are about f alone.
LEMMA AboutOne ==
  ASSUME NEW f \in File, file'[f] = file[f]
  PROVE  /\ Exists(f)' <=> Exists(f)
         /\ Mtime(f)' = Mtime(f)
         /\ self_writes'[f] = self_writes[f] =>
              (IsSelfWrite(f)' <=> IsSelfWrite(f))
         /\ known_mtimes'[f] = known_mtimes[f] => (Changed(f)' <=> Changed(f))
BY DEF Exists, Mtime, IsSelfWrite, Changed

LEMMA OwnWrite ==
  ASSUME TypeOK, NEW f \in File, file'[f] # Missing, file'[f].mtime = clock,
         self_writes'[f] = clock
  PROVE  IsSelfWrite(f)'
BY ContentAssumption DEF TypeOK, IsSelfWrite, Exists

LEMMA Known ==
  ASSUME NEW f \in File, known_mtimes'[f] = Mtime(f), file'[f] = file[f]
  PROVE  ~Changed(f)'
BY AboutOne DEF Changed

LEMMA CausedInit == Init => Caused
BY DEF Init, Caused, LateEvents

\* A step that leaves the files, and what the daemon knows of them, alone.
LEMMA LateEventsSame ==
  ASSUME LateEvents, UNCHANGED <<clock, file, self_writes, known_mtimes,
                                 unnoticed>>,
         events' \subseteq events,
         \/ pc' = pc
         \/ pc' = "local" /\ events' = {}
         \/ pc' \in {"ipc", "sleep", "events", "down"}
  PROVE  LateEvents'
<1>1. "local" \in File BY DEF File
<1>2. /\ Exists("local")' <=> Exists("local")
      /\ IsSelfWrite("local")' <=> IsSelfWrite("local")
      /\ Changed("local")' <=> Changed("local")
  BY <1>1, AboutOne
<1>3. QED BY <1>2 DEF LateEvents

\* ... keeps a promotion from coming about.
LEMMA NothingSame ==
  ASSUME NothingToPromote, UNCHANGED <<file, self_writes, known_mtimes>>,
         events' \subseteq events, "local" \notin unnoticed',
         pc # "down" \/ pc' = "down",
         ~pending_promote', ~pending_local_write'
  PROVE  NothingToPromote'
<1>1. "local" \in File /\ "root" \in File BY DEF File
<1>2. /\ IsSelfWrite("local")' <=> IsSelfWrite("local")
      /\ Changed("local")' <=> Changed("local")
  BY <1>1, AboutOne
<1>3. ~Newer("local", "root")' BY DEF NothingToPromote, Newer, Exists
<1>4. pc' # "down" => Quiet("local")'
  BY <1>2 DEF Quiet, NothingToPromote
<1>5. QED BY <1>3, <1>4 DEF NothingToPromote

LEMMA CausedStep ==
  TypeOK /\ TimesInOrder /\ DownKnowsNothing /\ Caused /\ [Next]_vars => Caused'
<1> SUFFICES ASSUME TypeOK, TimesInOrder, DownKnowsNothing, Caused, [Next]_vars
             PROVE  Caused'
  OBVIOUS
<1>f. "local" \in File /\ "root" \in File /\ "local" # "root" BY DEF File
<1>t. clock \in Nat /\ clock \in Time BY DEF TypeOK, Time
<1>1. ASSUME NEW s \in Setting, NEW v \in Value, GuiSet(s, v) PROVE Caused'
  BY <1>1, LateEventsSame DEF GuiSet, Caused, disk
<1>2. CASE EndIpc \/ EndEvents \/ Wake \/ PromoteFails
  <2>1. LateEvents'
    BY <1>2, LateEventsSame
       DEF EndIpc, EndEvents, Wake, PromoteFails, Caused, disk, history
  <2>2. ~unpromoted' => NothingToPromote'
    BY <1>2, NothingSame
       DEF EndIpc, EndEvents, Wake, PromoteFails, Caused, disk, promotion,
           writeback, history, NothingToPromote
  <2>3. pc' # "promote"
    BY <1>2 DEF EndIpc, EndEvents, Wake, PromoteFails
  <2>4. QED BY <2>1, <2>2, <2>3 DEF Caused
<1>3. CASE CheckPromote
  <2>1. ~unpromoted' => NothingToPromote'
    BY <1>3, NothingSame
       DEF CheckPromote, Caused, disk, promotion, writeback, history,
           NothingToPromote
  <2>2. CASE pc' = "sleep"
    BY <1>3, <2>1, <2>2, LateEventsSame DEF CheckPromote, Caused, disk, history
  <2>3. CASE pc' = "promote"
    <3>1. pending_promote /\ Settled BY <1>3, <2>3 DEF CheckPromote
    <3>2. unpromoted' BY <1>3, <3>1 DEF CheckPromote, Caused, history,
                                        NothingToPromote
    <3>3. file["local"].mtime # clock
      <4>1. file["local"].mtime = local_mtime_at_change
        BY <3>1 DEF Settled, Mtime
      <4>2. /\ local_mtime_at_change \in Nat /\ local_changed_at \in Nat
            /\ local_mtime_at_change =< local_changed_at
        BY <3>1 DEF Settled, TimesInOrder, TypeOK, Stamp, Time
      <4>3. QED BY <1>t, <3>1, <4>1, <4>2, TimeAssumption DEF Settled
    <3>4. /\ "local" \in events' => IsSelfWrite("local")'
          /\ Changed("local")' =>
               IsSelfWrite("local")' \/ "local" \in unnoticed'
      <4>1. UNCHANGED <<file, events, self_writes, known_mtimes, unnoticed>>
        BY <1>3 DEF CheckPromote, disk, history
      <4>2. pc = "check" BY <1>3 DEF CheckPromote
      <4>3. Exists("local") BY <3>1 DEF Settled
      <4>4. QED BY <1>f, <3>3, <4>1, <4>2, <4>3, AboutOne DEF Caused, LateEvents
    <3>5. QED BY <2>1, <2>3, <3>2, <3>4 DEF Caused, LateEvents
  <2>4. QED BY <1>3, <2>2, <2>3 DEF CheckPromote
<1>4. ASSUME NEW f \in File, HandleEvent(f) PROVE Caused'
  <2>1. LateEvents'
    BY <1>4 DEF HandleEvent, LateEvents
  <2>2. ASSUME ~unpromoted PROVE NothingToPromote'
    <3>1. NothingToPromote /\ (f = "local" => IsSelfWrite(f)) /\ PathChanged(f)
      BY <1>4, <2>2 DEF HandleEvent, Caused, NothingToPromote, Quiet
    <3>2. ~pending_promote' /\ "local" \notin unnoticed'
      BY <3>1 DEF PathChanged, promotion, NothingToPromote
    <3>3. QED BY <1>4, <3>1, <3>2, NothingSame
             DEF HandleEvent, writeback, NothingToPromote
  <2>3. QED BY <1>4, <2>1, <2>2 DEF HandleEvent, Caused
<1>5. ASSUME NEW f \in File, PollMtime(f) PROVE Caused'
  <2>1. /\ UNCHANGED <<clock, file, events, self_writes, unpromoted>> /\ pc = f
        /\ pc' = IF f = "local" THEN "root" ELSE "flush"
        /\ pending_local_write' = pending_local_write
    BY <1>5 DEF PollMtime, disk, writeback
  <2>2. \A g \in File : known_mtimes'[g] = IF g = f THEN Mtime(g)
                                            ELSE known_mtimes[g]
    BY <1>5 DEF PollMtime, TypeOK, Changed
  <2>3. unnoticed' = unnoticed \/ unnoticed' = unnoticed \ {f}
    BY <1>5 DEF PollMtime, PathChanged
  <2>4. f = "local" => ~Changed("local")'
    BY <1>f, <2>1, <2>2, Known
  <2>5. /\ Exists("local")' <=> Exists("local")
        /\ IsSelfWrite("local")' <=> IsSelfWrite("local")
        /\ f = "root" => (Changed("local")' <=> Changed("local"))
    BY <1>f, <2>1, <2>2, AboutOne
  <2>6. LateEvents'
    BY <1>f, <2>1, <2>3, <2>4, <2>5 DEF Caused, LateEvents, File
  <2>7. ASSUME ~unpromoted PROVE NothingToPromote'
    <3>1. NothingToPromote /\ (f = "local" /\ Changed(f) => IsSelfWrite(f))
      BY <2>1, <2>7 DEF Caused, NothingToPromote, Quiet, File
    <3>2. ~pending_promote'
      BY <1>5, <3>1 DEF PollMtime, PathChanged, promotion, NothingToPromote
    <3>3. /\ "local" \notin unnoticed' /\ ~pending_local_write' /\ pc # "down"
          /\ ~Newer("local", "root")'
      BY <1>f, <2>1, <2>3, <3>1 DEF NothingToPromote, Newer, Exists, File
    <3>4. Quiet("local")'
      BY <2>1, <2>4, <2>5, <3>1, <3>3 DEF Quiet, NothingToPromote, File
    <3>5. QED BY <3>2, <3>3, <3>4 DEF NothingToPromote
  <2>8. QED BY <2>1, <2>6, <2>7 DEF Caused
<1>6. CASE Flush
  <2>1. /\ UNCHANGED <<clock, known_mtimes, unnoticed, unpromoted>>
        /\ pc = "flush" /\ pc' = "check"
    BY <1>6 DEF Flush
  <2>2. CASE file' = file /\ UNCHANGED <<events, self_writes, promotion>>
    <3>1. /\ Exists("local")' <=> Exists("local")
          /\ IsSelfWrite("local")' <=> IsSelfWrite("local")
          /\ Changed("local")' <=> Changed("local")
      BY <1>f, <2>1, <2>2, AboutOne
    <3>2. LateEvents' BY <2>1, <2>2, <3>1 DEF Caused, LateEvents
    <3>3. ~pending_local_write => ~pending_local_write'
      BY <1>6 DEF Flush
    <3>4. ~unpromoted => NothingToPromote'
      BY <2>1, <2>2, <3>3, NothingSame DEF Caused, NothingToPromote, promotion
    <3>5. QED BY <2>1, <3>2, <3>4 DEF Caused
  <2>3. CASE /\ pending_local_write
             /\ file' = [file EXCEPT !["local"] =
                           [cfg |-> active, mtime |-> clock]]
             /\ self_writes' = [self_writes EXCEPT !["local"] = clock]
    <3>1. active \in Config \cup {Bad} BY DEF TypeOK
    <3>2. file'["local"] # Missing /\ file'["local"].mtime = clock
      BY <1>f, <2>3, <3>1, Written
    <3>3. self_writes'["local"] = clock BY <1>f, <2>3 DEF TypeOK
    <3>4. IsSelfWrite("local")' BY <1>f, <3>2, <3>3, OwnWrite
    <3>5. unpromoted BY <2>3 DEF Caused, NothingToPromote
    <3>6. QED BY <2>1, <3>4, <3>5 DEF Caused, LateEvents
  <2>4. QED BY <1>6, <2>2, <2>3 DEF Flush
<1>7. CASE Promote
  <2>1. LateEvents' BY <1>7 DEF Promote, LateEvents
  <2>2. ASSUME ~unpromoted' PROVE NothingToPromote'
    <3>1. /\ ~pending_local_write /\ "local" \notin unnoticed
          /\ UNCHANGED <<clock, pending_local_write, unnoticed, known_mtimes>>
          /\ ~pending_promote' /\ pc = "promote" /\ pc' = "sleep"
      BY <1>7, <2>2 DEF Promote, writeback
    <3>2. file["local"].cfg \in Config \cup {Bad}
      BY <1>7, <1>f, FileType DEF Promote
    <3>3. /\ file'["root"] # Missing /\ file'["root"].mtime = clock
          /\ file'["local"] = file["local"]
      BY <1>7, <1>f, <3>2, Written DEF Promote
    <3>4. ~Newer("local", "root")'
      <4>1. file["local"].mtime \in Nat /\ file["local"].mtime =< clock
        BY <1>7, <1>f, FileType DEF Promote, TimesInOrder, Time
      <4>2. QED BY <1>t, <3>3, <4>1 DEF Newer, Exists
    <3>5. "local" \in events' => "local" \in events
      BY <1>7, <1>f DEF Promote, Notify
    <3>6. self_writes'["local"] = self_writes["local"]
      BY <1>7, <1>f DEF Promote, TypeOK
    <3>7. Exists("local") BY <1>7 DEF Promote
    <3>8. Quiet("local")'
      BY <1>f, <3>1, <3>3, <3>5, <3>6, <3>7, AboutOne
         DEF Quiet, Caused, LateEvents
    <3>9. QED BY <3>1, <3>4, <3>8 DEF NothingToPromote
  <2>3. QED BY <1>7, <2>1, <2>2 DEF Promote, Caused
<1>8. CASE Boot
  <2>1. /\ UNCHANGED <<clock, file, events, self_writes, unpromoted>>
        /\ pc = "down" /\ pc' = "starting" /\ unnoticed' = {} /\ UNCHANGED writeback
        /\ known_mtimes' = [f \in File |-> Mtime(f)]
    BY <1>8 DEF Boot, disk
  <2>2. events' = {} /\ ~pending_promote /\ ~pending_local_write'
    BY <2>1 DEF DownKnowsNothing, writeback
  <2>3. ASSUME ~unpromoted PROVE NothingToPromote'
    <3>1. ~Newer("local", "root") BY <2>3 DEF Caused, NothingToPromote
    <3>2. ~pending_promote' BY <1>8, <2>2, <3>1 DEF Boot, promotion
    <3>3. ~Newer("local", "root")' BY <2>1, <3>1 DEF Newer, Exists
    <3>4. Quiet("local")' BY <1>f, <2>1, <2>2, Known DEF Quiet
    <3>5. QED BY <2>1, <2>2, <3>2, <3>3, <3>4 DEF NothingToPromote
  <2>4. QED BY <2>1, <2>3 DEF Caused, LateEvents
<1>s. CASE Snapshot
  <2>1. /\ UNCHANGED <<file, events, self_writes, unnoticed, unpromoted,
                       pending_promote, pending_local_write>>
        /\ pc = "starting" /\ pc' = "ipc"
        /\ known_mtimes' = [f \in File |-> Mtime(f)]
    BY <1>s DEF Snapshot, disk, promotion, writeback, history
  <2>2. ASSUME ~unpromoted PROVE NothingToPromote'
    <3>1. NothingToPromote BY <2>2 DEF Caused
    <3>2. ~Newer("local", "root")' BY <2>1, <3>1 DEF NothingToPromote, Newer, Exists
    <3>3. ~Changed("local")' BY <1>f, <2>1, Known
    <3>4. IsSelfWrite("local")' <=> IsSelfWrite("local") BY <1>f, <2>1, AboutOne
    <3>5. Quiet("local")' BY <2>1, <3>1, <3>3, <3>4 DEF NothingToPromote, Quiet
    <3>6. QED BY <2>1, <3>1, <3>2, <3>5 DEF NothingToPromote
  <2>3. QED BY <2>1, <2>2 DEF Caused, LateEvents
<1>9. CASE Halt
  BY <1>9 DEF Halt, Caused, LateEvents, NothingToPromote, Newer, Exists
<1>10. CASE Tick
  <2>1. /\ UNCHANGED <<file, events, self_writes, known_mtimes, unnoticed,
                       unpromoted, pending_promote, pending_local_write>>
        /\ \/ pc = "sleep" /\ pc' = "ipc"
           \/ pc = "down" /\ pc' = "down"
    BY <1>10 DEF Tick, promotion, writeback, history
  <2>2. LateEvents' BY <2>1 DEF LateEvents
  <2>3. ~unpromoted' => NothingToPromote'
    BY <2>1, NothingSame DEF Caused, NothingToPromote
  <2>4. QED BY <2>1, <2>2, <2>3 DEF Caused
<1>11. ASSUME NEW f \in File, NEW c \in Config \cup {Bad}, Edit(f, c)
       PROVE  Caused'
  <2>1. /\ UNCHANGED <<clock, self_writes, known_mtimes, pc>>
        /\ unnoticed' = unnoticed \cup {f} /\ unpromoted' = TRUE
    BY <1>11 DEF Edit
  <2>2. CASE f = "local"
    <3>1. file'["local"].mtime = clock
      BY <1>11, <2>2, Written DEF Edit
    <3>2. QED BY <2>1, <2>2, <3>1 DEF Caused, LateEvents, Exists
  <2>3. CASE f = "root"
    <3>1. file'["local"] = file["local"]
      BY <1>11, <1>f, <2>3, Written DEF Edit
    <3>2. "local" \in events' => "local" \in events
      BY <1>11, <2>3 DEF Edit, Notify
    <3>3. QED BY <1>f, <2>1, <2>3, <3>1, <3>2, AboutOne DEF Caused, LateEvents
  <2>4. QED BY <2>2, <2>3 DEF File
<1>12. ASSUME NEW f \in File, Remove(f) PROVE Caused'
  <2>1. /\ UNCHANGED <<clock, self_writes, known_mtimes, pc>>
        /\ unpromoted' = TRUE
        /\ unnoticed' = IF known_mtimes[f] = Missing
                         THEN unnoticed \ {f} ELSE unnoticed \cup {f}
    BY <1>12 DEF Remove
  <2>2. CASE f = "local"
    <3>1. file'["local"] = Missing BY <1>12, <2>2 DEF Remove, TypeOK
    <3>2. Changed("local")' => "local" \in unnoticed'
      BY <2>1, <2>2, <3>1 DEF Changed, Mtime, Exists
    <3>3. QED BY <2>1, <3>1, <3>2 DEF Caused, LateEvents, Exists
  <2>3. CASE f = "root"
    <3>1. file'["local"] = file["local"]
      BY <1>12, <1>f, <2>3 DEF Remove, TypeOK
    <3>2. "local" \in events' => "local" \in events
      BY <1>12, <2>3 DEF Remove, Notify
    <3>3. "local" \in unnoticed' <=> "local" \in unnoticed
      BY <1>f, <2>1, <2>3
    <3>4. QED BY <1>f, <2>1, <3>1, <3>2, <3>3, AboutOne DEF Caused, LateEvents
  <2>4. QED BY <2>2, <2>3 DEF File
<1>13. CASE UNCHANGED vars
  <2>1. LateEvents'
    BY <1>13 DEF vars, Caused, LateEvents, IsSelfWrite, Changed, Mtime, Exists
  <2>2. ~unpromoted' => NothingToPromote'
    BY <1>13, NothingSame DEF vars, Caused, NothingToPromote
  <2>3. QED BY <1>13, <2>1, <2>2 DEF vars, Caused
<1>14. QED
  BY <1>1, <1>2, <1>3, <1>4, <1>5, <1>6, <1>7, <1>8, <1>s, <1>9, <1>10, <1>11,
     <1>12, <1>13 DEF Next, Daemon, User

\* What holds whatever anybody does.
Always == TypeOK /\ TimesInOrder /\ DownKnowsNothing /\ Caused

LEMMA AlwaysInit == Init => Always
BY TypeInit, TimesInit, DownInit, CausedInit DEF Always

LEMMA AlwaysStep == Always /\ [Next]_vars => Always'
BY TypeStep, TimesStep, DownStep, CausedStep DEF Always

\* PromotesAreCaused, for any number of settings and under all faults: the
\* daemon's own writes bring no second promotion about.
THEOREM PromotionsCaused == Spec => PromotesAreCaused
<1>1. Always => [Promote => unpromoted]_vars
  BY DEF Always, Caused, Promote
<1>2. QED BY <1>1, AlwaysInit, AlwaysStep, PTL DEF Spec, PromotesAreCaused

----------------------------------------------------------------------------
(* With considerate users.                                                 *)

LEMMA ConsiderateInit == Init => Considerate
<1> SUFFICES ASSUME Init PROVE Considerate
  OBVIOUS
<1>1. \A f \in File : Exists(f) => file[f].cfg # Bad
  BY ContentAssumption DEF Init, Exists
<1>2. QED
  BY <1>1 DEF Init, Considerate, OneAtATime, KnowsThePast, WriteComesFirst

\* Looking at a file, because of its event or its time.
LEMMA LookedAt ==
  ASSUME Always, Considerate, pc \in Looking, NEW f \in File,
         f \in events \/ Changed(f), PathChanged(f)
  PROVE  /\ unnoticed' = unnoticed \ {f}
         /\ unnoticed' # {} => unnoticed' = unnoticed /\ active' = active
         /\ active' # active => unnoticed # {}
         /\ unnoticed' = {} => \A g \in File :
              \/ IF g = f THEN IsSelfWrite(f) ELSE Quiet(g)
              \/ Exists(g) => file[g].cfg = active'
         /\ WriteDebounce # 0 /\ unnoticed' = {} /\ ~pending_local_write =>
              /\ Exists(Latest) => file[Latest].cfg = active'
              /\ pending_promote' /\ Exists("local") =>
                   file["local"].cfg = active'
<1>1. /\ TypeOK /\ OneAtATime /\ KnowsThePast /\ OthersQuiet /\ FilesAgree
      /\ unnoticed' = unnoticed \ {f}
  BY DEF Always, Considerate, Looking, PathChanged
<1>2. CASE IsSelfWrite(f)
  <2>1. f \notin unnoticed BY <1>1, <1>2 DEF OneAtATime
  <2>2. UNCHANGED <<active, pending_promote, unnoticed>>
    BY <1>1, <1>2, <2>1 DEF PathChanged, promotion
  <2>3. QED BY <1>1, <1>2, <2>2 DEF OthersQuiet, FilesAgree
<1>3. CASE ~IsSelfWrite(f) /\ f \in unnoticed
  <2>1. unnoticed = {f} /\ unnoticed' = {}
    BY <1>1, <1>3 DEF OneAtATime, TypeOK
  <2>2. Exists(f) /\ Parses(f)
    BY <1>1, <1>3 DEF OneAtATime, KnowsThePast, Parses
  <2>3. active' = file[f].cfg /\ pending_promote' = (f = "local")
    BY <1>3, <2>2 DEF PathChanged, LoadLocal, LoadRoot
  <2>4. \A g \in File \ {f} : Quiet(g) BY <1>1, <2>1 DEF OthersQuiet
  <2>5. f = Latest
    <3>1. \A g \in File \ {f} : Exists(g) => file[g].mtime < file[f].mtime
      BY <1>1, <1>3 DEF OneAtATime
    <3>2. \A g \in File : Exists(g) => file[g].mtime \in Nat
      BY <1>1, FileType DEF Time
    <3>3. QED BY <2>2, <3>1, <3>2 DEF Latest, Newer, File
  <2>6. QED BY <1>1, <2>1, <2>3, <2>4, <2>5
<1>4. CASE ~IsSelfWrite(f) /\ f \notin unnoticed
  <2>1. ~Quiet(f) BY <1>4 DEF Quiet
  <2>2. unnoticed = {} /\ unnoticed' = {}
    BY <1>1, <1>4, <2>1 DEF OthersQuiet
  <2>3. Exists(f) => file[f].cfg = active
    BY <1>1, <2>1, <2>2 DEF OthersQuiet
  <2>4. active' = active /\ pending_promote' = (f = "local")
    BY <1>4, <2>3 DEF PathChanged, LoadLocal, LoadRoot, Parses
  <2>5. QED BY <1>1, <2>2, <2>3, <2>4 DEF OthersQuiet, FilesAgree
<1>5. QED BY <1>2, <1>3, <1>4

\* Steps that leave the files, and what the daemon knows of them, alone.
LEMMA FilesAlone ==
  ASSUME UNCHANGED <<file, self_writes, known_mtimes>>
  PROVE  /\ \A f \in File : /\ Exists(f)' <=> Exists(f)
                            /\ IsSelfWrite(f)' <=> IsSelfWrite(f)
                            /\ Changed(f)' <=> Changed(f)
         /\ Latest' = Latest
         /\ KnowsThePast => KnowsThePast'
<1>1. \A f \in File : /\ Exists(f)' <=> Exists(f)
                      /\ IsSelfWrite(f)' <=> IsSelfWrite(f)
                      /\ Changed(f)' <=> Changed(f)
  <2> TAKE f \in File
  <2>1. Exists(f)' <=> Exists(f) BY DEF Exists
  <2>2. IsSelfWrite(f)' <=> IsSelfWrite(f) BY DEF IsSelfWrite, Exists
  <2>3. Changed(f)' <=> Changed(f) BY DEF Changed, Mtime, Exists
  <2>4. QED BY <2>1, <2>2, <2>3
<1>2. Latest' = Latest BY DEF Latest, Newer, Exists
<1>3. ASSUME KnowsThePast PROVE KnowsThePast'
  <2>1. file' = file /\ self_writes' = self_writes /\ known_mtimes' = known_mtimes
    OBVIOUS
  <2>2. QED BY <1>3, <2>1 DEF KnowsThePast, Exists
<1>4. QED BY <1>1, <1>2, <1>3

LEMMA SameQuiet ==
  ASSUME UNCHANGED <<file, self_writes, known_mtimes>>, events' \subseteq events
  PROVE  \A f \in File : Quiet(f) => Quiet(f)'
BY DEF Quiet, Exists, IsSelfWrite, Changed, Mtime

LEMMA SameOne ==
  ASSUME OneAtATime, UNCHANGED <<file, self_writes, known_mtimes>>,
         unnoticed' \subseteq unnoticed,
         pc' = "root" => "local" \notin unnoticed',
         pc' \in {"flush", "check", "promote"} => unnoticed' = {},
         unnoticed \subseteq File
  PROVE  OneAtATime'
BY DEF OneAtATime, Exists, IsSelfWrite, Changed, Mtime

\* While nobody does what the daemon does not cope with, everything above holds.
LEMMA ConsiderateStep ==
  Always /\ (~messy => Considerate) /\ [Next]_vars => (~messy' => Considerate')
<1> SUFFICES ASSUME Always, ~messy => Considerate, [Next]_vars, ~messy'
             PROVE  Considerate'
  OBVIOUS
<1>a. TypeOK /\ TimesInOrder /\ DownKnowsNothing BY DEF Always
<1>f. "local" \in File /\ "root" \in File /\ "local" # "root" BY DEF File
<1>t. clock \in Nat /\ clock \in Time BY <1>a DEF TypeOK, Time
<1>m. /\ OneAtATime /\ KnowsThePast /\ WriteComesFirst
      /\ pc # "down" => OthersQuiet /\ FilesAgree
      /\ pc = "promote" => pending_promote
      /\ pc = "starting" =>
           unnoticed = {} /\ known_mtimes = [f \in File |-> Mtime(f)]
  <2>1. ~messy
    BY DEF Next, Daemon, User, Snapshot, EndIpc, EndEvents, Flush, CheckPromote, Promote,
       PromoteFails, Wake, HandleEvent, PollMtime, GuiSet, Edit, Remove, Boot,
       Halt, Tick, history, vars
  <2>2. QED BY <2>1 DEF Considerate
<1>n. \A f \in File : Exists(f) => file[f].mtime \in Nat /\ file[f].mtime =< clock
  BY <1>a, FileType DEF TimesInOrder, Time
<1>s. pc' = "starting" =>
        unnoticed' = {} /\ known_mtimes' = [f \in File |-> Mtime(f)']
  <2>1. CASE Boot
    <3>1. unnoticed' = {} /\ known_mtimes' = [f \in File |-> Mtime(f)]
          /\ file' = file
      BY <2>1 DEF Boot, disk
    <3>2. QED BY <3>1 DEF Mtime, Exists
  <2>2. ASSUME pc' = "starting", ~Boot
        PROVE  UNCHANGED <<pc, file, unnoticed, known_mtimes>>
    BY <2>2 DEF Next, Daemon, User, Snapshot, EndIpc, EndEvents, Flush,
         CheckPromote, Promote, PromoteFails, Wake, HandleEvent, PollMtime, GuiSet,
         Edit, Inconsiderate, Remove, Halt, Tick, history, disk, vars
  <2>3. QED BY <1>m, <2>1, <2>2 DEF Mtime, Exists
<1>1. ASSUME NEW s \in Setting, NEW v \in Value, GuiSet(s, v) PROVE Considerate'
  <2>1. /\ UNCHANGED <<file, events, self_writes, known_mtimes, unnoticed, pc, clock>>
        /\ pc = "ipc" /\ pending_local_write' /\ unnoticed = {}
        /\ local_write_at' = clock + WriteDebounce
    BY <1>1 DEF GuiSet, disk
  <2>2. OneAtATime' /\ KnowsThePast'
    BY <1>a, <1>m, <2>1, FilesAlone, SameOne DEF TypeOK
  <2>3. OthersQuiet' BY <1>m, <2>1, SameQuiet DEF OthersQuiet, Looking
  <2>4. WriteComesFirst' BY <1>t, <2>1, TimeAssumption DEF WriteComesFirst
  <2>5. QED BY <1>s, <2>1, <2>2, <2>3, <2>4 DEF Considerate, FilesAgree
<1>2. CASE Snapshot \/ EndIpc \/ EndEvents \/ Wake \/ PromoteFails \/ CheckPromote
  <2>1. /\ UNCHANGED <<file, events, self_writes, known_mtimes, unnoticed, clock,
                       active, pending_local_write, local_write_at>>
        /\ \/ pc \in {"starting", "sleep"} /\ pc' = "ipc"
           \/ pc = "ipc" /\ pc' = "events"
           \/ pc = "events" /\ pc' = "local" /\ events = {}
           \/ pc = "promote" /\ pc' = "sleep"
           \/ pc = "check" /\ pc' \in {"promote", "sleep"}
        /\ pending_promote' => pending_promote
        /\ pc' = "promote" => pending_promote'
    BY <1>m, <1>2 DEF Snapshot, EndIpc, EndEvents, Wake, PromoteFails,
                      CheckPromote, disk, promotion, writeback, history
  <2>2. OneAtATime'
    <3>1. pc' \in {"flush", "check", "promote"} => unnoticed' = {}
      BY <1>m, <2>1 DEF OneAtATime
    <3>2. QED BY <1>a, <1>m, <2>1, <3>1, SameOne DEF TypeOK
  <2>3. KnowsThePast' BY <1>m, <2>1, FilesAlone
  <2>4. WriteComesFirst' BY <1>m, <2>1 DEF WriteComesFirst, Looking, Exists
  <2>5. OthersQuiet'
    <3>1. \A f \in File : Quiet(f) => Quiet(f)' BY <2>1, SameQuiet
    <3>2. \A f \in File : Exists(f)' <=> Exists(f) BY <2>1 DEF Exists
    <3>3. pc \in Looking /\ unnoticed = {} =>
            \A f \in File : Quiet(f) \/ (Exists(f) => file[f].cfg = active)
      BY <1>m, <2>1 DEF OthersQuiet
    <3>4. pc \notin Looking \/ unnoticed # {} =>
            \A f \in File \ unnoticed : Quiet(f)
      BY <1>m, <2>1 DEF OthersQuiet
    <3>5. QED BY <2>1, <3>1, <3>2, <3>3, <3>4 DEF OthersQuiet, Looking
  <2>6. FilesAgree'
    <3>1. FilesAgree /\ Latest' = Latest /\ Latest \in File
      BY <1>f, <1>m, <2>1, FilesAlone DEF Latest
    <3>2. QED BY <2>1, <3>1 DEF FilesAgree, Exists
  <2>7. QED BY <1>s, <2>1, <2>2, <2>3, <2>4, <2>5, <2>6 DEF Considerate
<1>3. ASSUME NEW f \in File, HandleEvent(f) PROVE Considerate'
  <2>1. /\ UNCHANGED <<clock, file, self_writes, known_mtimes, pc,
                       pending_local_write, local_write_at>>
        /\ pc = "events" /\ f \in events /\ events' = events \ {f}
        /\ PathChanged(f)
    BY <1>3 DEF HandleEvent, writeback
  <2>2. Considerate BY <1>m DEF Considerate
  <2>3. /\ unnoticed' = unnoticed \ {f}
        /\ unnoticed' # {} => unnoticed' = unnoticed /\ active' = active
        /\ unnoticed' = {} => \A g \in File :
             \/ IF g = f THEN IsSelfWrite(f) ELSE Quiet(g)
             \/ Exists(g) => file[g].cfg = active'
        /\ WriteDebounce # 0 /\ unnoticed' = {} /\ ~pending_local_write =>
             /\ Exists(Latest) => file[Latest].cfg = active'
             /\ pending_promote' /\ Exists("local") =>
                  file["local"].cfg = active'
    BY <2>1, <2>2, LookedAt DEF Looking
  <2>4. OneAtATime' /\ KnowsThePast'
    BY <1>a, <1>m, <2>1, <2>3, FilesAlone, SameOne DEF TypeOK
  <2>5. WriteComesFirst' BY <1>m, <2>1 DEF WriteComesFirst, Exists
  <2>6. OthersQuiet'
    <3>1. \A g \in File : Exists(g)' <=> Exists(g) BY <2>1 DEF Exists
    <3>2. \A g \in File : IsSelfWrite(g) => Quiet(g)'
      BY <2>1, AboutOne DEF Quiet
    <3>3. \A g \in File : Quiet(g) => Quiet(g)' BY <2>1, SameQuiet
    <3>4. unnoticed # {} => \A g \in File \ unnoticed : Quiet(g)
      BY <1>m, <2>1 DEF OthersQuiet
    <3>5. unnoticed' = {} =>
            \A g \in File : Quiet(g)' \/ (Exists(g)' => file'[g].cfg = active')
      BY <2>1, <2>3, <3>1, <3>2, <3>3
    <3>6. unnoticed' # {} => \A g \in File \ unnoticed' : Quiet(g)'
      BY <2>3, <3>3, <3>4
    <3>7. QED BY <2>1, <3>5, <3>6 DEF OthersQuiet, Looking
  <2>7. FilesAgree'
    BY <1>f, <2>1, <2>3, FilesAlone DEF FilesAgree, Latest, Exists
  <2>8. QED BY <1>s, <2>1, <2>4, <2>5, <2>6, <2>7 DEF Considerate
<1>4. ASSUME NEW f \in File, PollMtime(f) PROVE Considerate'
  <2>1. /\ UNCHANGED <<clock, file, events, self_writes, pending_local_write,
                       local_write_at>>
        /\ pc = f /\ pc \in Looking /\ pc # "down"
        /\ pc' = IF f = "local" THEN "root" ELSE "flush"
    BY <1>4, <1>f DEF PollMtime, disk, writeback, Looking, File
  <2>2. OthersQuiet /\ FilesAgree /\ Considerate BY <1>m, <2>1 DEF Considerate
  <2>3. /\ unnoticed' = unnoticed \ {f}
        /\ unnoticed' # {} => unnoticed' = unnoticed /\ active' = active
        /\ unnoticed' = {} => \A g \in File \ {f} :
             Quiet(g) \/ (Exists(g) => file[g].cfg = active')
        /\ WriteDebounce # 0 /\ unnoticed' = {} /\ ~pending_local_write =>
             /\ Exists(Latest) => file[Latest].cfg = active'
             /\ pending_promote' /\ Exists("local") =>
                  file["local"].cfg = active'
    <3>1. CASE Changed(f)
      <4>1. PathChanged(f) BY <1>4, <3>1 DEF PollMtime
      <4>2. QED BY <2>1, <2>2, <3>1, <4>1, LookedAt
    <3>2. CASE ~Changed(f)
      <4>1. UNCHANGED <<active, pending_promote, unnoticed>>
        BY <1>4, <3>2 DEF PollMtime, promotion
      <4>2. f \notin unnoticed BY <1>m, <3>2 DEF OneAtATime
      <4>3. QED BY <2>1, <2>2, <4>1, <4>2 DEF OthersQuiet, FilesAgree
    <3>3. QED BY <3>1, <3>2
  <2>4. \A g \in File : known_mtimes'[g] = IF g = f THEN Mtime(g)
                                            ELSE known_mtimes[g]
    BY <1>4, <1>a DEF PollMtime, TypeOK, Changed
  <2>5. events' = {} BY <2>1, <2>2, <1>f DEF OthersQuiet, File
  <2>6. Quiet(f)' BY <2>1, <2>4, <2>5, Known DEF Quiet
  <2>7. \A g \in File \ {f} : /\ Changed(g)' <=> Changed(g)
                              /\ IsSelfWrite(g)' <=> IsSelfWrite(g)
                              /\ Quiet(g)' <=> Quiet(g)
    BY <2>1, <2>4, AboutOne DEF Quiet
  <2>8. /\ \A g \in File : /\ Exists(g)' <=> Exists(g)
                           /\ IsSelfWrite(g)' <=> IsSelfWrite(g)
        /\ Latest' = Latest /\ Latest \in File
    BY <1>f, <2>1, AboutOne DEF Latest, Newer, Exists
  <2>9. /\ f = "root" => unnoticed' = {}
        /\ f = "local" => "local" \notin unnoticed'
    <3>1. unnoticed \subseteq File BY <1>a DEF TypeOK
    <3>2. f = "root" => "local" \notin unnoticed BY <1>m, <2>1 DEF OneAtATime
    <3>3. QED BY <2>3, <3>1, <3>2 DEF File
  <2>10. OneAtATime'
    <3>1. \A g \in unnoticed' : g \in unnoticed /\ g \in File /\ g # f
      BY <1>a, <2>3 DEF TypeOK
    <3>2. \A g \in unnoticed' :
            /\ Exists(g)' /\ Changed(g)' /\ ~IsSelfWrite(g)'
            /\ \A h \in File \ {g} : Exists(h)' => file'[h].mtime < file'[g].mtime
      BY <1>m, <2>1, <2>7, <2>8, <3>1 DEF OneAtATime
    <3>3. \A g, h \in unnoticed' : g = h BY <1>m, <3>1 DEF OneAtATime
    <3>4. /\ pc' = "root" => "local" \notin unnoticed'
          /\ pc' \in {"flush", "check", "promote"} => unnoticed' = {}
      BY <2>1, <2>9, <1>f DEF File
    <3>5. QED BY <3>2, <3>3, <3>4 DEF OneAtATime
  <2>11. KnowsThePast'
    <3>1. Mtime(f) # Missing => Exists(f) /\ Mtime(f) = file[f].mtime
      BY DEF Mtime
    <3>2. QED BY <1>m, <1>n, <2>1, <2>4, <2>8, <3>1 DEF KnowsThePast
  <2>12. WriteComesFirst'
    BY <1>m, <2>1, <2>8, <1>f DEF WriteComesFirst, Looking, File
  <2>13. OthersQuiet'
    <3>1. unnoticed' # {} => \A g \in File \ unnoticed' : Quiet(g)'
      BY <2>2, <2>3, <2>6, <2>7 DEF OthersQuiet
    <3>2. unnoticed' = {} =>
            \A g \in File : Quiet(g)' \/ (Exists(g)' => file'[g].cfg = active')
      BY <2>1, <2>3, <2>6, <2>7, <2>8
    <3>3. f = "root" => \A g \in File : Quiet(g)'
      <4>1. f = "root" => Quiet("local") BY <2>1, <2>2 DEF OthersQuiet
      <4>2. QED BY <1>f, <2>6, <2>7, <4>1 DEF File
    <3>4. f = "local" => Quiet("local")' BY <2>6
    <3>5. QED BY <2>1, <2>5, <3>1, <3>2, <3>3, <3>4 DEF OthersQuiet, Looking, File
  <2>14. FilesAgree' BY <1>f, <2>1, <2>3, <2>8 DEF FilesAgree
  <2>15. pc' # "promote" BY <2>1
  <2>16. QED BY <1>s, <2>10, <2>11, <2>12, <2>13, <2>14, <2>15 DEF Considerate
<1>5. CASE Flush
  <2>1. /\ pc = "flush" /\ pc' = "check" /\ unnoticed = {} /\ unnoticed' = {}
        /\ UNCHANGED <<clock, active, local_write_at, known_mtimes>>
        /\ \A g \in File : Quiet(g)
        /\ FilesAgree
    BY <1>5, <1>m DEF Flush, OneAtATime, OthersQuiet, Looking
  <2>2. OneAtATime' BY <2>1 DEF OneAtATime
  <2>3. CASE ~(pending_local_write /\ clock >= local_write_at)
    <3>1. UNCHANGED <<file, events, self_writes, promotion, pending_local_write>>
      BY <1>5, <2>3 DEF Flush
    <3>2. KnowsThePast' /\ \A g \in File : Quiet(g)'
      BY <1>m, <2>1, <3>1, FilesAlone, SameQuiet
    <3>3. WriteComesFirst'
      BY <1>m, <1>t, <2>1, <2>3, <3>1 DEF WriteComesFirst
    <3>4. FilesAgree'
      BY <1>f, <2>1, <3>1, FilesAlone DEF FilesAgree, promotion, Latest, Exists
    <3>5. QED BY <1>s, <2>1, <2>2, <3>2, <3>3, <3>4
             DEF Considerate, OthersQuiet, Looking
  <2>4. CASE pending_local_write /\ clock >= local_write_at
    <3>1. /\ ~pending_local_write'
          /\ file' = [file EXCEPT !["local"] = [cfg |-> active, mtime |-> clock]]
          /\ Notify("local")
          /\ self_writes' = [self_writes EXCEPT !["local"] = clock]
      BY <1>5, <2>4 DEF Flush
    <3>2. /\ file'["local"] # Missing /\ file'["local"].cfg = active
          /\ file'["local"].mtime = clock /\ file'["root"] = file["root"]
          /\ self_writes'["local"] = clock
          /\ self_writes'["root"] = self_writes["root"]
          /\ active # Bad
      BY <1>a, <1>f, <3>1, Written, ContentAssumption DEF TypeOK
    <3>3. "root" \in events' => "root" \in events BY <1>f, <3>1 DEF Notify
    <3>4. \A g \in File : Quiet(g)'
      <4>1. Quiet("local")' BY <1>a, <1>f, <3>2, OwnWrite DEF Quiet
      <4>2. Quiet("root")'
        BY <1>f, <2>1, <3>2, <3>3, AboutOne DEF Quiet
      <4>3. QED BY <4>1, <4>2 DEF File
    <3>5. KnowsThePast'
      <4>1. /\ known_mtimes["local"] # Missing => known_mtimes["local"] =< clock
        BY <1>a, <1>f, <1>m, <1>n, <1>t DEF KnowsThePast, TypeOK, Stamp, Time
      <4>2. QED BY <1>f, <1>m, <1>t, <2>1, <3>2, <4>1 DEF KnowsThePast, Exists, File
    <3>6. FilesAgree'
      <4>1. WriteDebounce # 0 => (Exists("root") => file["root"].mtime < clock)
        BY <1>m, <1>t, <2>4 DEF WriteComesFirst
      <4>2. WriteDebounce # 0 => Latest' = "local"
        BY <3>2, <4>1 DEF Latest, Newer, Exists
      <4>3. QED BY <2>1, <3>2, <4>2 DEF FilesAgree
    <3>7. QED BY <1>s, <2>1, <2>2, <3>1, <3>4, <3>5, <3>6
             DEF Considerate, OthersQuiet, Looking, WriteComesFirst
  <2>5. QED BY <2>3, <2>4
<1>6. CASE Promote
  <2>1. /\ pc = "promote" /\ pc' = "sleep" /\ unnoticed = {} /\ unnoticed' = {}
        /\ UNCHANGED <<clock, active, pending_local_write, local_write_at,
                       known_mtimes>>
        /\ \A g \in File : Quiet(g)
        /\ FilesAgree /\ pending_promote /\ ~pending_promote' /\ Exists("local")
        /\ Notify("root")
    BY <1>6, <1>m DEF Promote, OneAtATime, OthersQuiet, Looking, writeback
  <2>2. file["local"].cfg \in Config \cup {Bad} /\ file["local"].cfg # Bad
    BY <1>a, <1>f, <1>m, <2>1, FileType DEF KnowsThePast
  <2>3. /\ file'["root"] # Missing /\ file'["root"].cfg = file["local"].cfg
        /\ file'["root"].mtime = clock /\ file'["local"] = file["local"]
        /\ self_writes'["root"] = clock
        /\ self_writes'["local"] = self_writes["local"]
    BY <1>6, <1>a, <1>f, <2>2, Written DEF Promote, TypeOK
  <2>4. OneAtATime' BY <2>1 DEF OneAtATime
  <2>5. \A g \in File : Quiet(g)'
    <3>1. Quiet("root")' BY <1>a, <1>f, <2>3, OwnWrite DEF Quiet
    <3>2. "local" \in events' => "local" \in events BY <1>f, <2>1 DEF Notify
    <3>3. Quiet("local")' BY <1>f, <2>1, <2>3, <3>2, AboutOne DEF Quiet
    <3>4. QED BY <3>1, <3>3 DEF File
  <2>6. KnowsThePast'
    <3>1. known_mtimes["root"] # Missing => known_mtimes["root"] =< clock
      BY <1>a, <1>f, <1>m, <1>n, <1>t DEF KnowsThePast, TypeOK, Stamp, Time
    <3>2. QED BY <1>f, <1>m, <1>t, <2>1, <2>2, <2>3, <3>1
             DEF KnowsThePast, Exists, File
  <2>7. WriteComesFirst' BY <1>m, <2>1 DEF WriteComesFirst, Looking
  <2>8. FilesAgree'
    <3>1. Latest' = "root"
      BY <1>f, <1>n, <1>t, <2>1, <2>3 DEF Latest, Newer, Exists
    <3>2. QED BY <2>1, <2>3, <3>1 DEF FilesAgree
  <2>9. QED BY <1>s, <2>1, <2>4, <2>5, <2>6, <2>7, <2>8
           DEF Considerate, OthersQuiet, Looking
<1>7. CASE Boot
  <2>1. /\ UNCHANGED <<clock, file, events, self_writes, pending_local_write>>
        /\ pc = "down" /\ pc' = "starting" /\ unnoticed' = {}
        /\ known_mtimes' = [g \in File |-> Mtime(g)]
        /\ events = {} /\ ~pending_promote /\ ~pending_local_write
    BY <1>7, <1>a DEF Boot, disk, writeback, DownKnowsNothing
  <2>2. \A g \in File : Quiet(g)' BY <2>1, Known DEF Quiet
  <2>3. KnowsThePast'
    <3>1. \A g \in File : /\ Exists(g)' <=> Exists(g)
                          /\ Mtime(g) # Missing =>
                               Exists(g) /\ Mtime(g) = file[g].mtime
      BY <2>1 DEF Mtime, Exists
    <3>2. ASSUME NEW g \in File
          PROVE  /\ Exists(g)' => file'[g].cfg # Bad
                 /\ known_mtimes'[g] # Missing =>
                      Exists(g)' /\ known_mtimes'[g] =< file'[g].mtime
      <4>1. known_mtimes'[g] = Mtime(g) /\ file' = file BY <2>1
      <4>2. QED BY <1>m, <1>n, <3>1, <4>1 DEF KnowsThePast, Exists
    <3>3. self_writes' = [g \in File |-> Missing]
      BY <1>a, <2>1 DEF DownKnowsNothing
    <3>4. QED BY <3>2, <3>3 DEF KnowsThePast
  <2>4. FilesAgree'
    <3>1. Latest' = Latest /\ Exists("local")' = Exists("local")
      BY <2>1 DEF Latest, Newer, Exists
    <3>2. CASE Newer("local", "root")
      <4>1. Parses("local")
        BY <1>f, <1>m, <3>2 DEF Newer, KnowsThePast, Parses
      <4>2. active' = file["local"].cfg BY <1>7, <3>2, <4>1 DEF Boot, LoadLocal
      <4>3. QED BY <2>1, <3>1, <3>2, <4>2 DEF FilesAgree, Latest
    <3>3. CASE ~Newer("local", "root")
      <4>1. Exists("root") => Parses("root")
        BY <1>f, <1>m DEF KnowsThePast, Parses
      <4>2. /\ Exists("root") => active' = file["root"].cfg
            /\ ~pending_promote'
        BY <1>7, <2>1, <3>3, <4>1 DEF Boot, LoadRoot, promotion
      <4>3. QED BY <2>1, <3>3, <4>2 DEF FilesAgree, Latest, Newer, Exists
    <3>4. QED BY <3>2, <3>3
  <2>5. QED BY <1>s, <2>1, <2>2, <2>3, <2>4
           DEF Considerate, OthersQuiet, OneAtATime, WriteComesFirst, Looking
<1>8. CASE Halt
  <2>1. /\ pc' = "down" /\ UNCHANGED <<file, unnoticed>> /\ ~pending_local_write'
        /\ self_writes' = [g \in File |-> Missing]
        /\ known_mtimes' = [g \in File |-> Missing]
    BY <1>8 DEF Halt
  <2>2. \A g \in File : /\ Exists(g)' <=> Exists(g) /\ ~IsSelfWrite(g)'
                        /\ Exists(g) => Changed(g)'
    <3>1. ASSUME NEW g \in File, Exists(g) PROVE Changed(g)'
      BY <1>a, <2>1, <3>1, FileType, AboutOne DEF Changed
    <3>2. QED BY <2>1, <3>1 DEF Exists, IsSelfWrite
  <2>3. OneAtATime'
    <3>1. file' = file /\ unnoticed' = unnoticed /\ unnoticed \subseteq File
      BY <1>a, <2>1 DEF TypeOK
    <3>2. QED BY <1>m, <2>1, <2>2, <3>1
             DEF OneAtATime, Exists, IsSelfWrite, Changed, Mtime
  <2>4. KnowsThePast'
    <3>1. \A g \in File : Exists(g)' => file'[g].cfg # Bad
      BY <1>m, <2>1 DEF KnowsThePast, Exists
    <3>2. QED BY <2>1, <3>1 DEF KnowsThePast
  <2>5. QED BY <1>s, <2>1, <2>3, <2>4 DEF Considerate, WriteComesFirst
<1>9. CASE Tick
  <2>1. /\ UNCHANGED <<file, events, self_writes, known_mtimes, unnoticed, active,
                       pending_local_write, local_write_at, pending_promote>>
        /\ clock' = clock + 1
        /\ \/ pc = "sleep" /\ pc' = "ipc"
           \/ pc = "down" /\ pc' = "down"
    BY <1>9 DEF Tick, promotion, writeback, history
  <2>2. OneAtATime' /\ KnowsThePast'
    BY <1>a, <1>m, <2>1, FilesAlone, SameOne DEF TypeOK
  <2>3. WriteComesFirst'
    <3>1. pc = "down" => ~pending_local_write BY <1>a DEF DownKnowsNothing
    <3>2. Exists("root")' => file'["root"].mtime < clock'
      BY <1>f, <1>n, <1>t, <2>1 DEF Exists
    <3>3. QED BY <1>m, <2>1, <3>1, <3>2 DEF WriteComesFirst
  <2>4. pc = "sleep" => OthersQuiet' /\ FilesAgree'
    BY <1>f, <1>m, <2>1, SameQuiet, FilesAlone
       DEF OthersQuiet, Looking, FilesAgree, Latest, Exists
  <2>5. QED BY <1>s, <2>1, <2>2, <2>3, <2>4 DEF Considerate
<1>10. ASSUME NEW f \in File, NEW c \in Config \cup {Bad}, Edit(f, c)
       PROVE  Considerate'
  <2>1. /\ UNCHANGED <<clock, self_writes, known_mtimes, pc, pending_local_write,
                       local_write_at>>
        /\ unnoticed = {} /\ unnoticed' = {f} /\ pc \in {"sleep", "down"} /\ c # Bad
        /\ self_writes[f] # Missing => ~(clock - self_writes[f] < Tolerance)
        /\ \A g \in File : Exists(g) => file[g].mtime < clock
        /\ events' = events \/ Notify(f)
    BY <1>10 DEF Edit, Inconsiderate, MayEdit, writeback
  <2>2. /\ file'[f] # Missing /\ file'[f].cfg = c /\ file'[f].mtime = clock
        /\ \A g \in File \ {f} : file'[g] = file[g]
    BY <1>10, <1>a, Written DEF Edit
  <2>3. /\ known_mtimes[f] # Missing => known_mtimes[f] < clock
        /\ self_writes[f] # Missing => self_writes[f] < clock
        /\ known_mtimes[f] \in Nat \cup {Missing}
        /\ self_writes[f] \in Nat \cup {Missing}
    BY <1>a, <1>m, <1>n, <1>t, <2>1 DEF KnowsThePast, TypeOK, Stamp, Time
  <2>4. Exists(f)' /\ Changed(f)' /\ ~IsSelfWrite(f)'
    <3>1. Exists(f)' /\ Mtime(f)' = clock BY <2>2 DEF Exists, Mtime
    <3>2. clock # Missing BY <1>t, ContentAssumption
    <3>3. Changed(f)' BY <1>t, <2>1, <2>3, <3>1, <3>2 DEF Changed
    <3>4. ~IsSelfWrite(f)'
      BY <1>t, <2>1, <2>2, <2>3, TimeAssumption DEF IsSelfWrite
    <3>5. QED BY <3>1, <3>3, <3>4
  <2>5. OneAtATime'
    BY <2>1, <2>2, <2>4 DEF OneAtATime, Exists
  <2>6. KnowsThePast'
    BY <1>m, <1>t, <2>1, <2>2, <2>3 DEF KnowsThePast, Exists
  <2>7. WriteComesFirst' BY <1>m, <2>1 DEF WriteComesFirst, Looking
  <2>8. pc = "sleep" => OthersQuiet'
    <3>1. ASSUME NEW g \in File \ {f}, Quiet(g) PROVE Quiet(g)'
      <4>1. g \in events' => g \in events BY <2>1 DEF Notify
      <4>2. QED BY <2>1, <2>2, <3>1, <4>1, AboutOne DEF Quiet
    <3>2. QED BY <1>m, <2>1, <3>1 DEF OthersQuiet, Looking
  <2>9. QED BY <1>s, <2>1, <2>5, <2>6, <2>7, <2>8 DEF Considerate, FilesAgree
<1>11. ASSUME NEW f \in File, Remove(f) PROVE FALSE
  BY <1>11 DEF Remove
<1>12. CASE UNCHANGED vars
  <2>1. /\ UNCHANGED <<file, events, self_writes, known_mtimes, unnoticed, active,
                       clock, pc, pending_local_write, local_write_at,
                       pending_promote>>
    BY <1>12 DEF vars
  <2>2. OneAtATime' /\ KnowsThePast'
    <3>1. /\ pc' = "root" => "local" \notin unnoticed'
          /\ pc' \in {"flush", "check", "promote"} => unnoticed' = {}
      BY <1>m, <2>1 DEF OneAtATime
    <3>2. QED BY <1>a, <1>m, <2>1, <3>1, FilesAlone, SameOne DEF TypeOK
  <2>3. WriteComesFirst' BY <1>m, <2>1 DEF WriteComesFirst, Exists
  <2>4. pc # "down" => OthersQuiet' /\ FilesAgree'
    BY <1>f, <1>m, <2>1, SameQuiet, FilesAlone
       DEF OthersQuiet, FilesAgree, Latest, Exists
  <2>5. QED BY <1>m, <1>s, <2>1, <2>2, <2>3, <2>4 DEF Considerate
<1>13. QED
  BY <1>1, <1>2, <1>3, <1>4, <1>5, <1>6, <1>7, <1>8, <1>9, <1>10, <1>11, <1>12
     DEF Next, Daemon, User

----------------------------------------------------------------------------
IInv == Always /\ (~messy => Considerate)

LEMMA Inductive == Spec => []IInv
<1>1. Init => IInv BY AlwaysInit, ConsiderateInit DEF IInv
<1>2. IInv /\ [Next]_vars => IInv' BY AlwaysStep, ConsiderateStep DEF IInv
<1>3. QED BY <1>1, <1>2, PTL DEF Spec

\* ReloadsAreCaused, for any settings, debounces and tolerance: unless somebody
\* did what the daemon does not cope with, only a change that others made to a
\* file replaces the configuration in force.
THEOREM ReloadsCaused == Spec => ReloadsAreCaused
<1>1. ASSUME IInv, Daemon, active' # active, ~messy PROVE unnoticed # {}
  <2>1. Always /\ Considerate BY <1>1 DEF IInv
  <2>2. PICK f \in File : HandleEvent(f) \/ PollMtime(f)
    BY <1>1 DEF Daemon, Snapshot, EndIpc, EndEvents, Flush, CheckPromote,
                Promote, PromoteFails, Wake
  <2>3. PathChanged(f) /\ (f \in events \/ Changed(f)) /\ pc \in Looking
    BY <1>1, <2>2 DEF HandleEvent, PollMtime, Looking, File
  <2>4. QED BY <1>1, <2>1, <2>3, LookedAt
<1>2. IInv => [(Daemon /\ active' # active /\ ~messy) => unnoticed # {}]_vars
  BY <1>1
<1>3. QED BY <1>2, Inductive, PTL DEF ReloadsAreCaused

\* RestartAgrees, for any settings and tolerance and any debounce of writes that
\* is not zero (with none, a write can carry the very time of the root file):
\* a daemon started again has the configuration of the one it replaces.
THEOREM RestartsAgree ==
  ASSUME WriteDebounce # 0
  PROVE  Spec => []RestartAgrees
<1>1. IInv => RestartAgrees
  BY DEF IInv, Considerate, FilesAgree, RestartAgrees, Latest
<1>2. QED BY <1>1, Inductive, PTL
----------------------------------------------------------------------------
(* The user's last word.                                                   *)

NoFile == ~Exists("local") /\ ~Exists("root")

\* While everybody is considerate, a change nobody noticed yet is the last
\* word.  When all is noticed, what is in force is; when the daemon is down,
\* what it will load is, or, with no file at all, nobody has said a word; and
\* the root file holds it once it is promoted.
LastWord ==
  /\ \A f \in unnoticed : file[f].cfg = intent
  /\ unnoticed = {} =>
       /\ pc # "down" => active = intent
       /\ pc = "down" /\ Exists(Latest) => file[Latest].cfg = intent
  /\ NoFile /\ ~pending_local_write => active = Default /\ intent = Default
  /\ PromotedIsLast

LEMMA LastWordInit == Init => LastWord
<1> SUFFICES ASSUME Init PROVE LastWord
  OBVIOUS
<1>1. Exists(Latest) => file[Latest].cfg = intent
  <2>1. \A f \in File : Exists(f) => file[f].mtime = 0 BY DEF Init, Exists
  <2>2. "local" \in File /\ "root" \in File BY DEF File
  <2>3. Newer("local", "root") => ~Exists("root")
    BY <2>1, <2>2 DEF Newer
  <2>4. QED BY <2>3 DEF Init, Latest, Newer
<1>2. QED BY <1>1 DEF Init, LastWord, NoFile, PromotedIsLast

\* Looking at a file puts the last word in force, and nothing else.
LEMMA LookedAtWord ==
  ASSUME Always, Considerate, LastWord, pc \in Looking, NEW f \in File,
         f \in events \/ Changed(f), PathChanged(f)
  PROVE  /\ unnoticed' = {} => active' = intent
         /\ NoFile => active' = active
<1>1. /\ TypeOK /\ OneAtATime /\ KnowsThePast /\ OthersQuiet
      /\ unnoticed' = unnoticed \ {f} /\ pc # "down"
  BY DEF Always, Considerate, Looking, PathChanged
<1>2. NoFile => active' = active
  BY DEF PathChanged, LoadLocal, LoadRoot, Parses, NoFile, File
<1>3. CASE IsSelfWrite(f)
  <2>1. f \notin unnoticed BY <1>1, <1>3 DEF OneAtATime
  <2>2. UNCHANGED <<active, unnoticed>>
    BY <1>1, <1>3, <2>1 DEF PathChanged
  <2>3. QED BY <1>1, <1>2, <2>2 DEF LastWord
<1>4. CASE ~IsSelfWrite(f) /\ f \in unnoticed
  <2>1. Parses(f)
    BY <1>1, <1>4 DEF OneAtATime, KnowsThePast, Parses
  <2>2. active' = file[f].cfg
    BY <1>4, <2>1 DEF PathChanged, LoadLocal, LoadRoot
  <2>3. QED BY <1>2, <1>4, <2>2 DEF LastWord
<1>5. CASE ~IsSelfWrite(f) /\ f \notin unnoticed
  <2>1. ~Quiet(f) BY <1>5 DEF Quiet
  <2>2. unnoticed = {} BY <1>1, <1>5, <2>1 DEF OthersQuiet
  <2>3. Exists(f) => file[f].cfg = active
    BY <1>1, <2>1, <2>2 DEF OthersQuiet
  <2>4. active' = active
    BY <1>5, <2>3 DEF PathChanged, LoadLocal, LoadRoot, Parses
  <2>5. QED BY <1>1, <1>2, <2>2, <2>4 DEF LastWord
<1>6. QED BY <1>3, <1>4, <1>5

LEMMA LastWordStep ==
  ASSUME WriteDebounce # 0, Always, Considerate, LastWord, [Next]_vars, ~messy'
  PROVE  LastWord'
<1>a. /\ TypeOK /\ DownKnowsNothing /\ OneAtATime /\ KnowsThePast
      /\ pc # "down" => FilesAgree
      /\ pc = "promote" => pending_promote
  BY DEF Always, Considerate
<1>f. "local" \in File /\ "root" \in File /\ "local" # "root" /\ Latest \in File
  BY DEF File, Latest
<1>w. /\ \A f \in unnoticed : file[f].cfg = intent
      /\ unnoticed = {} /\ pc # "down" => active = intent
      /\ unnoticed = {} /\ pc = "down" /\ Exists(Latest) =>
           file[Latest].cfg = intent
      /\ NoFile /\ ~pending_local_write => active = Default /\ intent = Default
  BY DEF LastWord
<1>p. PromotedIsLast BY DEF LastWord
<1>1. ASSUME NEW s \in Setting, NEW v \in Value, GuiSet(s, v) PROVE LastWord'
  <2>1. /\ UNCHANGED <<file, unnoticed, pc>> /\ pc = "ipc" /\ unnoticed = {}
        /\ pending_local_write' /\ unpromoted'
        /\ active' = [active EXCEPT ![s] = v]
        /\ intent' = [intent EXCEPT ![s] = v]
    BY <1>1 DEF GuiSet, disk
  <2>2. active' = intent' BY <1>w, <2>1
  <2>3. QED BY <2>1, <2>2 DEF LastWord, PromotedIsLast
<1>2. CASE \/ Snapshot \/ EndIpc \/ EndEvents \/ CheckPromote \/ Wake
           \/ PromoteFails \/ UNCHANGED vars
  <2>1. /\ UNCHANGED <<file, unnoticed, active, intent, pending_local_write,
                       unpromoted, messy>>
        /\ pc' = "down" <=> pc = "down"
    BY <1>2 DEF Snapshot, EndIpc, EndEvents, CheckPromote, Wake, PromoteFails, disk,
                writeback, history, vars
  <2>2. PromotedIsLast' BY <1>p, <2>1 DEF PromotedIsLast, Exists
  <2>3. Latest' = Latest /\ NoFile' = NoFile
    BY <2>1 DEF Latest, Newer, NoFile, Exists
  <2>4. QED BY <1>w, <2>1, <2>2, <2>3 DEF LastWord, Exists
<1>3. ASSUME NEW f \in File, HandleEvent(f) \/ PollMtime(f) PROVE LastWord'
  <2>1. /\ UNCHANGED <<file, intent, pending_local_write, unpromoted, messy>>
        /\ pc \in Looking /\ pc # "down" /\ pc' # "down"
    BY <1>3, <1>f
       DEF HandleEvent, PollMtime, disk, writeback, Looking, File
  <2>2. /\ unnoticed' \subseteq unnoticed
        /\ unnoticed' = {} => active' = intent
        /\ NoFile => active' = active
    <3>1. CASE PathChanged(f) /\ (f \in events \/ Changed(f))
      BY <2>1, <3>1, LookedAtWord DEF PathChanged
    <3>2. CASE UNCHANGED <<active, unnoticed>>
      BY <1>w, <2>1, <3>2
    <3>3. QED BY <1>3, <3>1, <3>2 DEF HandleEvent, PollMtime
  <2>3. PromotedIsLast' BY <1>p, <2>1 DEF PromotedIsLast, Exists
  <2>4. NoFile' = NoFile BY <2>1 DEF NoFile, Exists
  <2>5. QED BY <1>w, <2>1, <2>2, <2>3, <2>4 DEF LastWord
<1>4. CASE Flush
  <2>1. /\ UNCHANGED <<active, intent, unnoticed, unpromoted>>
        /\ pc = "flush" /\ pc' = "check" /\ unnoticed = {}
    BY <1>4, <1>a DEF Flush, OneAtATime
  <2>2. \/ UNCHANGED <<file, pending_local_write, messy>>
        \/ file' = [file EXCEPT !["local"] = [cfg |-> active, mtime |-> clock]]
    BY <1>4 DEF Flush
  <2>3. file'["root"] = file["root"] BY <1>a, <1>f, <2>2 DEF TypeOK
  <2>4. PromotedIsLast'
    <3>1. ~messy BY <1>4 DEF Flush
    <3>2. QED BY <1>p, <2>1, <2>3, <3>1 DEF PromotedIsLast, Exists
  <2>5. CASE UNCHANGED <<file, pending_local_write>>
    BY <1>w, <2>1, <2>4, <2>5 DEF LastWord, NoFile, Exists
  <2>6. CASE file' = [file EXCEPT !["local"] = [cfg |-> active, mtime |-> clock]]
    <3>1. Exists("local")'
      BY <1>a, <1>f, <2>6, Written DEF TypeOK, Exists
    <3>2. QED BY <1>w, <2>1, <2>4, <3>1 DEF LastWord, NoFile
  <2>7. QED BY <2>2, <2>5, <2>6
<1>5. CASE Promote
  <2>1. /\ UNCHANGED <<active, intent, unnoticed, pending_local_write, messy>>
        /\ pc = "promote" /\ pc' = "sleep" /\ unnoticed = {}
        /\ Exists("local") /\ active = intent
        /\ unpromoted' = (pending_local_write \/ "local" \in unnoticed)
        /\ file' = [file EXCEPT !["root"] =
                      [cfg |-> file["local"].cfg, mtime |-> clock]]
    BY <1>5, <1>a, <1>w DEF Promote, OneAtATime, writeback
  <2>2. file["local"].cfg \in Config \cup {Bad}
    BY <1>a, <1>f, <2>1, FileType
  <2>3. Exists("root")' /\ file'["root"].cfg = file["local"].cfg
    BY <1>a, <1>f, <2>1, <2>2, Written DEF Exists
  <2>4. ~pending_local_write => file["local"].cfg = active
    BY <1>a, <2>1 DEF FilesAgree
  <2>5. QED BY <2>1, <2>3, <2>4 DEF LastWord, PromotedIsLast, NoFile
<1>6. CASE Boot
  <2>1. /\ UNCHANGED <<file, intent, pending_local_write, unpromoted, messy>>
        /\ pc = "down" /\ pc' = "starting" /\ unnoticed' = {}
    BY <1>6 DEF Boot, disk, writeback
  <2>2. NoFile => active' = active /\ active = intent
    BY <1>6, <1>a, <1>w
       DEF Boot, LoadLocal, LoadRoot, Parses, NoFile, DownKnowsNothing
  <2>3. Latest \in unnoticed \/ unnoticed = {} \/ ~Exists(Latest)
    <3>1. ASSUME NEW f \in unnoticed PROVE f = Latest
      <4>1. /\ f \in File /\ Exists(f)
            /\ \A g \in File \ {f} : Exists(g) => file[g].mtime < file[f].mtime
        BY <1>a DEF OneAtATime, TypeOK
      <4>2. \A g \in File : Exists(g) => file[g].mtime \in Nat
        BY <1>a, FileType DEF Time
      <4>3. QED BY <4>1, <4>2 DEF Latest, Newer, File
    <3>2. QED BY <3>1
  <2>4. Exists(Latest) => file[Latest].cfg = intent
    BY <1>w, <2>1, <2>3
  <2>5. Exists(Latest) => active' = file[Latest].cfg
    <3>1. Exists(Latest) => Parses(Latest)
      BY <1>a, <1>f DEF KnowsThePast, Parses
    <3>2. QED BY <1>6, <3>1 DEF Boot, LoadLocal, LoadRoot, Latest
  <2>6. ~Exists(Latest) => NoFile BY DEF Latest, Newer, NoFile
  <2>7. active' = intent BY <2>2, <2>4, <2>5, <2>6
  <2>8. PromotedIsLast' BY <1>p, <2>1 DEF PromotedIsLast, Exists
  <2>9. NoFile' = NoFile BY <2>1 DEF NoFile, Exists
  <2>10. QED BY <1>w, <2>1, <2>2, <2>7, <2>8, <2>9 DEF LastWord
<1>7. CASE Halt
  <2>1. /\ UNCHANGED <<file, intent, unnoticed, unpromoted>>
        /\ pc = "sleep" /\ pc' = "down" /\ ~pending_local_write /\ ~messy
        /\ active' = Default
    BY <1>7 DEF Halt
  <2>2. Latest' = Latest /\ NoFile' = NoFile
    BY <2>1 DEF Latest, Newer, NoFile, Exists
  <2>3. unnoticed = {} /\ Exists(Latest) => file[Latest].cfg = intent
    BY <1>a, <1>w, <2>1 DEF FilesAgree
  <2>4. PromotedIsLast' BY <1>p, <2>1 DEF PromotedIsLast, Exists
  <2>5. QED BY <1>w, <2>1, <2>2, <2>3, <2>4 DEF LastWord, Exists
<1>8. CASE Tick
  <2>1. /\ UNCHANGED <<file, unnoticed, active, intent, pending_local_write,
                       unpromoted, messy>>
        /\ pc = "down" <=> pc' = "down"
    BY <1>8 DEF Tick, writeback, history
  <2>2. PromotedIsLast' BY <1>p, <2>1 DEF PromotedIsLast, Exists
  <2>3. Latest' = Latest /\ NoFile' = NoFile
    BY <2>1 DEF Latest, Newer, NoFile, Exists
  <2>4. QED BY <1>w, <2>1, <2>2, <2>3 DEF LastWord, Exists
<1>9. ASSUME NEW f \in File, NEW c \in Config \cup {Bad}, Edit(f, c)
      PROVE  LastWord'
  <2>1. /\ unnoticed = {} /\ unnoticed' = {f} /\ c # Bad /\ intent' = c
        /\ unpromoted'
    BY <1>9 DEF Edit, Inconsiderate
  <2>2. Exists(f)' /\ file'[f].cfg = c
    BY <1>9, <1>a, Written DEF Edit, Exists
  <2>3. QED BY <2>1, <2>2 DEF LastWord, PromotedIsLast, NoFile, File
<1>10. ASSUME NEW f \in File, Remove(f) PROVE FALSE BY <1>10 DEF Remove
<1>11. QED
  BY <1>1, <1>2, <1>3, <1>4, <1>5, <1>6, <1>7, <1>8, <1>9, <1>10
     DEF Next, Daemon, User

\* messy never goes away.
LEMMA StaysMessy == [Next]_vars /\ ~messy' => ~messy
BY DEF Next, Daemon, User, Snapshot, EndIpc, EndEvents, Flush, CheckPromote,
   Promote, PromoteFails, Wake, HandleEvent, PollMtime, GuiSet, Edit, Remove,
   Boot, Halt, Tick, history, vars

LEMMA LastWordAlways ==
  ASSUME WriteDebounce # 0
  PROVE  Spec => [](IInv /\ (~messy => LastWord))
<1>1. Init => IInv /\ (~messy => LastWord)
  BY AlwaysInit, ConsiderateInit, LastWordInit DEF IInv
<1>2. IInv /\ (~messy => LastWord) /\ [Next]_vars =>
        (IInv /\ (~messy => LastWord))'
  BY AlwaysStep, ConsiderateStep, LastWordStep, StaysMessy DEF IInv
<1>3. QED BY <1>1, <1>2, PTL DEF Spec

\* NoticedTakesEffect, for any settings and tolerance and any debounce of writes
\* that is not zero, through restarts, late events and a deaf watcher: with
\* nothing left to notice, the configuration in force is the last word.
THEOREM LastWordInForce ==
  ASSUME WriteDebounce # 0
  PROVE  Spec => []NoticedTakesEffect
<1>1. IInv /\ (~messy => LastWord) => NoticedTakesEffect
  BY DEF LastWord, NoticedTakesEffect
<1>2. QED BY <1>1, LastWordAlways, PTL

\* PromotedIsLast, in the same generality: what has been promoted is the last
\* word, and stays in the root file until somebody says another.
THEOREM LastWordPromoted ==
  ASSUME WriteDebounce # 0
  PROVE  Spec => []PromotedIsLast
<1>1. IInv /\ (~messy => LastWord) => PromotedIsLast
  BY DEF LastWord, PromotedIsLast
<1>2. QED BY <1>1, LastWordAlways, PTL

----------------------------------------------------------------------------
(* The refinement of Register.                                             *)

\* A local file to be promoted is the newer one, and so is one that is going
\* to be taken for changed.
PendingIsAhead ==
  pc # "down" /\ unnoticed = {} =>
    /\ pending_promote => Newer("local", "root")
    /\ pc \in Looking /\ ~Quiet("local") => Newer("local", "root")

LEMMA LookedAtAhead ==
  ASSUME Always, Considerate, PendingIsAhead, pc \in Looking, NEW f \in File,
         f \in events \/ Changed(f), PathChanged(f), unnoticed' = {}
  PROVE  pending_promote' \/ ~Quiet("local") => Newer("local", "root")
<1>1. /\ TypeOK /\ OneAtATime /\ OthersQuiet /\ pc # "down"
      /\ unnoticed' = unnoticed \ {f} /\ "local" \in File
  BY DEF Always, Considerate, Looking, PathChanged, File
<1>2. CASE IsSelfWrite(f)
  <2>1. f \notin unnoticed BY <1>1, <1>2 DEF OneAtATime
  <2>2. unnoticed = {} /\ pending_promote' = pending_promote
    BY <1>1, <1>2, <2>1 DEF PathChanged, promotion
  <2>3. QED BY <1>1, <2>2 DEF PendingIsAhead
<1>3. CASE ~IsSelfWrite(f) /\ f \in unnoticed
  <2>1. unnoticed = {f} /\ Exists(f)
    BY <1>1, <1>3 DEF OneAtATime, TypeOK
  <2>2. pending_promote' = (f = "local") BY <1>3 DEF PathChanged
  <2>3. \A g \in File \ {f} : Quiet(g) BY <1>1, <2>1 DEF OthersQuiet
  <2>4. f = "local" => Newer("local", "root")
    BY <1>1, <1>3, <2>1 DEF OneAtATime, Newer, File
  <2>5. QED BY <1>1, <2>2, <2>3, <2>4
<1>4. CASE ~IsSelfWrite(f) /\ f \notin unnoticed
  <2>1. unnoticed = {} /\ ~Quiet(f) BY <1>1, <1>4 DEF Quiet
  <2>2. pending_promote' = (f = "local") BY <1>4 DEF PathChanged
  <2>3. QED BY <1>1, <2>1, <2>2 DEF PendingIsAhead
<1>5. QED BY <1>2, <1>3, <1>4

LEMMA SameNewer ==
  ASSUME file' = file
  PROVE  Newer("local", "root")' = Newer("local", "root")
BY DEF Newer, Exists

\* A write that is due makes the local file the newer one.
LEMMA WrittenIsAhead ==
  ASSUME WriteDebounce # 0, Always, Considerate, Flush, pending_local_write,
         clock >= local_write_at,
         file' = [file EXCEPT !["local"] = [cfg |-> active, mtime |-> clock]]
  PROVE  /\ file'["local"] # Missing /\ file'["local"].cfg = active
         /\ file'["root"] = file["root"] /\ Newer("local", "root")'
<1>1. /\ TypeOK /\ WriteComesFirst /\ clock \in Nat /\ active \in Config \cup {Bad}
      /\ "local" \in File /\ "root" \in File
  BY DEF Always, Considerate, TypeOK, File, Time
<1>2. /\ file'["local"] # Missing /\ file'["local"].cfg = active
      /\ file'["local"].mtime = clock /\ file'["root"] = file["root"]
  BY <1>1, Written
<1>3. Exists("root") => file["root"].mtime < clock
  BY <1>1 DEF WriteComesFirst
<1>4. Exists("root") => file["root"].mtime \in Nat
  BY <1>1, FileType DEF Time
<1>5. QED BY <1>1, <1>2, <1>3, <1>4 DEF Newer, Exists

LEMMA AheadStep ==
  ASSUME WriteDebounce # 0, Always, Considerate, PendingIsAhead, [Next]_vars,
         ~messy'
  PROVE  PendingIsAhead'
<1>a. /\ TypeOK /\ DownKnowsNothing /\ OneAtATime
      /\ pc # "down" => OthersQuiet
      /\ pc = "starting" => known_mtimes = [f \in File |-> Mtime(f)]
  BY DEF Always, Considerate
<1>1. ASSUME NEW f \in File, HandleEvent(f) \/ PollMtime(f)
      PROVE  PendingIsAhead'
  <2>1. /\ UNCHANGED <<file, self_writes>> /\ pc \in Looking /\ pc # "down"
    BY <1>1 DEF HandleEvent, PollMtime, disk, Looking, File
  <2>2. Quiet("local") => Quiet("local")'
    <3>1. /\ \/ known_mtimes' = known_mtimes
             \/ known_mtimes' = [known_mtimes EXCEPT ![f] = Mtime(f)]
          /\ events' \subseteq events
      BY <1>1 DEF HandleEvent, PollMtime, disk
    <3>2. Changed("local")' => Changed("local")
      <4>1. Mtime("local")' = Mtime("local") BY <2>1 DEF Mtime, Exists
      <4>2. \/ known_mtimes'["local"] = known_mtimes["local"]
            \/ known_mtimes'["local"] = Mtime("local")
        BY <1>a, <3>1 DEF TypeOK, File
      <4>3. QED BY <4>1, <4>2 DEF Changed
    <3>3. IsSelfWrite("local")' = IsSelfWrite("local")
      BY <2>1 DEF IsSelfWrite, Exists
    <3>4. QED BY <3>1, <3>2, <3>3 DEF Quiet
  <2>3. CASE PathChanged(f) /\ (f \in events \/ Changed(f))
    BY <2>1, <2>2, <2>3, LookedAtAhead, SameNewer DEF PendingIsAhead
  <2>4. CASE UNCHANGED <<pending_promote, unnoticed>>
    BY <2>1, <2>2, <2>4, SameNewer DEF PendingIsAhead
  <2>5. QED BY <1>1, <2>3, <2>4 DEF HandleEvent, PollMtime, promotion
<1>2. CASE Flush
  <2>1. pc' = "check" /\ UNCHANGED unnoticed /\ pc = "flush"
    BY <1>2 DEF Flush
  <2>2. CASE UNCHANGED <<file, pending_promote>>
    BY <2>1, <2>2, SameNewer DEF PendingIsAhead, Looking
  <2>3. CASE /\ pending_local_write /\ clock >= local_write_at
             /\ file' = [file EXCEPT !["local"] =
                           [cfg |-> active, mtime |-> clock]]
    BY <1>2, <2>1, <2>3, WrittenIsAhead DEF PendingIsAhead, Looking
  <2>4. QED BY <1>2, <2>2, <2>3 DEF Flush, promotion
<1>3. CASE Boot
  <2>1. /\ UNCHANGED file /\ pc' = "starting" /\ ~pending_promote
        /\ pending_promote' => Newer("local", "root")
    BY <1>3, <1>a DEF Boot, disk, promotion, DownKnowsNothing
  <2>2. QED BY <2>1, SameNewer DEF PendingIsAhead, Looking
<1>4. CASE Promote
  BY <1>4 DEF Promote, PendingIsAhead, Looking
<1>5. CASE Halt BY <1>5 DEF Halt, PendingIsAhead
<1>6. ASSUME NEW f \in File, NEW c \in Config \cup {Bad}, Edit(f, c)
      PROVE  PendingIsAhead'
  BY <1>6 DEF Edit, PendingIsAhead
<1>7. CASE \/ Snapshot \/ EndIpc \/ EndEvents \/ CheckPromote \/ Wake
           \/ PromoteFails \/ Tick
           \/ \E s \in Setting, v \in Value : GuiSet(s, v)
           \/ UNCHANGED vars
  <2>1. /\ UNCHANGED <<file, events, self_writes, known_mtimes, unnoticed>>
        /\ pending_promote' => pending_promote
        /\ pc' = "down" <=> pc = "down"
        /\ pc' \in Looking => pc \in Looking \cup {"ipc"}
    BY <1>a, <1>7 DEF Snapshot, EndIpc, EndEvents, CheckPromote, Wake,
                PromoteFails, Tick, GuiSet, disk, promotion, history, vars, Looking
  <2>2. Quiet("local") => Quiet("local")'
    BY <2>1, SameQuiet DEF File
  <2>3. pc = "ipc" => Quiet("local") \/ unnoticed # {}
    BY <1>a DEF OthersQuiet, Looking, File
  <2>4. QED BY <2>1, <2>2, <2>3, SameNewer DEF PendingIsAhead
<1>8. ASSUME NEW f \in File, Remove(f) PROVE FALSE BY <1>8 DEF Remove
<1>9. QED BY <1>1, <1>2, <1>3, <1>4, <1>5, <1>6, <1>7, <1>8
         DEF Next, Daemon, User

LEMMA RegisterInit == Init => Registering!Init /\ PendingIsAhead
<1>1. ASSUME Init, NEW f \in File
      PROVE  /\ Holds(f) \in Config \cup {Missing}
             /\ Holds(f) = IF Exists(f) THEN file[f].cfg ELSE Missing
             /\ Holds(f) = Missing <=> ~Exists(f)
             /\ Exists(f) => file[f].mtime = 0
  BY <1>1, ContentAssumption DEF Init, Holds, Exists
<1>2. "local" \in File /\ "root" \in File BY DEF File
<1>3. ASSUME Init PROVE Registering!Init
  <2>1. Newer("local", "root") = (~Exists("root") /\ Exists("local"))
    <3>1. ~Newer("local", "root") \/ ~Exists("root")
      <4>1. Exists("local") /\ Exists("root") =>
              ~(file["local"].mtime > file["root"].mtime)
        BY <1>1, <1>2, <1>3
      <4>2. QED BY <4>1 DEF Newer
    <3>2. Newer("local", "root") \in BOOLEAN BY DEF Newer
    <3>3. QED BY <3>1, <3>2 DEF Newer
  <2>2. Newer("local", "root") =
          (Holds("root") = Missing /\ Holds("local") # Missing)
    BY <1>1, <1>2, <1>3, <2>1
  <2>3. Registering!OnDisk =
          IF Exists("root") THEN Holds("root") ELSE Holds("local")
    <3>1. CASE Exists("root")
      BY <2>1, <3>1 DEF Registering!OnDisk
    <3>2. CASE ~Exists("root") /\ Exists("local")
      BY <2>1, <3>2 DEF Registering!OnDisk
    <3>3. CASE ~Exists("root") /\ ~Exists("local")
      BY <1>1, <1>2, <1>3, <2>1, <3>3 DEF Registering!OnDisk
    <3>4. QED BY <3>1, <3>2, <3>3
  <2>4. intent = IF Exists("root") THEN Holds("root")
                 ELSE IF Exists("local") THEN Holds("local") ELSE Default
    BY <1>3 DEF Init, Holds
  <2>5. intent = IF Registering!OnDisk = Missing THEN Default
                                                 ELSE Registering!OnDisk
    BY <1>1, <1>2, <1>3, <2>3, <2>4
  <2>6. /\ InForce = Missing /\ (unnoticed = {}) = TRUE
        /\ pending_local_write = FALSE /\ messy = FALSE
    BY <1>3 DEF Init, InForce
  <2>7. /\ Holds("local") \in Config \cup {Missing}
        /\ Holds("root") \in Config \cup {Missing}
    BY <1>1, <1>2, <1>3
  <2>8. QED BY <2>2, <2>5, <2>6, <2>7 DEF Registering!Init
<1>4. QED BY <1>3 DEF Init, PendingIsAhead

\* Nothing that Register knows of has changed.
LEMMA RegisterSame ==
  ASSUME UNCHANGED <<file, active, intent, unnoticed, pending_local_write, messy>>,
         pc' = "down" <=> pc = "down"
  PROVE  UNCHANGED Registering!vars
BY DEF Registering!vars, InForce, Holds, Newer, Exists

LEMMA RegisterStep ==
  ASSUME WriteDebounce # 0, Always, Considerate, LastWord, LastWord',
         PendingIsAhead, [Next]_vars, ~messy'
  PROVE  [Registering!Next]_(Registering!vars)
<1>a. /\ TypeOK /\ TypeOK' /\ TimesInOrder /\ DownKnowsNothing /\ OneAtATime
      /\ active # Missing /\ active' # Missing /\ clock \in Nat
  BY TypeStep, ContentAssumption DEF Always, Considerate, TypeOK, Time
<1>f. "local" \in File /\ "root" \in File /\ "local" # "root" BY DEF File
<1>k. messy = FALSE /\ messy' = FALSE BY <1>a, StaysMessy DEF TypeOK
<1>w. unnoticed' = {} /\ pc' # "down" => active' = intent' BY DEF LastWord
<1>n. \A f \in File : Exists(f) =>
        file[f].mtime \in Nat /\ file[f].mtime =< clock
  BY <1>a, FileType DEF TimesInOrder, Time
<1>1. ASSUME NEW s \in Setting, NEW v \in Value, GuiSet(s, v)
      PROVE  Registering!Next
  <2>1. /\ UNCHANGED <<file, unnoticed, pc>> /\ pc = "ipc" /\ unnoticed = {}
        /\ pending_local_write' = TRUE
    BY <1>1 DEF GuiSet, disk
  <2>2. active' = intent' /\ intent' \in Config BY <1>a, <1>w, <2>1 DEF TypeOK
  <2>3. Registering!Click(intent')
    BY <1>a, <2>1, <2>2
       DEF Registering!Click, Registering!Up, InForce, Holds, Newer, Exists
  <2>4. QED BY <1>k, <2>2, <2>3 DEF Registering!Next, Registering!Step
<1>2. CASE \/ Snapshot \/ EndIpc \/ EndEvents \/ CheckPromote \/ Wake
           \/ PromoteFails \/ Tick \/ UNCHANGED vars
  <2>1. /\ UNCHANGED <<file, active, intent, unnoticed, pending_local_write, messy>>
        /\ pc' = "down" <=> pc = "down"
    BY <1>2 DEF Snapshot, EndIpc, EndEvents, CheckPromote, Wake, PromoteFails,
                Tick, disk, writeback, history, vars
  <2>2. QED BY <2>1, RegisterSame
<1>3. ASSUME NEW f \in File, HandleEvent(f) \/ PollMtime(f)
      PROVE  [Registering!Next]_(Registering!vars)
  <2>1. /\ UNCHANGED <<file, intent, pending_local_write, messy>>
        /\ pc \in Looking /\ pc # "down" /\ pc' # "down"
    BY <1>3, <1>f
       DEF HandleEvent, PollMtime, disk, writeback, Looking, File
  <2>2. \/ UNCHANGED <<active, unnoticed>>
        \/ unnoticed # {} /\ unnoticed' = {}
    <3>1. CASE PathChanged(f) /\ (f \in events \/ Changed(f))
      BY <2>1, <3>1, LookedAt
    <3>2. QED BY <1>3, <3>1 DEF HandleEvent, PollMtime
  <2>3. CASE UNCHANGED <<active, unnoticed>> BY <2>1, <2>3, RegisterSame
  <2>4. CASE unnoticed # {} /\ unnoticed' = {}
    <3>1. active' = intent BY <1>w, <2>1, <2>4
    <3>2. Registering!Hear
      BY <1>a, <2>1, <2>4, <3>1
         DEF Registering!Hear, Registering!Up, InForce, Holds, Newer, Exists
    <3>3. QED BY <1>k, <3>2 DEF Registering!Next, Registering!Step
  <2>5. QED BY <2>2, <2>3, <2>4
<1>4. CASE Flush
  <2>1. /\ UNCHANGED <<active, intent, unnoticed>>
        /\ pc = "flush" /\ pc' = "check" /\ unnoticed = {} /\ active = intent
    BY <1>4, <1>a DEF Flush, OneAtATime, LastWord
  <2>2. CASE UNCHANGED <<file, pending_local_write>>
    BY <1>k, <2>1, <2>2, RegisterSame
  <2>3. CASE /\ pending_local_write /\ clock >= local_write_at
             /\ pending_local_write' = FALSE
             /\ file' = [file EXCEPT !["local"] =
                           [cfg |-> active, mtime |-> clock]]
    <3>1. /\ Holds("local")' = intent /\ Holds("root")' = Holds("root")
          /\ Newer("local", "root")' = TRUE
      BY <1>4, <2>1, <2>3, WrittenIsAhead DEF Holds, Exists, Newer
    <3>2. Registering!Save
      BY <1>a, <2>1, <2>3, <3>1
         DEF Registering!Save, Registering!Stage, Registering!Up, InForce, TypeOK
    <3>3. QED BY <1>k, <3>2 DEF Registering!Next, Registering!Step
  <2>4. QED BY <1>4, <1>k, <2>2, <2>3 DEF Flush
<1>5. CASE Promote
  <2>1. /\ UNCHANGED <<clock, active, intent, unnoticed, pending_local_write>>
        /\ pc = "promote" /\ pc' = "sleep" /\ unnoticed = {}
        /\ Exists("local") /\ pending_promote
        /\ file' = [file EXCEPT !["root"] =
                      [cfg |-> file["local"].cfg, mtime |-> clock]]
    BY <1>5, <1>a DEF Promote, OneAtATime, Considerate, writeback
  <2>2. file["local"].cfg \in Config \cup {Bad}
    BY <1>a, <1>f, <2>1, FileType
  <2>3. /\ file'["root"] # Missing /\ file'["root"].cfg = file["local"].cfg
        /\ file'["root"].mtime = clock /\ file'["local"] = file["local"]
    BY <1>a, <1>f, <2>1, <2>2, Written
  <2>4. Holds("root")' = Holds("local") /\ Holds("local")' = Holds("local")
    BY <2>1, <2>3 DEF Holds, Exists
  <2>5. Newer("local", "root") = TRUE BY <2>1 DEF PendingIsAhead, Newer
  <2>6. Newer("local", "root")' = FALSE
    BY <1>a, <1>f, <1>n, <2>1, <2>3 DEF Newer, Exists
  <2>7. Registering!Promote
    BY <1>a, <2>1, <2>4, <2>5, <2>6
       DEF Registering!Promote, Registering!Up, InForce
  <2>8. QED BY <1>k, <2>7 DEF Registering!Next, Registering!Step
<1>6. CASE Boot
  <2>1. /\ UNCHANGED <<file, intent, pending_local_write>>
        /\ pc = "down" /\ pc' = "starting" /\ unnoticed' = {}
    BY <1>6 DEF Boot, disk, writeback
  <2>2. Registering!Rise
    BY <1>a, <1>w, <2>1
       DEF Registering!Rise, Registering!Up, InForce, Holds, Newer, Exists
  <2>3. QED BY <1>k, <2>2 DEF Registering!Next, Registering!Step
<1>7. CASE Halt
  <2>1. /\ UNCHANGED <<file, intent, unnoticed>>
        /\ pc = "sleep" /\ pc' = "down" /\ pending_local_write = FALSE
        /\ pending_local_write' = FALSE
    BY <1>7, <1>k, <1>a DEF Halt, TypeOK
  <2>2. Registering!Fall
    BY <1>a, <2>1
       DEF Registering!Fall, Registering!Up, InForce, Holds, Newer, Exists
  <2>3. QED BY <1>k, <2>2 DEF Registering!Next, Registering!Step
<1>8. ASSUME NEW f \in File, NEW c \in Config \cup {Bad}, Edit(f, c)
      PROVE  Registering!Next
  <2>1. /\ UNCHANGED <<active, pc, pending_local_write>> /\ unnoticed = {}
        /\ unnoticed' = {f} /\ c # Bad /\ c \in Config /\ intent' = c
        /\ \A g \in File : Exists(g) => file[g].mtime < clock
        /\ file' = [file EXCEPT ![f] = [cfg |-> c, mtime |-> clock]]
    BY <1>8 DEF Edit, Inconsiderate, writeback, MayEdit
  <2>2. /\ file'[f] # Missing /\ file'[f].cfg = c /\ file'[f].mtime = clock
        /\ \A g \in File \ {f} : file'[g] = file[g]
    BY <1>a, <2>1, Written
  <2>3. Holds(f)' = c /\ \A g \in File \ {f} : Holds(g)' = Holds(g)
    BY <2>2 DEF Holds, Exists
  <2>4. ASSUME f = "local" PROVE Registering!Stage(c)
    <3>1. Newer("local", "root")' = TRUE
      BY <1>f, <2>1, <2>2, <2>4 DEF Newer, Exists
    <3>2. QED BY <1>f, <2>3, <2>4, <3>1 DEF Registering!Stage
  <2>5. ASSUME f = "root" PROVE Registering!Edit(c)
    <3>1. Newer("local", "root")' = FALSE
      BY <1>a, <1>f, <1>n, <2>1, <2>2, <2>5 DEF Newer, Exists
    <3>2. QED BY <1>f, <2>3, <2>5, <3>1 DEF Registering!Edit
  <2>6. Registering!Stage(c) \/ Registering!Edit(c) BY <2>4, <2>5 DEF File
  <2>7. Registering!Say(c)
    BY <2>1, <2>6 DEF Registering!Say, InForce
  <2>8. QED BY <1>k, <2>1, <2>7 DEF Registering!Next, Registering!Step
<1>9. ASSUME NEW f \in File, Remove(f) PROVE FALSE BY <1>9 DEF Remove
<1>10. QED BY <1>1, <1>2, <1>3, <1>4, <1>5, <1>6, <1>7, <1>8, <1>9
          DEF Next, Daemon, User

\* Registered, for any settings and tolerance and any debounce of writes that is
\* not zero: through edits of either file, clicks, late events, promotions and
\* restarts, the two files and the daemon are one register of the user's words.
THEOREM FilesAreARegister ==
  ASSUME WriteDebounce # 0
  PROVE  Spec => Registered
<1> DEFINE RInv == IInv /\ (~messy => LastWord /\ PendingIsAhead)
<1>1. Init => RInv /\ Registering!Init
  BY AlwaysInit, ConsiderateInit, LastWordInit, RegisterInit DEF IInv
<1>2. RInv /\ [Next]_vars => RInv'
  BY AlwaysStep, ConsiderateStep, LastWordStep, AheadStep, StaysMessy DEF IInv
<1>3. RInv /\ RInv' /\ [Next]_vars => [Registering!Next]_(Registering!vars)
  <2> SUFFICES ASSUME RInv, RInv', [Next]_vars
               PROVE  [Registering!Next]_(Registering!vars)
    OBVIOUS
  <2>1. CASE messy' = TRUE BY <2>1 DEF Registering!Next
  <2>2. CASE messy' = FALSE BY <2>2, RegisterStep, StaysMessy DEF IInv
  <2>3. QED BY <2>1, <2>2 DEF IInv, Always, TypeOK
<1>4. QED BY <1>1, <1>2, <1>3, PTL DEF Spec, Registered, Registering!Spec

----------------------------------------------------------------------------
(* What Register means for the daemon.                                     *)

\* What is in force is the last word once it is heard, and so is what the newer
\* file holds, but for a word that is still to be saved.
Kept ==
  /\ unnoticed = {} /\ InForce # Missing => InForce = intent
  /\ ~pending_local_write /\ Registering!OnDisk # Missing =>
       Registering!OnDisk = intent

LEMMA KeptStep ==
  ASSUME TypeOK, TypeOK', ~messy => Kept,
         [Registering!Next]_(Registering!vars), ~messy'
  PROVE  Kept'
<1>1. \/ Registering!Step \/ UNCHANGED Registering!vars
  BY DEF Registering!Next, TypeOK
<1>2. Kept BY <1>1 DEF Registering!Step, Registering!vars
<1>3. CASE UNCHANGED Registering!vars
  BY <1>2, <1>3 DEF Registering!vars, Kept, Registering!OnDisk
<1>4. ASSUME NEW w \in Config, Registering!Say(w) PROVE Kept'
  BY <1>4 DEF Registering!Say, Registering!Stage, Registering!Edit, Kept,
              Registering!OnDisk
<1>5. ASSUME NEW w \in Config, Registering!Click(w) PROVE Kept'
  BY <1>5 DEF Registering!Click, Kept
<1>6. CASE Registering!Hear \/ Registering!Rise \/ Registering!Fall
  BY <1>2, <1>6 DEF Registering!Hear, Registering!Rise, Registering!Fall, Kept,
                    Registering!OnDisk
<1>7. CASE Registering!Save
  BY <1>2, <1>7 DEF Registering!Save, Registering!Stage, Kept, Registering!OnDisk
<1>8. CASE Registering!Promote
  BY <1>2, <1>8 DEF Registering!Promote, Kept, Registering!OnDisk
<1>9. QED BY <1>1, <1>3, <1>4, <1>5, <1>6, <1>7, <1>8 DEF Registering!Step

\* A step of the daemon that changes what is in force is one that hears a word.
LEMMA KeptReloads ==
  ASSUME TypeOK, TypeOK', ~messy => Kept, Daemon, active' # active, ~messy,
         [Registering!Next]_(Registering!vars)
  PROVE  unnoticed # {}
<1>1. /\ intent' = intent /\ pc # "down" /\ pc' # "down" /\ messy' = messy
  <2>1. ~Flush BY DEF Flush
  <2>2. QED BY <2>1 DEF Daemon, Snapshot, EndIpc, EndEvents, CheckPromote,
                        Promote, PromoteFails, Wake, HandleEvent, PollMtime, history, File
<1>2. /\ InForce = active /\ InForce' = active'
      /\ active # Missing /\ active' # Missing
  BY <1>1, ContentAssumption DEF InForce, TypeOK
<1>3. Registering!Step
  BY <1>1, <1>2 DEF Registering!Next, Registering!vars, TypeOK
<1>4. CASE Registering!Hear BY <1>4 DEF Registering!Hear
<1>5. CASE \E w \in Config : Registering!Click(w)
  BY <1>1, <1>2, <1>5 DEF Registering!Click, Kept
<1>6. CASE \/ Registering!Rise \/ Registering!Fall \/ Registering!Save
           \/ Registering!Promote \/ \E w \in Config : Registering!Say(w)
  BY <1>2, <1>6 DEF Registering!Rise, Registering!Fall, Registering!Save,
                    Registering!Promote, Registering!Say, Registering!Up
<1>7. QED BY <1>3, <1>4, <1>5, <1>6 DEF Registering!Step

\* NoticedTakesEffect, RestartAgrees and ReloadsAreCaused say no more than
\* Registered does, so a run that checks the refinement checks them.
THEOREM RegisterSaysSo ==
  []TypeOK /\ Registered =>
    [](NoticedTakesEffect /\ RestartAgrees) /\ ReloadsAreCaused
<1>1. Registering!Init => Kept
  BY DEF Registering!Init, Registering!OnDisk, Kept
<1>2. TypeOK /\ TypeOK' /\ (~messy => Kept) /\ [Registering!Next]_(Registering!vars)
        => (~messy => Kept)'
  BY KeptStep
<1>3. TypeOK /\ (~messy => Kept) => NoticedTakesEffect /\ RestartAgrees
  <2> SUFFICES ASSUME TypeOK, Kept PROVE NoticedTakesEffect /\ RestartAgrees
    BY DEF NoticedTakesEffect, RestartAgrees
  <2>1. /\ active # Missing /\ Latest \in File
        /\ \A f \in File : Exists(f) => Holds(f) = file[f].cfg /\ Holds(f) # Missing
    BY FileType, ContentAssumption DEF TypeOK, Holds, Latest, File
  <2>2. Registering!OnDisk = Holds(Latest)
    BY DEF Registering!OnDisk, Latest
  <2>3. NoticedTakesEffect
    BY <2>1 DEF Kept, InForce, NoticedTakesEffect
  <2>4. RestartAgrees
    BY <2>1, <2>2, <2>3 DEF Kept, NoticedTakesEffect, RestartAgrees, Latest
  <2>5. QED BY <2>3, <2>4
<1>4. TypeOK /\ TypeOK' /\ (~messy => Kept) /\ [Registering!Next]_(Registering!vars)
        => [(Daemon /\ active' # active /\ ~messy) => unnoticed # {}]_vars
  BY KeptReloads
<1>5. QED
  BY <1>1, <1>2, <1>3, <1>4, PTL DEF Registered, Registering!Spec, ReloadsAreCaused
=============================================================================
