----------------------------- MODULE ConfigSync -----------------------------
(***************************************************************************)
(* The daemon's dual configuration (daemon/src/sync.rs) and the part of    *)
(* the main loop that drives it (daemon/src/main.rs).                      *)
(*                                                                         *)
(* The root file is the live configuration, the local file the staging     *)
(* copy.  Whoever edits a file replaces it; the GUI changes one setting of *)
(* the configuration in memory.  The daemon loads what changed, writes GUI *)
(* changes to the local file after a debounce, and copies a local file     *)
(* that has been left alone for long enough over the root file.            *)
(*                                                                         *)
(* Time is a bounded counter.  File times and the daemon's clock are read  *)
(* from it; others write at most one file per tick, so that different      *)
(* edits have different times, as on a filesystem with nanosecond times.   *)
(***************************************************************************)
EXTENDS Integers

CONSTANTS Setting, Value,
          Bad,              \* contents that config::parse rejects
          Missing,          \* no such file, no time recorded
          PromoteDebounce,  \* promote_debounce, in ticks
          WriteDebounce,    \* local_write_debounce
          Tolerance,        \* SELF_WRITE_TOLERANCE
          MaxTime,          \* bound: the clock stops here
          LastEdit,         \* bound: nobody edits anything after this time
          Faults

Fault == {"halt",     \* the daemon is stopped or killed, and started again
          "bad",      \* an edit can leave a file that does not parse
          "remove",   \* a file is deleted
          "deaf",     \* the file watcher can miss a change
          "denied",   \* the root file cannot be written
          "readonly", \* the local file cannot be written
          "quick",    \* edits come right after the daemon's own writes
          "clash",    \* changes come before the previous one was noticed
          "race"}     \* edits come in the middle of a loop iteration

ASSUME TimeAssumption ==
  /\ PromoteDebounce \in Nat \ {0} /\ WriteDebounce \in Nat
  /\ Tolerance \in Nat /\ MaxTime \in Nat /\ LastEdit \in Nat
ASSUME FaultAssumption == Faults \subseteq Fault

File == {"local", "root"}
Time == 0..MaxTime
Config == [Setting -> Value]
ASSUME ContentAssumption ==
  /\ Value # {}
  /\ Bad \notin Config /\ Missing \notin Config \cup {Bad}
  /\ Missing \notin [cfg : Config \cup {Bad}, mtime : Time] \cup Time

VARIABLES
  clock,
  file,             \* file[f]: contents and modification time
  events,           \* files the watcher has reported a change of
  \* struct Sync
  active,           \* the configuration in force
  active_source,
  pending_promote, local_changed_at, local_mtime_at_change,
  pending_local_write, local_write_at,
  self_writes,      \* time of the daemon's own last write of each file
  known_mtimes,
  pc,               \* the stage of the main loop
  \* history
  intent,           \* what the last word of the user, on either file or in
                    \* the GUI, makes of the configuration
  unnoticed,        \* files changed by others since the daemon last looked
  unpromoted,       \* something changed since the last promotion
  overlooked,       \* files last changed while the daemon was starting
  messy,            \* somebody did what the daemon does not cope with
  gaveUp            \* the last promotion was refused, nothing changed since

promotion == <<pending_promote, local_changed_at, local_mtime_at_change>>
writeback == <<pending_local_write, local_write_at>>
history   == <<intent, unnoticed, unpromoted, overlooked, messy, gaveUp>>
disk      == <<clock, file, events>>
vars      == <<clock, file, events, active, active_source, pending_promote,
               local_changed_at, local_mtime_at_change, pending_local_write,
               local_write_at, self_writes, known_mtimes, pc, intent,
               unnoticed, unpromoted, overlooked, messy, gaveUp>>

Stamp == Time \cup {Missing}
Stage == {"down", "starting", "ipc", "events", "local", "root", "flush",
          "check", "promote", "sleep"}

TypeOK ==
  /\ clock \in Time
  /\ file \in [File -> [cfg : Config \cup {Bad}, mtime : Time] \cup {Missing}]
  /\ events \subseteq File
  /\ active \in Config /\ active_source \in {"root", "local", "missing"}
  /\ pending_promote \in BOOLEAN
  /\ local_changed_at \in Stamp /\ local_mtime_at_change \in Stamp
  /\ pending_local_write \in BOOLEAN
  /\ local_write_at \in Nat \cup {Missing}
  /\ self_writes \in [File -> Stamp] /\ known_mtimes \in [File -> Stamp]
  /\ pc \in Stage
  /\ intent \in Config /\ unnoticed \subseteq File /\ overlooked \subseteq File
  /\ unpromoted \in BOOLEAN /\ messy \in BOOLEAN /\ gaveUp \in BOOLEAN

----------------------------------------------------------------------------
Exists(f) == file[f] # Missing
Mtime(f)  == IF Exists(f) THEN file[f].mtime ELSE Missing
Parses(f) == Exists(f) /\ file[f].cfg # Bad

\* AppConfig::default() has no settings of its own; one value stands for that.
Default == CHOOSE c \in Config : TRUE

\* Mutant: the root file always wins.
RootWins(f, g) == Exists(f) /\ ~Exists(g)

\* Some(a) > Some(b), and Some(_) > None.
Newer(f, g) == Exists(f) /\ (Exists(g) => file[f].mtime > file[g].mtime)

\* Mutant: that a file is gone is no change.
Replaced(f) == Exists(f) /\ known_mtimes[f] # Mtime(f)

\* poll_mtimes finds that f is not what it was.
Changed(f) == known_mtimes[f] # Mtime(f)

\* Mutant: the tolerance is one tick wider than it is said to be.
IsSelfWriteWide(f) ==
  /\ self_writes[f] # Missing /\ Exists(f)
  /\ file[f].mtime >= self_writes[f]
  /\ file[f].mtime - self_writes[f] =< Tolerance

\* is_self_write: what f is now, the daemon wrote.
IsSelfWrite(f) ==
  /\ self_writes[f] # Missing /\ Exists(f)
  /\ \/ file[f].mtime = self_writes[f]
     \/ /\ file[f].mtime >= self_writes[f]
        /\ file[f].mtime - self_writes[f] < Tolerance

\* Mutant: a newly loaded local file does not restart the promotion window.
LoadLocalQuietly ==
  /\ IF Parses("local")
     THEN active' = file["local"].cfg /\ active_source' = "local"
     ELSE UNCHANGED <<active, active_source>>
  /\ UNCHANGED <<local_changed_at, local_mtime_at_change>>

\* load_local and load_root: a file that cannot be read or parsed changes
\* nothing.
LoadLocal ==
  IF Parses("local")
  THEN /\ active' = file["local"].cfg /\ active_source' = "local"
       /\ local_changed_at' = clock
       /\ local_mtime_at_change' = Mtime("local")
  ELSE UNCHANGED <<active, active_source, local_changed_at,
                   local_mtime_at_change>>

LoadRoot ==
  IF Parses("root")
  THEN active' = file["root"].cfg /\ active_source' = "root"
  ELSE UNCHANGED <<active, active_source>>

\* Mutant: a change of the root file does not call off the promotion that an
\* older local file waits for.
PathChangedPending(f) ==
  /\ unnoticed' = unnoticed \ {f}
  /\ IF IsSelfWrite(f)
     THEN UNCHANGED <<active, active_source, promotion>>
     ELSE \/ f = "local" /\ LoadLocal /\ pending_promote' = TRUE
          \/ f = "root" /\ LoadRoot /\ UNCHANGED promotion

\* on_path_changed.
PathChanged(f) ==
  /\ unnoticed' = unnoticed \ {f}
  /\ IF IsSelfWrite(f)
     THEN UNCHANGED <<active, active_source, promotion>>
     ELSE \/ f = "local" /\ LoadLocal /\ pending_promote' = TRUE
          \/ /\ f = "root" /\ LoadRoot /\ pending_promote' = FALSE
             /\ UNCHANGED <<local_changed_at, local_mtime_at_change>>

\* A change of f reaches the watcher's queue, or is missed.
Notify(f) == \/ events' = events \cup {f}
             \/ "deaf" \in Faults /\ UNCHANGED events

----------------------------------------------------------------------------
Init ==
  /\ clock = 0 /\ events = {} /\ pc = "down"
  /\ file \in [File -> [cfg : Config, mtime : {0}] \cup {Missing}]
  /\ active = Default /\ active_source = "missing"
  /\ pending_promote = FALSE
  /\ local_changed_at = Missing /\ local_mtime_at_change = Missing
  /\ pending_local_write = FALSE /\ local_write_at = Missing
  /\ self_writes = [f \in File |-> Missing]
  /\ known_mtimes = [f \in File |-> Missing]
  /\ intent = IF Exists("root") THEN file["root"].cfg
              ELSE IF Exists("local") THEN file["local"].cfg ELSE Default
  /\ unnoticed = {} /\ overlooked = {} /\ unpromoted = TRUE
  /\ messy = FALSE /\ gaveUp = FALSE

\* initial_load, first half: the newer file wins, root when they are equally
\* old.  (The times read for this are the first the daemon knows.)
Boot ==
  /\ pc = "down"
  /\ IF Newer("local", "root")
     THEN LoadLocal /\ pending_promote' = TRUE
     ELSE /\ LoadRoot
          /\ UNCHANGED promotion
  /\ known_mtimes' = [f \in File |-> Mtime(f)]
  /\ unnoticed' = {} /\ overlooked' = {}
  /\ pc' = "starting"
  /\ UNCHANGED <<disk, writeback, self_writes, intent, unpromoted, messy,
                 gaveUp>>

\* initial_load, second half: snapshot_mtimes reads the times again, and what
\* has been changed since the load is known without having been loaded.  The
\* watcher is created after that.
Snapshot ==
  /\ pc = "starting"
  /\ known_mtimes' = [f \in File |-> Mtime(f)]
  /\ pc' = "ipc"
  /\ UNCHANGED <<disk, active, active_source, promotion, writeback, self_writes,
                 history>>

\* A GUI request (upsert_preset_rule, upsert_cap_rule, set_poll_interval):
\* change the setting in memory and schedule the write.
GuiSet(s, v) ==
  /\ pc = "ipc" /\ clock =< LastEdit
  /\ "clash" \in Faults \/ unnoticed = {}
  /\ active' = [active EXCEPT ![s] = v]
  /\ active_source' = "local"
  /\ pending_local_write' = TRUE
  /\ local_write_at' = clock + WriteDebounce
  /\ intent' = [intent EXCEPT ![s] = v]
  /\ unpromoted' = TRUE /\ gaveUp' = FALSE
  /\ messy' = (messy \/ unnoticed # {})
  /\ UNCHANGED <<disk, promotion, self_writes, known_mtimes, pc, unnoticed,
                 overlooked>>

EndIpc ==
  /\ pc = "ipc" /\ pc' = "events"
  /\ UNCHANGED <<disk, active, active_source, promotion, writeback, self_writes,
                 known_mtimes, history>>

HandleEvent(f) ==
  /\ pc = "events" /\ f \in events
  /\ events' = events \ {f}
  /\ PathChanged(f)
  /\ UNCHANGED <<clock, file, writeback, self_writes, known_mtimes, pc, intent,
                 unpromoted, overlooked, messy, gaveUp>>

EndEvents ==
  /\ pc = "events" /\ events = {}
  /\ pc' = "local"
  /\ UNCHANGED <<disk, active, active_source, promotion, writeback, self_writes,
                 known_mtimes, history>>

\* poll_mtimes, first the local file, then the root file.
PollMtime(f) ==
  /\ pc = f
  /\ pc' = IF f = "local" THEN "root" ELSE "flush"
  /\ IF Changed(f)
     THEN /\ known_mtimes' = [known_mtimes EXCEPT ![f] = Mtime(f)]
          /\ PathChanged(f)
     ELSE UNCHANGED <<active, active_source, promotion, known_mtimes,
                      unnoticed>>
  /\ UNCHANGED <<disk, writeback, self_writes, intent, unpromoted, overlooked,
                 messy, gaveUp>>

\* tick, first half: write_local once its debounce is over.
Flush ==
  /\ pc = "flush" /\ pc' = "check"
  /\ IF pending_local_write /\ clock >= local_write_at
     THEN /\ pending_local_write' = FALSE
          /\ \/ /\ file' = [file EXCEPT !["local"] =
                              [cfg |-> active, mtime |-> clock]]
                /\ Notify("local")
                /\ self_writes' = [self_writes EXCEPT !["local"] = clock]
                /\ local_changed_at' = clock
                /\ local_mtime_at_change' = clock
                /\ pending_promote' = TRUE
                /\ UNCHANGED messy
             \/ /\ "readonly" \in Faults
                /\ messy' = TRUE
                /\ UNCHANGED <<file, events, self_writes, promotion>>
     ELSE UNCHANGED <<file, events, self_writes, promotion, pending_local_write,
                      messy>>
  /\ UNCHANGED <<clock, active, active_source, local_write_at, known_mtimes,
                 intent, unnoticed, unpromoted, overlooked, gaveUp>>

\* Mutant: the file is not looked at again before it is promoted.
SettledUnchecked == /\ local_changed_at # Missing
                    /\ clock - local_changed_at >= PromoteDebounce
                    /\ Exists("local")

\* tick, second half: promote a local file that has settled.
Settled == /\ local_changed_at # Missing
           /\ clock - local_changed_at >= PromoteDebounce
           /\ Exists("local") /\ Mtime("local") = local_mtime_at_change

\* Mutant: a settled file is promoted again and again.
CheckAgain ==
  /\ pc = "check"
  /\ pc' = IF Settled THEN "promote" ELSE "sleep"
  /\ UNCHANGED <<disk, active, active_source, promotion, writeback, self_writes,
                 known_mtimes, history>>

CheckPromote ==
  /\ pc = "check"
  /\ pc' = IF pending_promote /\ Settled THEN "promote" ELSE "sleep"
  /\ UNCHANGED <<disk, active, active_source, promotion, writeback, self_writes,
                 known_mtimes, history>>

\* promote: the local file's bytes, whatever they are by now, replace the root
\* file.  A root file that cannot be written is not tried again until the next
\* local change; a local file that cannot be read is.
Promote ==
  /\ pc = "promote" /\ Exists("local")
  /\ file' = [file EXCEPT !["root"] =
                [cfg |-> file["local"].cfg, mtime |-> clock]]
  /\ Notify("root")
  /\ self_writes' = [self_writes EXCEPT !["root"] = clock]
  /\ pending_promote' = FALSE
  /\ active_source' = "root"
  /\ unpromoted' = (pending_local_write \/ "local" \in unnoticed)
  /\ pc' = "sleep"
  /\ UNCHANGED <<clock, active, local_changed_at, local_mtime_at_change,
                 writeback, known_mtimes, intent, unnoticed, overlooked, messy,
                 gaveUp>>

PromoteFails ==
  /\ pc = "promote"
  /\ \/ ~Exists("local") /\ UNCHANGED <<pending_promote, gaveUp>>
     \/ "denied" \in Faults /\ pending_promote' = FALSE /\ gaveUp' = TRUE
  /\ pc' = "sleep"
  /\ UNCHANGED <<disk, active, active_source, local_changed_at,
                 local_mtime_at_change, writeback, self_writes, known_mtimes,
                 intent, unnoticed, unpromoted, overlooked, messy>>

Wake ==
  /\ pc = "sleep" /\ pc' = "ipc"
  /\ UNCHANGED <<disk, active, active_source, promotion, writeback, self_writes,
                 known_mtimes, history>>

\* Stopped by a signal, or killed.  Nothing is flushed on the way out.
Halt ==
  /\ "halt" \in Faults /\ clock =< LastEdit
  /\ pc = "sleep"
  /\ pc' = "down"
  /\ active' = Default /\ active_source' = "missing"
  /\ pending_promote' = FALSE
  /\ local_changed_at' = Missing /\ local_mtime_at_change' = Missing
  /\ pending_local_write' = FALSE /\ local_write_at' = Missing
  /\ self_writes' = [f \in File |-> Missing]
  /\ known_mtimes' = [f \in File |-> Missing]
  /\ events' = {}
  /\ messy' = (messy \/ pending_local_write)
  /\ UNCHANGED <<clock, file, intent, unnoticed, unpromoted, overlooked, gaveUp>>

----------------------------------------------------------------------------
(* Everybody else.                                                         *)

\* Nobody watches the files before the daemon's loop runs.
Unwatched == pc \in {"down", "starting"}

MayEdit(f) ==
  /\ clock =< LastEdit
  /\ \A g \in File : Exists(g) => file[g].mtime < clock
  /\ "race" \in Faults \/ pc \in {"sleep", "down"}
  /\ "clash" \in Faults \/ unnoticed = {}
  /\ "quick" \notin Faults /\ self_writes[f] # Missing
       => clock - self_writes[f] >= Tolerance

\* Somebody edits f in the middle of the start or of an iteration, before a
\* previous change was noticed, or right after a write of the daemon.
Inconsiderate(f) ==
  \/ pc \notin {"sleep", "down"}
  \/ unnoticed # {}
  \/ self_writes[f] # Missing /\ clock - self_writes[f] < Tolerance

\* An edit of f before the snapshot of the times is lost on the daemon.
WithOverlooked(f) ==
  IF pc = "starting" THEN overlooked \cup {f} ELSE overlooked \ {f}

Edit(f, c) ==
  /\ MayEdit(f)
  /\ file' = [file EXCEPT ![f] = [cfg |-> c, mtime |-> clock]]
  /\ IF Unwatched THEN UNCHANGED events ELSE Notify(f)
  /\ intent' = IF c = Bad THEN intent ELSE c
  /\ unnoticed' = unnoticed \cup {f}
  /\ overlooked' = WithOverlooked(f)
  /\ unpromoted' = TRUE /\ gaveUp' = FALSE
  /\ messy' = (messy \/ Inconsiderate(f) \/ c = Bad)
  /\ UNCHANGED <<clock, active, active_source, promotion, writeback,
                 self_writes, known_mtimes, pc>>

Remove(f) ==
  /\ "remove" \in Faults /\ Exists(f) /\ MayEdit(f)
  /\ file' = [file EXCEPT ![f] = Missing]
  /\ IF Unwatched THEN UNCHANGED events ELSE Notify(f)
  /\ unnoticed' = IF known_mtimes[f] = Missing  \* as it was
                   THEN unnoticed \ {f} ELSE unnoticed \cup {f}
  /\ overlooked' = WithOverlooked(f)
  /\ unpromoted' = TRUE /\ gaveUp' = FALSE /\ messy' = TRUE
  /\ UNCHANGED <<clock, active, active_source, promotion, writeback,
                 self_writes, known_mtimes, pc, intent>>

\* The sleep at the end of an iteration takes the daemon into the next tick, or
\* not (Wake): there is at least one iteration in every tick.
Tick ==
  /\ clock < MaxTime
  /\ \/ pc = "sleep" /\ pc' = "ipc"
     \/ pc = "down" /\ clock =< LastEdit /\ UNCHANGED pc
  /\ clock' = clock + 1
  /\ UNCHANGED <<file, events, active, active_source, promotion, writeback,
                 self_writes, known_mtimes, history>>

Daemon ==
  \/ Snapshot \/ EndIpc \/ EndEvents \/ Flush \/ CheckPromote \/ Promote
  \/ PromoteFails \/ Wake
  \/ \E f \in File : HandleEvent(f) \/ PollMtime(f)

User ==
  \/ \E s \in Setting, v \in Value : GuiSet(s, v)
  \/ \E f \in File, c \in Config : Edit(f, c)
  \/ \E f \in File : "bad" \in Faults /\ Edit(f, Bad)
  \/ \E f \in File : Remove(f)

Next == Daemon \/ User \/ Boot \/ Halt \/ Tick

Spec == Init /\ [][Next]_vars
\* The loop runs for ever, its sleeps take time, and systemd starts the daemon.
FairSpec == Spec /\ WF_vars(Daemon) /\ SF_vars(Tick) /\ WF_vars(Boot)

----------------------------------------------------------------------------
(* What the daemon promises.                                               *)

\* sync.rs: "The root file thus always lags slightly and reflects a settled
\* state."  When the daemon decides to promote, nobody has touched the local
\* file for the whole window, whatever the order in which changes were noticed.
\* (What it then copies is read again: an edit in that moment gets through.)
PromotesSettled ==
  [][(CheckPromote /\ pc' = "promote") =>
       clock - file["local"].mtime >= PromoteDebounce]_vars

\* sync.rs: "Our own writes to the local file are recognized so the change
\* watcher doesn't loop back on them."  Every promotion goes back to a change
\* somebody made since the one before.
PromotesAreCaused == [][Promote => unpromoted]_vars

\* ... and a configuration is only ever replaced from a file that somebody
\* else changed, so a GUI change is not undone by the daemon's own writes (after
\* an edit in the middle of an iteration it can be).
ReloadsAreCaused ==
  [][(Daemon /\ active' # active /\ ~messy) => unnoticed # {}]_vars

\* The files always hold what the daemon has in force: one restarted between
\* two iterations, with no write pending and nothing unnoticed, comes up with
\* the configuration it had, as long as everybody has been considerate and it
\* has been stopped with no write pending (messy).
RestartAgrees ==
  pc = "sleep" /\ unnoticed = {} /\ ~pending_local_write /\ ~messy =>
    LET f == IF Newer("local", "root") THEN "local" ELSE "root"
    IN  Exists(f) => file[f].cfg = active

\* sync.rs: a newer local file is applied "in-memory immediately (fast effect)",
\* and a root file "edited directly [...] is authoritative immediately".  Once
\* every change is noticed, the user's last word is in force, whatever has been
\* written, promoted and restarted since, until somebody does what the daemon
\* does not cope with.
NoticedTakesEffect ==
  pc # "down" /\ unnoticed = {} /\ ~messy => active = intent

\* ... and once it has been promoted, it is what the root file holds until the
\* next change: a promotion never copies anything but the last word.
PromotedIsLast ==
  ~unpromoted /\ ~messy => Exists("root") /\ file["root"].cfg = intent

\* What file f holds, and what the daemon has in force, in the eyes of Register.
Holds(f) == IF Exists(f) THEN file[f].cfg ELSE Missing
InForce  == IF pc = "down" THEN Missing ELSE active

Registering == INSTANCE Register WITH
  None <- Missing, word <- intent, heard <- (unnoticed = {}),
  inForce <- InForce, unsaved <- pending_local_write, staged <- Holds("local"),
  live <- Holds("root"), ahead <- Newer("local", "root"), void <- messy

\* The two files and the daemon are one register: every word of the user is in
\* force before the next, comes into force again after a restart, and reaches
\* the root file through the local one; no promotion puts an older word over a
\* newer, whatever order changes are noticed in.  Until somebody does what the
\* daemon does not cope with.
Registered == Registering!Spec

\* sync.rs on poll_mtimes: it "catches mtime changes even without the notify
\* watcher".  No change stays unnoticed, even by a deaf watcher, except one that
\* comes between the load and the snapshot of the times at start-up: that one is
\* never noticed, while no other change of the file follows and the daemon runs.
ChangesNoticed == []<>(unnoticed \subseteq overlooked)

\* The user's last word is what is in force in the end, through restarts and
\* with a deaf watcher, unless somebody was inconsiderate ...
EditsTakeEffect == <>[](active = intent \/ messy)
\* ... and what the root file holds, unless writing it was refused.
EditsReachRoot ==
  <>[](Exists("root") => file["root"].cfg = intent \/ messy \/ gaveUp)
=============================================================================
