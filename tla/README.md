# Nicewatch in TLA+

Nicewatch is a root daemon (Rust) that scans `/proc` on every poll, decides a
scheduling tier for each process from rules, known-game lists and
GPU/fullscreen/Steam heuristics, applies nice and ionice values, moves
processes into cgroup v2 directories that carry a rule's limits, and streams
the process table to a Tauri GUI over a Unix socket. Its configuration lives in
two files, a root one and a user-writable one, kept in step by the daemon.

This directory models the parts of the daemon and the GUI where order, failure
and restarts matter. TLC checks small instances; TLAPS proves the main
guarantees of the cgroup manager, of config sync, of the confirmation prompts, of
the table that a window shows, of the poll's dealings with other people's
processes and of the installed service for every number of processes, names,
rules, directories and settings.

    tlc -workers 2 -config CgroupCrash.cfg MCCgroupManager
    tlapm CgroupManagerProofs.tla

## 1. Inventory

| Part | Source | State it keeps | Operations |
|---|---|---|---|
| Main loop | `src/daemon/src/main.rs` 128-578 | the table of the last poll, RuleSet, prompt bookkeeping | drain IPC, drain file events, poll mtimes, tick, poll, sleep; shutdown |
| Cgroup manager | `src/daemon/src/applier.rs` 33-502 | `enrolled`, `created_dirs`, `controllers_reasserted`, the state file | recover, ensure_controllers, sync_pid, forget, sweep_strays, shutdown |
| Config sync | `src/daemon/src/sync.rs`, `config.rs` | `active`, pending promotion and write, own-write times, known mtimes | initial_load, on_path_changed, poll_mtimes, tick, GUI edits |
| Rule resolution | `src/daemon/src/rules.rs`, `src/common/src/lib.rs` | name -> rule, delay list | from_config, resolve |
| Game detection and prompts | `game_detect.rs`, `known_games.rs`, `main.rs` 347-557, 733-838 | prompted, suppressed and per-instance names, pending prompts, flag cache | detect, prompt, answer, prune |
| IPC server | `src/daemon/src/ipc.rs` | the list of clients' channels | accept, broadcast, drop |
| GUI backend and store | `src/gui/src-tauri/src/lib.rs`, `src/gui/src/lib/store.svelte.ts` | `latest`, the sender to the daemon; the process list and prompts | reconnect, snapshot, diff, prompt, commands |
| Priorities | `applier.rs` 698-817, `main.rs` 601-682, 840-862 | the kernel's nice and ioprio, the warned pids | apply_target, apply_preset_now, first_failure, forget |
| Process scan | `proc_scan.rs` | previous CPU counters | scan_proc, compute_cpu_percent |
| Set-up | `setup.rs`, `src/gui/src-tauri/src/lib.rs` 70-219, `src/nicewatch.sh` | the installed binary, the default configuration, the unit or autostart entry | install, uninstall, start, stop |
| GUI process | `src/gui/src-tauri/src/lib.rs` 402-561 | the guard socket, the window, the tray | launch, show, hide, quit |
| CLI, GUI views, theme, launcher icons, settings | `cli.rs`, `*.svelte`, `theme.rs`, `apps.rs`, `settings.rs` | none that others depend on | - |

How they interact. The daemon's main loop is one thread and calls everything
but IPC directly. The IPC server has a reader and a writer thread per client
and talks to the loop through channels; the file watcher (`notify`) sends events
through a channel. The cgroup hierarchy, `/proc` and the two configuration
files are shared with processes, with systemd and with whoever edits files,
none of which wait for the daemon.

What is hard in it:

* the daemon works on what a scan said while processes exit, exec, fork and
  move, and while systemd rewrites the same hierarchy;
* it can be killed anywhere, and must then find the way home of processes it
  moved, from a file it rewrites after each move;
* the configuration has three writers (root file, local file, GUI), two
  debounces, self-write recognition by time, and a watcher that may report late,
  twice or never;
* the GUI rebuilds a table from a snapshot and the diffs since, over a socket
  that is dropped and reopened, with a late window that starts from a cache;
* prompts are answered asynchronously, by several windows, for names whose
  processes come and go;
* everything the daemon keeps of a process it keeps under its pid, and pids are
  used again;
* it runs as root or as a user, and as a user most of what it could want to
  write is refused by the kernel, which must not become a warning per poll;
* two programs are told apart, found and cleaned up after by the names of their
  sockets, which outlive them, and which systemd, the installer, the GUI's
  buttons, a script and crashes all have a hand in.

What makes each part correct:

* cgroup manager: section 3.1; config sync: 3.2; rules, detection, prompts and
  priorities: 3.3; IPC server, GUI backend and store: 3.4; process scan and
  priorities of processes that change under the daemon's hands: 3.5; set-up, the
  daemon as a service and the GUI as a process: 3.6;
* main loop: the table a client sees agrees with the rules, the cgroups and the
  priorities of one and the same poll. CLI and views only show what others
  computed.

## 2. Modules

| Module | Models |
|---|---|
| `Cgroupfs` | the interface files of a cgroup directory and `apply_limits` on them (order of the writes, first error stops) |
| `CgroupManager` | `applier.rs` and the stages of the poll that call it, with processes, systemd and kills around it; implements `Placement` |
| `ConfigSync` | `sync.rs` and the part of the loop that drives it, with editors, the GUI, time and restarts around it; implements `Register` |
| `GamePrompts` | `rules.rs`, `game_detect.rs`, `known_games.rs`, the per-process part of the poll, the prompts and the client requests of `main.rs`, the confirmation window |
| `Placement` | the abstract specification of the cgroup manager: whoever it holds is brought home by it or, after a kill, by the next one before that serves; a kill loses one process at most |
| `Register` | the abstract specification of the configuration: every word of the user in force before the next, back after a restart, and on its way from the local file to the root file, never backwards |
| `Mirror` | the abstract specification of a window's table: the published tables, whole, in order, until the connection is lost |
| `IpcStream` | `ipc.rs`, the table diff and broadcasts of `main.rs`, the connection thread of the GUI and a window's store; implements `Mirror` |
| `Priorities` | `proc_scan.rs`, `apply_target`, `apply_preset_now` and the tables of the poll in `main.rs`, the scheduling calls of `applier.rs`, with processes that exit, exec, change and start again under an old pid |
| `SocketFile` | the name of a Unix socket on disk |
| `GuiInstance` | the GUI's single-instance guard, its window and tray |
| `DaemonService` | start and stop of the daemon, its socket, `setup.rs`, systemd |
| `Launch` | the composition of the two: the GUI's buttons, a shell, `nicewatch.sh`, the session |
| `CgroupManagerProofs`, `ConfigSyncProofs`, `GamePromptsProofs`, `IpcStreamProofs`, `PrioritiesProofs`, `LaunchProofs` | inductive invariants and theorems |
| `MCCgroupManager`, `MCConfigSync`, `MCGamePrompts`, `MCIpcStream`, `MCPriorities`, `MCLaunch` | finite instances |

## 3. The models

A step of a model is a stretch of one thread that ends where another party can
see something, or interfere. Parties are the daemon's loop, processes, systemd,
editors, the user, the GUI's threads and windows. What the environment may do
beyond the ordinary is switched on by name in the constant `Faults`, so that
each run says under which disturbances its properties hold.

### 3.1 CgroupManager

State: `/proc/<pid>` (`name`, `where`), the directories and their interface
files, the delegation of `cpu`, the manager's fields (`enrolled`, `created`,
`reasserted`), the state file (`saved`), and the position of the daemon's thread
(`pc`, `todo`, `sweep`, `scan`, `known`). `home` and `lost` are history: where
the process was before the daemon took it, and whether a kill cut it off from
there. `unsaved` marks the window between a change of the table and `persist`,
which is a step of its own. A write or removal of the file may fail, which the
daemon only warns about (faults `hiccup`, never twice in a row, and `unwritten`);
`stale` is history: the last one failed, and the file is as it was.

`Start`, `RecoverOrphan`, `Recovered` are `recover_orphans` and `new`;
`BeginPoll` is `ensure_controllers` and the scan; `SyncKeep`, `SyncMoveOut`,
`SyncEnroll`, `SyncRelease` are the branches of `sync_pid`; `SweepDir` and
`EndSweep` are the two halves of `sweep_strays`; `Forget` and `StopRelease` are
`forget` and `shutdown`. The environment starts, ends, forks, renames and
relocates processes, drops `cpu`, removes empty cgroups, edits rules and kills
the daemon at any step.

Properties: every process in a managed cgroup can be led home from the state
file (`OriginsRecorded`), but for at most one at a time (`OneAtRisk`); a clean
shutdown returns everybody (`CleanStop`) and leaves no directory
(`NoLeftovers`); limits are in force between polls (`LimitsInForce`) and come
into force (`Applied`); nobody is moved without a reason (`MovesJustified`) or
parked who need not be (`ParkedAreLost`); a process without a rule gets out
(`Released`). The fallback to the persisted origin finds something only in a file
whose last write or removal failed (`FallbackMeansStale`).

`OriginsRecorded`, `OneAtRisk`, `MovesJustified` and `Placed` take the file to be
written when the daemon writes it. After a write that failed a kill cuts off
everybody the file does not name, not one process, and a record that stayed in the
file may serve as the origin of another process under a reused pid.

`Placed` is the refinement of `Placement`. There a process is out, home, held or
lost, and a daemon is off, recovering, serving, ending or was killed. It begins to
serve, and ends, only when nobody is held; it touches one process, then none until
that is on disk; a kill loses the touched one, and only if it is held. `Standing`
reads off a process's place, its origin and `lost` where it stands, `Phase` reads
`pc`, and `unsaved` is who is at risk. A process that is neither home nor in a
managed directory, nor lost, is astray: `Placement` has no such standing, so no
step may lead there. `ParkedAreLost` follows from it, and so does `CleanStop`
(`PlacementSaysSo`); `OneAtRisk` follows from it and `OriginsRecorded`. All are
theorems; of the three a run asks for `CleanStop` only.

### 3.2 ConfigSync

State: the two files with their contents and times, the watcher's pending
events, the fields of `Sync`, and the position in the loop. A configuration is a
function from settings to values, or `Bad` (does not parse), or `Missing`. Time
is a counter of ticks; the debounces and the self-write tolerance are constants.
`intent`, `unnoticed` and `unpromoted` are history; so are `messy`, which is set
by what the daemon does not cope with (an edit within the tolerance of its own
write, a file that does not parse, a GUI change while an edit is unnoticed, a stop
with a write pending), and `gaveUp`, set when the root file cannot be written.

A start is two steps: `Boot` loads the newer file, and `Snapshot` reads the times
again, as `initial_load` does last (`sync.rs` 137). Until then nobody watches
(`Unwatched`), and an edit that falls between the two is `overlooked` (history):
its time is known before its contents are.

Properties, under every fault and excused by `messy` or `gaveUp` where they
say so: promotions are decided on settled files and have a cause
(`PromotesSettled`, `PromotesAreCaused`); no change but an overlooked one stays
unnoticed (`ChangesNoticed`); the user's last word, on either file or in the GUI, is what a
promotion leaves in the root file (`PromotedIsLast`), and gets into force and there
in the end (`EditsTakeEffect`, `EditsReachRoot`).

`Registered` is the refinement of `Register`. There the user says words, one after
another, each heard by the daemon before the next: in the local file, in the root
file, or in the window, where it is in force at once and saved to the local file
later. What is in force changes only when a word is said there or heard; a daemon
that falls rises with the last word; a promotion takes what is staged in the local
file, and only if that is the newer one. `unnoticed` is empty when the word is
heard, `pending_local_write` says that it is in no file, the newer file is read off
the two times, and when `messy` is set nothing is promised any more (`void`).
What is in force survives a restart (`RestartAgrees`), is only replaced because
somebody else changed a file (`ReloadsAreCaused`), and is the last word as soon as
there is nothing left to notice (`NoticedTakesEffect`): these follow from the
refinement (`RegisterSaysSo`), and are theorems of their own; no run asks for them
again.

### 3.3 GamePrompts

State: what each process is (name, traits that the heuristic reads, young enough
for a rule's delay or not), the kernel's nice value and io priority, the rules,
the loop's tables and memories under their own names, the frames and requests in
flight, and the confirmation window. A process's string matching (environ, argv,
catalog) is a set of Boolean traits. A nice value and an io priority are named by
the tier whose preset has them. `running`, `deferred` and `word` are history:
names asked about that have been in use ever since, names put off likewise, and
the tier the user gave a name.

With `minimize_to_tray` a confirmation window that is answered or closed is only
hidden (fault `tray`); then no prompt opens another until the GUI is gone.

`BeginPoll` reads every process; `Visit` decides and writes for one of them, from
what was read; `EndPoll` replaces the table, prunes and prompts; `HandleMsg` is
one request; the user, the GUI and the processes are actions of their own that
fall between any two of these.

Properties: nobody is asked about desktop-critical names or Nicewatch's own
(`NeverAsked`); a name is asked about once while it is in use (`AskedOnce`);
"not now" lasts exactly as long (`NotNowLasts`, `NotNowEnds`); a persisted answer
is not overruled by a poll where nobody writes other rules (`AnswersStick`); a game is noticed
(`GamesAreNoticed`); a rule's priority is in force in the end (`RulesApply`).

### 3.4 IpcStream and Mirror

State: the daemon's table and whether it was announced, the one connection of the
GUI, the frames on the `wire`, the kept snapshot (`latest`), and a window: its
listeners, its `getState` query and reply, the events on their way and what it
shows (`view`). A row is what a process looks like and its CPU share, which has a
tolerance. `synced` is history: the view stems from a snapshot of this
connection.

`Way` is all that is on its way to the window: the events, then the frames.
`Views` is what the window makes of it, one view after each; `Promised` says after
how many of them it is in step, if it is not yet; and `Promises` are the views from
there on. Hello and the lost connection are events like the others, for the window's
connection light; they leave the view alone.

`Mirrors` is the refinement: with `current` the daemon's table, `seen` the view
when the window is in step and `Unknown` otherwise, and `ahead` the `Promises` of
what is on its way, every step of `IpcStream` is a step of `Mirror` or changes
nothing of it: `Poll` is `Publish`, `OnEvent` is `Show`, the first snapshot after a
connection is `Subscribe`, and a daemon that goes away is `Lose`. `GetsInStep` and `CatchesUp` say that the window gets there
and ends with the daemon's table.

Three simplifications: the daemon has one client; a window's three `listen`
calls take effect together; a channel and the socket behind it are one queue.

### 3.5 Priorities

State: what each process is (name, whether it is the daemon's user's, real-time
or not, nice value, io class, CPU ticks), whether the daemon is root, the rules by
name, the scan and the processes still to visit, and what is kept from poll to
poll: the table's rows, `prev_ticks` and the warned pids. `ran` (ticks since the
daemon last looked), `changed` (pids where something has changed since) and `told`
(pids whose present process the user has been told about) are history.

`BeginPoll` reads every process; `ApplyNice` and `ApplyIo` are the two calls of
`apply_target`, each with the real-time check, clamp and failure log that go
with it; `Account` keeps the ticks; `EndPoll` replaces the table and forgets what
left it. `SetTier` writes a rule and a preset at once for every row of the name.
Between any two of these a process may exit, start, run or become something else,
and the daemon may be killed and started again. The kernel's permissions
(`MayRenice`, `MaySetIo`) are external: a real-time process refuses both calls, as
`applier.rs` 732 says. `SeenRt` is the set of answers `is_rt_scheduled` can give: the
class where the name has no blank; with one (`Spaced`) the field compared is
`rt_priority`, so that a real-time process may be missed; with two (`Twice`) it is the
processor last used, so that the answer may be anything.

Properties: no CPU time is charged to a process that did not use it
(`CpuNotInvented`); the user is warned once per process and only for what the
daemon could not know (`NoNagging`); a process that is what was read is only
touched if its own name has a rule (`OnlyTheNamed`); when others let go, every
process the daemon may change has what its rule asks for, unless its name has two
blanks (`Settles`).

Simplifications: the files of a process are read at once, a later reading being
the same as an earlier change; user and system ticks are one counter; a class and
its priority are one value.

### 3.6 SocketFile, GuiInstance, DaemonService and Launch

`GuiInstance`: each launch goes through bind, connect, unlink, bind again, the
two halves of a bind (the name is there before anybody listens) being two steps;
the listener's thread, the window and the tray are actions of their own. `raced`
is history: two launches have been inside the guard at once.

`DaemonService`: a daemon of each origin (the unit, the autostart entry,
`nicewatch.sh`) clears the socket's name, binds it, serves, is told to stop,
removes the name and ends; the installer is one step per file and per systemctl
call, each of which can fail, unnoticed where the code drops the result, or be the
last; systemd starts, restarts and stops the unit. A binary is old, new, torn or
missing. `overlap`, `refused` (the calls of systemctl that failed, unnoticed, and
have not succeeded since) and `cut` (an install was cut short as it wrote the
configuration) are history.

`Launch` composes them: the GUI's buttons start, stop and install the service,
`nicewatch.sh` kills every GUI, starts a daemon and becomes the next GUI, and the
end of a session takes everything.

Properties: one GUI at a time (`OneOnStage`), whose window a later launch does
raise (`PingsAreSeen`); a daemon that is alone can be reached
(`AloneIsReachable`), and an active unit comes up in the end (`UnitComesUp`); an
install that reports success is complete but for the calls that were refused
(`InstallCompletes`) and, if none was, in the end runs what it installed
(`UpdateTakesEffect`); an uninstall that reports success leaves
nothing that starts the daemon (`UninstallUndoes`).

Simplifications: units are written whole (a binary or a configuration may be
torn); systemd never gives up on a unit that fails; a daemon of the system unit is
written but not run; the test for and the removal of a stale name are one step.

## 4. Runs and bounds

| Run | Instance | Shows |
|---|---|---|
| `CgroupCrash` | 2 processes, 2 rules with directories of their own, 2 origins; kills and exec | `OriginsRecorded`, `CleanStop`, `MovesJustified`, `Placed` |
| `CgroupLimits` | the same with 1 origin, limits with a size the kernel rejects; exec, dropped controllers, rejected writes | `LimitsInForce`, `NoLeftovers`, `Applied` |
| `CgroupReleased` | 2 processes, 1 rule; kills, torn or failed writes of the state file, forks, reused pids, and all that systemd does | `TypeOK`, `FallbackMeansStale`, `Released` |
| `CgroupCapRemoved` | 1 process, limits with cap and weight | `OnlyTheRulesLimits` violated |
| `ConfigSync` | 1 setting, 2 values; every fault but `quick`, edits in the middle of an iteration | `PromotedIsLast`, `Registered`, `PromotesSettled`, `PromotesAreCaused`, `ChangesNoticed`, `EditsTakeEffect`, `EditsReachRoot` |
| `PromptsSafe` | 2 processes, a game and a desktop-critical name; disconnections, windows closed or hidden | `NeverAsked`, `NotNowLasts`, `AskedOnce`, `AnswersStick` |
| `PromptsLive` | 1 process that becomes a game, hand-written delayed rules; every fault but `tray` | `TypeOK`, `NotNowEnds`, `GamesAreNoticed`, `RulesApply` |
| `PromptsUnanswered` | 2 processes of one name | `GamesGetTheirTier` violated |
| `StreamInStep` | 2 processes, 4 tables; restarts, listeners and state in any order | `Mirrors`, `GetsInStep`, `CatchesUp` |
| `StreamLate` | 2 processes, 3 tables; no fault | `LateWindowsCatchUp` violated |
| `Priorities` | 2 pids, 3 names (with no, one and two blanks), 5 looks, 2 targets, with and without root; 2 deeds of others | `TypeOK`, `CpuNotInvented`, `NoNagging`, `OnlyTheNamed`, `Settles` |
| `Launch` | 2 GUI processes, 3 origins of a daemon; 3 deeds | `OneOnStage`, `AloneIsReachable`, `InstallCompletes`, `UninstallUndoes`, `PingsAreSeen`, `UnitComesUp`, `UpdateTakesEffect` |

Why the instances are enough to be interesting. Two processes are what it takes
for one to be visited while another exits, for two to share a directory, and for
one instance of a name to remain while another goes. Two directories are what it
takes to move between rules. The configuration's clock runs over one promotion
window after the last edit. Its tolerance is one tick, so that a file the daemon
wrote can be edited when the tolerance is over; within it (fault `quick`) the
properties excuse what happens, and the theorems cover any tolerance. Where a bound limits behaviour it is named: `LastEdit`
and `MaxTime` (when the last edit may happen, when the clock stops), `MaxInbox`
(requests under way), `MaxFrames` (no process starts or changes while more prompts
are under way), `Clickable`, `HandRules`, `MaxInFlight` (the daemon says nothing
new while so many frames and events are under way), `Scan` (the tables a poll can
make), `Young` (whether delays matter), `MaxTicks` (what a process can use), and
`MaxDeeds` (what others than the programs do, in all). Two deeds are what it takes
to end a process and start another under its pid within one poll, at any two
moments; three are an install that fails, one that does not, and a crash. The
theorems hold for any number.
In the prompt runs `Own` and `Catalog` are empty, a name of them behaving like a
desktop-critical or a listed one; the theorems cover them. Deadlock is checked
everywhere but in the configuration run, whose clock stops, and in `Launch`, where
nobody need run anything.

## 5. Fairness

* `CgroupManager`: `WF(Daemon)`. The loop is a thread that never waits for
  anything; nothing is assumed of starts, kills, processes or systemd.
* `ConfigSync`: `WF(Daemon)`, `SF(Tick)` (a sleep of 100 ms takes time),
  `WF(Boot)` (systemd restarts the daemon). Nothing of edits or the watcher:
  `poll_mtimes` is enough.
* `GamePrompts`: `WF(Poll)`, `SF(HandleMsg)` (every round of the loop drains its
  requests), `WF(ShowPrompt)` (frames arrive), `WF(GrowUp)` (processes get
  older). Nothing of the user: prompts may stay unanswered for ever.
* `IpcStream`: `WF` of each thread's step, and `SF` of the first poll. Later
  polls that find a difference, and requests, come for ever or not.
* `Priorities`: `WF(Poll)`, as for `CgroupManager`. Processes may never run.
* `Launch`: `WF` of each program's own next step (a launched GUI, the guard's
  listener, a daemon that clears, binds or ends, the installer), and of systemd
  starting an active unit, which `Restart=on-failure` promises. Nothing of users.

## 6. Proofs

### CgroupManagerProofs

`TypeCorrect` (any faults) needs, beyond `TypeOK`, that a live process has a name
and that `sync_pid` is called for scanned processes only.

`WayHomeOnDisk`, `ShutdownReturnsAll`, `OnlyTheLostAreParked` and
`OneProcessAtRisk` assume that none of the `Disruptive` faults is on (processes
born in, taken out of or sent between cgroups by others, vanishing origins, pid
reuse before the daemon noticed, a kill inside the file write, a write that
fails): with those the daemon cannot know the way home, and TLC shows it. `OriginsRecorded` is not
inductive: it says nothing of a table that is wrong, which the next `persist`
would write. The invariant `IndInv` says in five parts that a process that is not
lost is home or in a managed directory (`AtHomeOrHeld`), that the table is true
and complete for those (`TableIsTrue`), that the file is the table but for the
change being written (`FileIsTable`), that while the daemon is down or recovering
the file leads home everyone it has not visited (`FileLeadsHome`), and that
shutdown visits the whole table (`StopVisitsAll`).

`FallbackNeedsFailedWrite` (any faults) rests on the file never naming a process
that the table has dropped, once recovery is over, except in the window of
`persist`, during which `sync_pid` is not called, and after a write or removal of the
file that failed (`stale`), until one succeeds.

`MovesHaveReasons` (without the `Disruptive` faults) follows from the same
invariant: the origin that table or file gives for a process is its home.

`ManagerPlaces`, the refinement, under the same assumption, maps every step to one
of `Placement` or to none. It needs `IndInv` and one fact more, that only live
processes are lost (`LostLive`). The end of recovery and of a shutdown are the
steps with something to show: nobody may be held then, which is what
`FileLeadsHome` and `StopVisitsAll` leave when nobody is left to visit. A move out
of a directory leads home, because the table is true (`UnenrollPlaced`,
`VisitPlaced`), unless the process is lost; the sweep moves only the lost; and
`FileIsTable` is what makes `unsaved` the only ones whom a kill cuts off
(`CrashPlaced`). `PlacementSaysSo` goes the other way, from `Placed` and the types
to what it means for the daemon: nobody astray, nobody held by one that ended.

`LimitsStayInForce` allows every fault but two: `blip`, `cpu` gone and back
unnoticed, and `fork` together with `reuse`, a process born in a managed directory
under a pid the table still has. Rules must have directories of their own, since
two rules in one overwrite each other's limits. In `LimitsInv`, who sits where it was enrolled and has been visited in this poll has its rule's
directory and limits in its record (`VisitedAreRight`), so two of them in one
directory want the same limits; they are in force, unless the visit to come is
going to move the process or rewrite the files (`HeldInSync`); and after the visits
nothing takes them away that leaves `cpu` on (`HeldAfterSync`).

`NothingLeftBehind` (without the `Disruptive` faults and without kills, which may
leave a directory adopted with somebody in it) rests on `TidyInv`: after the visits
of a poll every directory is in use or still to be looked at by the sweep, and
whoever sits in one is enrolled there.

### ConfigSyncProofs

For any settings, values and time constants, under every fault. `Typed` is
type correctness. `SettledWhenPromoted` needs that times are in order: no file, and
no change still under way, is from the future.

`PromotionsCaused`: after a promotion, until somebody else changes the local file,
there is nothing to promote and nothing that could bring one about
(`NothingToPromote`), a late or repeated event being recognised as one of the
daemon's own; an event that comes in after the queue was drained is about a file
too new to be promoted in this iteration (`LateEvents`).

`ReloadsCaused` and `RestartsAgree` are about considerate users (not `messy`). Then
at most one change is unnoticed, and it is the latest (`OneAtATime`); what the
daemon remembers of the files is their past (`KnowsThePast`); the other file is
quiet (`OthersQuiet`); a GUI change that is due is written before anything else can
have a later time (`WriteComesFirst`), and so the newer file holds what is in force
(`FilesAgree`). The last assumes that `WriteDebounce` is not 0 (it is 1 s), or a
write could have the time of a promotion.

`LastWordInForce` and `LastWordPromoted`, under the same assumption, are the safety
halves of the two liveness properties: nothing the daemon does loses the user's
last word. `LastWord` says where it is at every moment: in the file nobody has
noticed yet; in memory when all is noticed; in the newer file while the daemon is
down (by `FilesAgree`, since a stop with a write pending is not excused); and in
the root file from a promotion on, because a promotion finds everything noticed
and, but for a write still pending, the local file agreeing with memory. With no
file at all nobody has said anything yet.

`FilesAreARegister`, the refinement, under the same assumption, maps every step to
one of `Register` or to none. Beyond `LastWord` it needs that a local file to be
promoted is the newer one, which an event or a time not yet looked at must not
upset: while everything is noticed, a local file that is still going to be taken
for changed is the newer one as well (`PendingIsAhead`). A write that is due makes
it so (`WrittenIsAhead`, from `WriteComesFirst`). A step that sets `messy` needs no
counterpart but the end of the promise. `RegisterSaysSo` goes the other way, from
`Registered` and the types to `NoticedTakesEffect`, `ReloadsAreCaused` and
`RestartAgrees`.

### GamePromptsProofs

All under every fault, for any sets of processes (finite), names, programs and
rules.

`TypeCorrect`: the decision for a process is a target or nothing (the rule in
force is one of the rules, which uses that a nonempty set of keys has a last), and
the prompts of a poll are a sequence with one frame for each fresh process.

`BarredNeverAsked` rests on `FlaggedOnlyByCache`: a protected name can be flagged
as a game, by a verdict cached when the process had another name, but a cached
verdict is only used for names already decided about, and `fresh_game_names`
skips those; and on `NoneOnTheWay`: nothing in flight asks or answers about one.

`NotNowHolds` and `AskedOnlyOnce` rest on `UsesLast`: during a poll every name
that has been in use since it was asked about was met by that poll's scan, so the
pruning at its end keeps it. `ListedOnVisit` carries a name from the scan to the
list while processes are visited.

`AnswersAreKept` says of whatever the user told the daemon about a name that the
rule under that name says it (`WordInv`), and that this is the rule found, assuming
that nobody writes a rule about it under a later key (`NoLaterKey`).
With such a rule the theorem is false, and so is `AnswersStick` (section 8).

### IpcStreamProofs

For any processes, rows, tables of polls and bounds, under every fault.

What a window makes of the frames and events on their way is a recursive function,
so the lemmas about it need induction. The provers cannot use an induction rule
whose parameter is an operator, but they can use one about a set: `SetInduction`
says that a set with 0 in it and the successor of each of its members holds every
natural number, and follows from the well-foundedness of finite sets. With it,
`ViewsExist` is the recursion, and `ViewsAgree` says that two windows which agree
at a point see the same in the same events; one event more, one less, and one
window more are instances of it (`ViewsAppend`, `ViewsTail`, `ViewsFill`).

`WayCorrect` is the inductive invariant. Its main part is `PromisesKept`: while
the daemon's end is open, every view that is promised is a table of a poll, never
the empty one, and the last looks like the daemon's table. The daemon's side of it
is `KeptAppend`, which rests on `DiffLooks` (a difference makes of whatever looks
like the old table something that looks like the new one); the window's side is
`KeptTail`. The rest says when there is nothing to keep: before the first poll
(`FirstThingsFirst`), from a connection that is gone or not accepted yet
(`CutOff`), or when nobody listens (`HearsNothing`). That promised views are never
empty is what stops the reply to `getState` from filling a window that is in step
(`StateLeaves`): it fills empty ones only.

`StreamMirrors` is the refinement. An action of the daemon says something that
comes last on the way (`Tells`) or nothing (`Silent`), and is `Publish` or, when the
promise is the first one, `Subscribe` (`TellsMirrors`); a frame that becomes an
event changes nothing (`ReadMirrors`); an event that is seen is the first promise
kept (`SeesMirrors`); a window that begins to listen may find promises on the wire
(`AsideMirrors`). `NothingLost`: a window in step with nothing on its way shows what
the daemon's table shows.

### PrioritiesProofs

For any pids, names, programs, targets and bounds. `TablesInStep` is `TypeOK`,
which says that between two polls rows, ticks and warnings are about the same
pids; it needs that who has been visited has been accounted for, and that a
process between its two calls has a target (`Aimed`).

`NoCpuInvented` rests on `TicksInv`: what a reading will charge is at most what the
process has run since the one before, in the poll (from the scan) and between
polls (from `prev_ticks`); a process that starts under an old pid has used nothing,
so the charge is zero however many ticks are kept.

`NobodyNagged` and `NoneButTheNamed` rest on `SameInv`: a process where nothing has
changed since it was read has the name, user and class of the scan, the nice value
too until its visit, and the table's name between polls. A refused nice value then
contradicts the kernel's rule, since what is asked for is only raised without
root; and `ToldInv` keeps a warning as long as its process.

### LaunchProofs

For any number of GUI processes and deeds. `OneGui` rests on `GuardInv`: without
two launches inside the guard at once, who is past it has the name and listens,
and who finds the name without a process behind it is alone. `LoneDaemonReachable`
rests on `SocketInv`: a daemon that has been alone has cleared the name before it
binds. `InstallsComplete` and `UninstallsUndo` rest on what each step of the
installer may rely on (`InstallInv`, `UninstallInv`), which no crash, button or
shell takes away. `InstallsComplete` is about the step that reports success, since
a later button may stop what it started.

### Only model-checked

The liveness properties (`Applied`, `Released`, `ChangesNoticed`,
`EditsTakeEffect`, `EditsReachRoot`, `NotNowEnds`, `GamesAreNoticed`,
`RulesApply`, `GetsInStep`, `CatchesUp`, `Settles`, `PingsAreSeen`, `UnitComesUp`,
`UpdateTakesEffect`): the prover reasons neither about fairness nor about which
actions are enabled. Every other property of a passing run is proved.

## 7. Not modelled

* Discovery of the cgroup base, explicit `cgroup.path` in a rule, and two keys
  that sanitize to one directory (then the limits of the two overwrite each
  other).
* Contents of the known-games catalog, parsing of `/proc`, TOML and JSON.
* The system-wide CPU and memory figures of `proc_scan.rs`, and the GPU notice.
* The GUI's theme, launcher icons and settings file, and the drawing of its views:
  they turn files into what is shown and keep nothing others depend on. `cli.rs`
  prints and exits.
* The text of units and entries `setup.rs` writes; file modes.
* File times are distinct, except for the initial files. The time of a file is read
  with its contents: an edit between the two (`sync.rs` 362-369), or between the
  times that choose a file and its load (104-117), is not distinguished from one
  before or after.
* A scan reads all processes at once. The code reads them one after another
  (`proc_scan.rs` 60-92): a name that one process gives up and another takes while
  the scan is under way can be missed by it, and is then pruned as if nobody had it
  (`AskedOnce`, `NotNowLasts`).
* Names with three or more blanks, for which `is_rt_scheduled` reads other fields
  still.

## 8. Known disagreements

Shown by a run:

* `CgroupCapRemoved`: a CPU cap removed from a rule that keeps another limit stays
  in `cpu.max` (`applier.rs` 513, against `sync.rs` 216).
* `PromptsUnanswered`: a process visited before it opened the GPU keeps the
  verdict "not a game" while the prompt for its name is unanswered (`main.rs` 374,
  against `README.md` 75).
* `StreamLate`: a window that opens after a diff is filled with the snapshot from
  before it (`src-tauri/src/lib.rs` 362, against `store.svelte.ts` 125).

Found while reading, and reproducible with the modules by switching on a fault or
by a property of a line, but without a run:

* A child forked in a managed directory has that directory as its origin, and
  shutdown leaves it there (`README.md` 53; fault `fork`).
* A kill inside the non-atomic write of the state file loses every origin
  (`applier.rs` 219; fault `torn`).
* A write of the state file that fails is only warned about, and not tried again
  before the table changes (`applier.rs` 221; faults `unwritten`, `hiccup`): a kill
  then loses everybody the file does not name, and a process it should not name any
  more is found by the fallback of `sync_pid` (311-313), with an outdated origin, or
  that of whoever had the pid before. The fallback was written for orphans of a crashed run (303), whom
  it never serves.
* A file edited while the daemon starts, after `initial_load` has read it and before
  it notes the times (`sync.rs` 117-137), is taken as known: neither the watcher,
  which does not exist yet (`main.rs` 166), nor `poll_mtimes`, which is to catch
  changes "even without the notify watcher" (`sync.rs` 164), ever reports the edit,
  and it has no effect until the next change or start (`overlooked`).
* A GUI change not yet written is overwritten when an edited file is loaded
  (`sync.rs` 365, against `README.md` 91; fault `clash`), and is dropped by a stop
  within the debounce (`main.rs` 569; fault `halt`).
* `SetTier` from the GUI writes the priority of a desktop-critical process at
  once, which polls never touch (`main.rs` 800, against 393), and without the
  checks of class and user that a poll makes.
* Two processes of one fresh name in one poll give two prompts; a prompt that
  arrives while the window is open for another name is only in the list.
* With `minimize_to_tray` the confirmation window is hidden instead of closed, by its
  cross and after an answer, and keeps its label: later prompts only focus the hidden
  window (`src-tauri/src/lib.rs` 496, `store.svelte.ts` 141; fault `tray`).
* Games known by executable, argument or flatpak id, but not by name, are prompted
  for (`known_games.rs` 16, `main.rs` 743).
* A rule under a later key that matches a name, as `rules.toml.example` 24 has one
  for `AvatarTool`, overrules the tier the user picks for that name in the GUI
  (`rules.rs` 48, against `sync.rs` 202 and `README.md` 91; `AnswersStick` with such
  a rule in `HandRules`).
* A client is registered before its `Hello` is queued, so a broadcast can precede
  it (`ipc.rs` 101, against 103), and diffs can precede the first snapshot.
* Priorities are never reverted when the daemon ends, only cgroups are
  (`setup/nicewatch.service` 13, against `main.rs` 569).
* `is_rt_scheduled` counts fields from the start of a line whose second one may
  hold blanks, and misses real-time processes with such names (`applier.rs` 743;
  `Spaced`). With two blanks in the name the field it compares is the processor last
  used, so that a process that is not real-time and last ran on CPU 1 or 2 is
  taken for one and never gets what its rule asks for while it stays there
  (against 735-741; `Twice`). `parse_stat` counts from the last parenthesis.
* A user's process at nice -10 with a rule for -5 is asked for -5 and set to 0,
  since `apply_nice` clamps what is negative (`applier.rs` 764).
* A warning is broadcast once, to whoever is connected: without a GUI at that
  moment nobody sees it (`main.rs` 640).
* The second sample of the system's CPU is reported, although the first two are to
  be skipped (`main.rs` 486, against 245).
* `nicewatch.sh` looks for a process called `nicewatch` and starts a second daemon
  beside an installed one, `nicewatch.bin`, which takes the socket over and removes
  it when it ends (`nicewatch.sh` 26; `overlap`).
* The daemon removes the socket's name when it stops, whoever has bound it by then
  (`main.rs` 216, 576).
* An uninstall leaves a system unit, and without the user manager also the user's
  (`setup.rs` 262, against 14).
* An install reports success, and how to manage the service, when `systemctl`
  refused to enable or to start it (`setup.rs` 214-215, 229-231), so that nothing
  starts the daemon, where the user is to get "a working daemon" (`setup.rs` 7;
  `refused`).
* A default configuration cut short by a full disk or a kill exists, so no later
  install replaces it (`setup.rs` 124; `cut`).
* The GUI installs with the installed binary when there is one, so an update is
  not copied, and a torn one cannot be repaired from the GUI
  (`src-tauri/src/lib.rs` 70).
* A second launch while the first is still without its window is answered and
  lost, when that one starts in the tray (`src-tauri/src/lib.rs` 426).
* The Steam environment alone makes no game: a DRM descriptor is needed as well
  (`game_detect.rs` 103, against `README.md` 77).

## 9. Plan

Done, each with their proofs: the cgroup manager and config sync with their
refinements, rules and prompts, the table stream and its refinement, priorities and
CPU accounting, and the service, its installer and the GUI process, composed.

What is left, in this order:

1. A per-name prompt protocol refined by `GamePrompts`.
2. `DaemonLoop`, composing a poll's decision, cgroups, priorities and table for
   the property that a client's table agrees with itself.
3. Proofs: the refinement of 1.
