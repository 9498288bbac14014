----------------------------- MODULE GamePrompts -----------------------------
(***************************************************************************)
(* How the daemon decides a process's priority, and whom it asks: rule     *)
(* resolution (daemon/src/rules.rs), game detection (game_detect.rs,       *)
(* known_games.rs), the per-process part of the poll, the confirmation     *)
(* prompts and the client requests (main.rs), and the confirmation window  *)
(* of the GUI (gui/src/lib/store.svelte.ts, gui/src/Prompt.svelte).        *)
(*                                                                         *)
(* A poll reads every process once (scan), then visits them one by one and *)
(* acts on what it read, while processes exit, exec and start.  A prompt   *)
(* travels to the GUI and an answer back, each in its own time.            *)
(***************************************************************************)
EXTENDS Naturals, Sequences, FiniteSets

CONSTANTS Pid,
          Name,       \* /proc/<pid>/comm values
          Critical,   \* names that is_de_critical recognises
          Own,        \* SELF_BINARY_NAMES
          Catalog,    \* names that is_known_name finds
          Program,    \* what a process can run: its name and its traits
          Young,      \* {TRUE}: rules can have a delay that matters
          Level,      \* nice values and io priorities, named by their tier
          Leave,      \* a rule's ionice_class None: leave it alone
          AutoGame,   \* the target of the [auto_game_default] section
          Key,        \* keys of the configuration's rules; names are keys
          KeyOrder,   \* their order in the BTreeMap
          HandRules,  \* the rules that somebody can write into the file
          Absent,
          Hidden,     \* the confirmation window is hidden, not closed
          Clickable,  \* bound: names whose rows the user touches
          MaxInbox,   \* bound: requests on their way to the daemon
          MaxFrames,  \* bound: nothing new runs while more prompts than that
                      \* are on their way to the GUI
          Faults

Fault == {"disconnect",  \* the GUI goes away, what it sent may be lost
          "restart",     \* the daemon is restarted
          "renice",      \* a process sets its own priority as it starts
          "tray"}        \* minimize_to_tray: a closed window may be hidden

Trait   == [steam : BOOLEAN, dri : BOOLEAN, fullscreen : BOOLEAN,
            listed : BOOLEAN,    \* exe, argv or flatpak id in the catalog
            internal : BOOLEAN]  \* is_wine_internal
Target  == [nice : Level, io : Level \cup {Leave}]
Rule    == [match : Name, target : Target, delayed : BOOLEAN]
Answers == {"yes", "no", "not-now"}

Process == [name : Name, trait : Trait, young : BOOLEAN]
Scanned == [name : Name, trait : Trait, young : BOOLEAN, nice : Level]
Current == [name : Name, nice : Level, game : BOOLEAN]
Row     == [name : Name, nice : Level]

ASSUME NameAssumption == /\ Name \subseteq Key
                         /\ Critical \subseteq Name /\ Own \subseteq Name
                         /\ Catalog \subseteq Name /\ Clickable \subseteq Name
ASSUME ProgramAssumption == Program \subseteq [name : Name, trait : Trait]
ASSUME LevelAssumption == /\ {"software", "game"} \subseteq Level
                          /\ AutoGame \in Target
ASSUME KeyAssumption == /\ KeyOrder \in [Key -> Nat]
                        /\ \A j, k \in Key : KeyOrder[j] = KeyOrder[k] => j = k
                        /\ \A K \in SUBSET Key : K # {} =>
                             \E k \in K : \A j \in K : KeyOrder[j] =< KeyOrder[k]
ASSUME PidAssumption == IsFiniteSet(Pid)
ASSUME RuleAssumption == HandRules \subseteq [Key -> Rule \cup {Absent}]
ASSUME BoundAssumption == MaxInbox \in Nat /\ MaxFrames \in Nat /\ Young \subseteq BOOLEAN
ASSUME AbsentAssumption ==
  Absent \notin Name \cup Level \cup Target \cup Rule \cup Process \cup Scanned \cup Current \cup Row
ASSUME HiddenAssumption == Hidden \notin Name
ASSUME FaultAssumption == Faults \subseteq Fault

VARIABLES
  proc,        \* proc[p]: the process, or Absent
  prio,        \* prio[p]: its nice value and io priority in the kernel
  config,      \* sync.active.rules
  \* the daemon
  pc,          \* "ipc" or "poll"
  scan,        \* scan[p]: what scan_proc read, until the poll has visited p
  cur,         \* cur[p]: name, nice and game_detected in cur_info
  table,       \* table[p]: name and nice in full_info
  flag_cache,  \* flag_cache[p]: the heuristic's verdict
  prompted, suppressed, instance_games,
  pending,     \* the names in pending_prompts
  \* the GUI and the socket
  connected,
  frames,      \* PromptGame frames on their way
  inbox,       \* requests on their way
  window,      \* the name the confirmation window asks about, Absent, or Hidden
  \* history
  running,     \* names asked about that some process has had ever since
  deferred,    \* names answered "not now" that some process has had since
  word         \* word[n]: the tier the user gave n in the GUI

daemon  == <<scan, cur, table, flag_cache>>
memory  == <<prompted, suppressed, instance_games, pending>>
gui     == <<connected, frames, inbox, window>>
history == <<running, deferred, word>>
vars    == <<proc, prio, config, pc, scan, cur, table, flag_cache,
             prompted, suppressed, instance_games, pending, connected, frames,
             inbox, window, running, deferred, word>>

Prio    == [nice : Level, io : Level \cup {"none"}]
Message == [type : {"answer"}, name : Name, answer : Answers]
             \cup [type : {"tier"}, pid : Pid, level : Level]
             \cup [type : {"cap"}, name : Name]

TypeOK ==
  /\ proc \in [Pid -> Process \cup {Absent}]
  /\ prio \in [Pid -> Prio]
  /\ config \in [Key -> Rule \cup {Absent}]
  /\ pc \in {"ipc", "poll"}
  /\ scan \in [Pid -> Scanned \cup {Absent}]
  /\ cur \in [Pid -> Current \cup {Absent}]
  /\ table \in [Pid -> Row \cup {Absent}]
  /\ flag_cache \in [Pid -> {"unknown", "game", "plain"}]
  /\ prompted \subseteq Name /\ suppressed \subseteq Name
  /\ instance_games \subseteq Name /\ pending \subseteq Name
  /\ connected \in BOOLEAN
  /\ frames \in Seq(Name) /\ inbox \in Seq(Message)
  /\ window \in Name \cup {Absent, Hidden}
  /\ running \subseteq Name /\ deferred \subseteq Name
  /\ word \in [Name -> Level \cup {Absent}]

\* Some process has the name.
Runs(n) == \E p \in Pid : proc[p] # Absent /\ proc[p].name = n

Untouched == [nice |-> "software", io |-> "none"]
Nothing   == [p \in Pid |-> Absent]

Init ==
  /\ proc = Nothing /\ prio = [p \in Pid |-> Untouched]
  /\ config = [k \in Key |-> Absent]
  /\ pc = "ipc" /\ scan = Nothing /\ cur = Nothing /\ table = Nothing
  /\ flag_cache = [p \in Pid |-> "unknown"]
  /\ prompted = {} /\ suppressed = {} /\ instance_games = {} /\ pending = {}
  /\ connected = FALSE /\ frames = <<>> /\ inbox = <<>> /\ window = Absent
  /\ running = {} /\ deferred = {} /\ word = [n \in Name |-> Absent]

----------------------------------------------------------------------------
(* Rules.                                                                  *)

\* RuleSet::from_config keys the rules by the name they match; of two that
\* match one name, the later key stays.
RulesFor(n) == {k \in Key : config[k] # Absent /\ config[k].match = n}
HasRule(n)  == RulesFor(n) # {}
RuleFor(n)  ==
  config[CHOOSE k \in RulesFor(n) : \A j \in RulesFor(n) : KeyOrder[j] =< KeyOrder[k]]

Tier(l) == [nice |-> l, io |-> l]
Preset(n, l) == [match |-> n, target |-> Tier(l), delayed |-> FALSE]

\* Mutant: the heuristic comes first.
ResolvedByFlags(e, game) ==
  IF game \/ e.name \in instance_games THEN AutoGame
  ELSE IF HasRule(e.name) THEN RuleFor(e.name).target ELSE Absent

\* RuleSet::resolve for a process that was read as e, then the exclusion of
\* desktop-critical names, then the games of the running instance.
Resolved(e, game) ==
  LET byRules ==
        IF HasRule(e.name)
        THEN IF RuleFor(e.name).delayed /\ e.young THEN Absent ELSE RuleFor(e.name).target
        ELSE IF game THEN AutoGame ELSE Absent
      allowed == IF e.name \in Critical THEN Absent ELSE byRules
  IN  IF allowed = Absent /\ e.name \in instance_games THEN AutoGame ELSE allowed

----------------------------------------------------------------------------
(* Detection.                                                              *)

\* detect_game and GameFlags::is_game without the catalog.
Heuristic(e) ==
  /\ e.name \notin Critical /\ ~e.trait.internal
  /\ e.trait.dri /\ (e.trait.steam \/ e.trait.fullscreen)

\* Mutant: the catalog counts for desktop-critical names as well.
ListedAnyway(e) == e.name \in Catalog \/ e.trait.listed

Listed(e) == e.name \notin Critical /\ (e.name \in Catalog \/ e.trait.listed)

\* Mutant: a verdict, once reached, is kept.
UndecidedNever(n) == FALSE

\* Names that are worth fresh heuristic work.
Undecided(n) == ~HasRule(n) /\ n \notin prompted /\ n \notin suppressed

Verdict(p) ==
  IF flag_cache[p] # "unknown" /\ ~Undecided(scan[p].name) THEN flag_cache[p]
  ELSE IF Heuristic(scan[p]) THEN "game" ELSE "plain"

----------------------------------------------------------------------------
(* The poll.                                                               *)

BeginPoll ==
  /\ pc = "ipc" /\ pc' = "poll"
  /\ scan' = [p \in Pid |->
       IF proc[p] = Absent THEN Absent
       ELSE [name |-> proc[p].name, trait |-> proc[p].trait,
             young |-> proc[p].young, nice |-> prio[p].nice]]
  /\ UNCHANGED <<proc, prio, config, cur, table, flag_cache, memory, gui, history>>

\* Mutants: both values are written when the nice value differs; the io
\* priority is written whatever the rule says.
NiceGatesIo(p, t) ==
  IF scan[p].nice # t.nice
  THEN [nice |-> t.nice, io |-> IF t.io # Leave THEN t.io ELSE prio[p].io] ELSE prio[p]
LeaveWritten(p, t) == [nice |-> t.nice, io |-> t.io]

\* apply_target: write what differs, the nice value from what the scan read and
\* the io priority from what the kernel says now.  A pid that is gone rejects
\* both writes.
Applied(p, t) ==
  [nice |-> IF scan[p].nice # t.nice THEN t.nice ELSE prio[p].nice,
   io   |-> IF t.io # Leave THEN t.io ELSE prio[p].io]

\* One process of the scan: its flags, its target, the writes.
Visit(p) ==
  /\ pc = "poll" /\ scan[p] # Absent
  /\ scan' = [scan EXCEPT ![p] = Absent]
  /\ LET own  == scan[p].name \in Own
         game == ~own /\ (Verdict(p) = "game" \/ Listed(scan[p]))
         t    == Resolved(scan[p], game)
     IN  /\ flag_cache' = IF own THEN flag_cache
                          ELSE [flag_cache EXCEPT ![p] = Verdict(p)]
         /\ cur' = [cur EXCEPT ![p] =
              [name |-> scan[p].name, nice |-> scan[p].nice, game |-> game]]
         /\ prio' = IF t # Absent /\ proc[p] # Absent
                    THEN [prio EXCEPT ![p] = Applied(p, t)] ELSE prio
  /\ UNCHANGED <<proc, config, pc, table, memory, gui, history>>

Listing == {p \in Pid : cur[p] # Absent}

\* Mutant: only "not now" keeps a name from being asked about again.
FreshUnlessPutOff(keptPrompted, keptSuppressed) ==
  {p \in Listing : /\ cur[p].game
                   /\ cur[p].name \notin Catalog
                   /\ ~HasRule(cur[p].name)
                   /\ cur[p].name \notin keptSuppressed}

\* fresh_game_names: every flagged process whose name nobody has decided about.
FreshGames(keptPrompted, keptSuppressed) ==
  {p \in Listing : /\ cur[p].game
                   /\ cur[p].name \notin Catalog
                   /\ ~HasRule(cur[p].name)
                   /\ cur[p].name \notin keptPrompted \cup keptSuppressed}

\* The frames broadcast for the processes F, sorted by name and then pid: one
\* for each process, although the prompts are per name.
FramesFor(F) ==
  {f \in [1..Cardinality(F) -> Name] :
     /\ \A n \in Name : Cardinality({i \in DOMAIN f : f[i] = n})
                          = Cardinality({p \in F : cur[p].name = n})
     /\ \A i, j \in DOMAIN f : i < j => KeyOrder[f[i]] =< KeyOrder[f[j]]}

\* Mutants: a name is forgotten unless it was in the table before, or never.
KeptOld == {cur[p].name : p \in {q \in Listing : table[q] # Absent}}
KeptForEver == Name

\* Names whose bookkeeping survives the poll: those the scan saw.
Kept == {cur[p].name : p \in Listing}

\* The rest of the poll: full_info is replaced, names that the scan did not see
\* are forgotten, and fresh games are asked about, or put off if nobody can be
\* asked.
EndPoll ==
  /\ pc = "poll" /\ scan = Nothing /\ pc' = "ipc"
  /\ table' = [p \in Pid |-> IF cur[p] = Absent THEN Absent
                             ELSE [name |-> cur[p].name, nice |-> cur[p].nice]]
  /\ flag_cache' = [p \in Pid |-> IF cur[p] = Absent /\ table[p] # Absent
                                  THEN "unknown" ELSE flag_cache[p]]
  /\ LET fresh == FreshGames(prompted \cap Kept, suppressed \cap Kept)
         asked == {cur[p].name : p \in fresh}
         later == IF connected THEN {} ELSE asked
     IN  /\ prompted' = (prompted \cap Kept) \cup asked
         /\ suppressed' = (suppressed \cap Kept) \cup later
         /\ instance_games' = (instance_games \cap Kept) \cup later
         /\ pending' = IF connected THEN pending \cup asked ELSE pending
         /\ IF connected THEN \E f \in FramesFor(fresh) : frames' = frames \o f
                         ELSE UNCHANGED frames
         /\ running' = running \cup {n \in asked : Runs(n)}
  /\ cur' = Nothing
  /\ UNCHANGED <<proc, prio, config, scan, connected, inbox, window, deferred, word>>

----------------------------------------------------------------------------
(* Requests.                                                               *)

\* upsert_preset_rule, under the name as key.
SetPreset(n, l) == config' = [config EXCEPT ![n] = Preset(n, l)]
Says(n, l)      == word' = [word EXCEPT ![n] = l]

\* "Not now".
PutOff(n) == /\ instance_games' = instance_games \cup {n}
             /\ suppressed' = suppressed \cup {n}

\* ClientMsg::ConfirmGame.
Confirm(n, a) ==
  /\ pending' = pending \ {n}
  /\ \/ /\ a = "yes" /\ SetPreset(n, "game") /\ Says(n, "game")
        /\ UNCHANGED <<suppressed, instance_games, deferred>>
     \/ /\ a = "no" /\ SetPreset(n, "software") /\ Says(n, "software")
        /\ UNCHANGED <<suppressed, instance_games, deferred>>
     \/ /\ a = "not-now" /\ PutOff(n)
        /\ deferred' = deferred \cup {m \in {n} : Runs(m)}
        /\ UNCHANGED <<config, word>>
  /\ UNCHANGED <<prio, prompted>>

\* apply_preset_now, for every process the last poll knew by that name: what
\* the table says of the nice value decides whether it is written.
AppliedNow(n, l) ==
  [p \in Pid |->
     IF table[p] # Absent /\ table[p].name = n /\ proc[p] # Absent
     THEN [nice |-> IF table[p].nice # l THEN l ELSE prio[p].nice, io |-> l]
     ELSE prio[p]]

\* ClientMsg::SetTier: the row's pid stands for its name.
SetTier(p, l) ==
  /\ IF table[p] = Absent THEN UNCHANGED <<config, word, prio>>
     ELSE LET n == table[p].name
          IN  SetPreset(n, l) /\ Says(n, l) /\ prio' = AppliedNow(n, l)
  /\ UNCHANGED <<memory, deferred>>

\* ClientMsg::SetCap: a name without a rule gets a Software one.
SetCap(n) ==
  /\ IF config[n] = Absent THEN SetPreset(n, "software") /\ Says(n, "software")
     ELSE UNCHANGED <<config, word>>
  /\ UNCHANGED <<prio, memory, deferred>>

HandleMsg ==
  /\ pc = "ipc" /\ inbox # <<>>
  /\ inbox' = Tail(inbox)
  /\ LET m == Head(inbox)
     IN  \/ m.type = "answer" /\ Confirm(m.name, m.answer)
         \/ m.type = "tier" /\ SetTier(m.pid, m.level)
         \/ m.type = "cap" /\ SetCap(m.name)
  /\ UNCHANGED <<proc, pc, daemon, connected, frames, window, running>>

\* Another configuration is loaded.  What the GUI said before is overruled.
Reload(c) ==
  /\ pc = "ipc"
  /\ config' = c
  /\ word' = [n \in Name |-> Absent]
  /\ UNCHANGED <<proc, prio, pc, daemon, memory, gui, running, deferred>>

\* The daemon starts again, with the configuration it had.  Bound: between two
\* polls; cut short, a poll leaves only priorities that the next one visits.
Restart ==
  /\ "restart" \in Faults
  /\ pc = "ipc"
  /\ table' = Nothing
  /\ flag_cache' = [p \in Pid |-> "unknown"]
  /\ prompted' = {} /\ suppressed' = {} /\ instance_games' = {} /\ pending' = {}
  /\ connected' = FALSE /\ frames' = <<>> /\ inbox' = <<>>
  /\ running' = {} /\ deferred' = {}
  /\ UNCHANGED <<proc, prio, config, pc, scan, cur, window, word>>

----------------------------------------------------------------------------
(* The GUI.                                                                *)

Connect ==
  /\ ~connected /\ connected' = TRUE
  /\ UNCHANGED <<proc, prio, config, pc, daemon, memory, frames, inbox, window, history>>

\* Frames on their way are lost, and so can be the latest requests.  The GUI
\* has lost its connection, or is gone with its windows.
Disconnect ==
  /\ "disconnect" \in Faults
  /\ connected /\ connected' = FALSE
  /\ frames' = <<>>
  /\ \E k \in 0..Len(inbox) : inbox' = SubSeq(inbox, 1, k)
  /\ window' \in {window, Absent}
  /\ UNCHANGED <<proc, prio, config, pc, daemon, memory, history>>

\* EVT_PROMPT: showPrompt opens the window, or finds one and leaves it, be it
\* for another name or hidden.
ShowPrompt ==
  /\ frames # <<>>
  /\ frames' = Tail(frames)
  /\ window' = IF window = Absent THEN Head(frames) ELSE window
  /\ UNCHANGED <<proc, prio, config, pc, daemon, memory, connected, inbox, history>>

Send(m) == IF connected THEN inbox' = Append(inbox, m) ELSE UNCHANGED inbox

\* What closing the window leaves of it.
Closed == {Absent} \cup IF "tray" \in Faults THEN {Hidden} ELSE {}

\* A click in the window.  It closes whether or not the answer could be sent.
Answer(a) ==
  /\ window \in Name /\ Len(inbox) < MaxInbox
  /\ Send([type |-> "answer", name |-> window, answer |-> a])
  /\ window' \in Closed
  /\ UNCHANGED <<proc, prio, config, pc, daemon, memory, connected, frames, history>>

Dismiss ==
  /\ window \in Name /\ window' \in Closed
  /\ UNCHANGED <<proc, prio, config, pc, daemon, memory, connected, frames, inbox, history>>

\* A tier or a cap chosen in a row of the process list.
ClickRow(p, l) ==
  /\ connected /\ Len(inbox) < MaxInbox
  /\ table[p] # Absent /\ table[p].name \in Clickable
  /\ \/ inbox' = Append(inbox, [type |-> "tier", pid |-> p, level |-> l])
     \/ inbox' = Append(inbox, [type |-> "cap", name |-> table[p].name])
  /\ UNCHANGED <<proc, prio, config, pc, daemon, memory, connected, frames, window, history>>

----------------------------------------------------------------------------
(* Processes.                                                              *)

\* proc becomes q: names that nobody runs any more drop out of the history.
Processes(q) ==
  LET alive == {q[p].name : p \in {r \in Pid : q[r] # Absent}}
  IN  /\ proc' = q
      /\ running' = running \cap alive /\ deferred' = deferred \cap alive
      /\ UNCHANGED <<config, pc, daemon, memory, gui, word>>

Settled == Len(frames) =< MaxFrames

\* Pids are not reused before the daemon noticed the exit.
Spawn(p, g, y) ==
  /\ Settled /\ \A t \in {proc, scan, cur, table} : t[p] = Absent
  /\ Processes([proc EXCEPT ![p] = [name |-> g.name, trait |-> g.trait, young |-> y]])
  /\ prio' = [prio EXCEPT ![p] = Untouched]

Exit(p) ==
  /\ proc[p] # Absent
  /\ Processes([proc EXCEPT ![p] = Absent])
  /\ prio' = [prio EXCEPT ![p] = Untouched]

\* exec, or the process opens the GPU, goes fullscreen, renames itself.
Become(p, g) ==
  /\ Settled /\ proc[p] # Absent
  /\ Processes([proc EXCEPT ![p].name = g.name, ![p].trait = g.trait])
  /\ UNCHANGED prio

GrowUp(p) ==
  /\ proc[p] # Absent /\ proc[p].young
  /\ Processes([proc EXCEPT ![p].young = FALSE])
  /\ UNCHANGED prio

\* A process may set its own priority; bound: only while it is young.
Renice(p, l) ==
  /\ "renice" \in Faults
  /\ proc[p] # Absent /\ proc[p].young
  /\ prio' = [prio EXCEPT ![p] = Tier(l)]
  /\ UNCHANGED <<proc, config, pc, daemon, memory, gui, history>>

Poll == BeginPoll \/ EndPoll \/ \E p \in Pid : Visit(p)

User == \/ Connect \/ Disconnect \/ Dismiss \/ Restart
        \/ \E a \in Answers : Answer(a)
        \/ \E p \in Pid, l \in Level : ClickRow(p, l)
        \/ \E c \in HandRules : Reload(c)

World == \E p \in Pid :
           \/ Exit(p) \/ GrowUp(p)
           \/ \E g \in Program : Become(p, g) \/ \E y \in Young : Spawn(p, g, y)
           \/ \E l \in Level : Renice(p, l)

Next == Poll \/ HandleMsg \/ ShowPrompt \/ User \/ World

Spec == Init /\ [][Next]_vars
\* The loop goes round for ever and drains its requests in every round; frames
\* arrive; a process that stays does get older than every delay.
FairSpec == /\ Spec /\ WF_vars(Poll) /\ SF_vars(HandleMsg) /\ WF_vars(ShowPrompt)
            /\ \A p \in Pid : WF_vars(GrowUp(p))
----------------------------------------------------------------------------
(* What the daemon promises.                                               *)

\* main.rs: "Never flag our own binaries as games" and "compositor/DE-critical
\* ... stay hard-excluded": nobody is asked about them, and no answer can make
\* them games of the running instance, whatever process had which name when.
NeverAsked ==
  (pending \cup instance_games \cup {window}) \cap (Critical \cup Own) = {}

\* main.rs: "no re-ask until every process with this name has exited": a poll
\* never sends a prompt for a name that some process has had ever since the
\* name was asked about, answered or not, whatever became of the window.
AskedOnce ==
  [][EndPoll => \A i \in Len(frames) + 1..Len(frames') : frames'[i] \notin running]_vars

\* README: "Not now applies the Game tier to the running instance only and
\* suppresses further prompts for that name until it fully exits": the daemon
\* knows both as long as some process has had the name since.
NotNowLasts == deferred \subseteq instance_games \cap suppressed

\* ... and "only": once nobody runs under the name, that is forgotten.
NotNowEnds ==
  \A n \in Name : <>[](~Runs(n)) => <>[](n \notin instance_games)

\* README: Yes and No persist a rule.  A poll never decides otherwise about a
\* process of that name, until somebody edits the file.
AnswersStick ==
  [][\A p \in Pid : Visit(p) /\ scan[p].name \notin Critical /\ word[scan[p].name] # Absent
       => /\ prio'[p].nice \in {prio[p].nice, word[scan[p].name]}
          /\ prio'[p].io \in {prio[p].io, word[scan[p].name]}]_vars

\* A game-looking process that stays is asked about.
GamesAreNoticed ==
  \A p \in Pid, g \in Program :
    Heuristic(g) /\ g.name \notin Catalog \cup Own =>
      (<>[](/\ proc[p] # Absent /\ proc[p].name = g.name /\ proc[p].trait = g.trait
            /\ ~HasRule(g.name))
         => []<>(g.name \in prompted \cup suppressed))

\* A process that stays, under a rule that stays, has the rule's priority in
\* the end, whatever it did to itself while it was young.
RulesApply ==
  \A p \in Pid, n \in Name \ Critical :
    \A r \in UNION {{c[k] : k \in Key} : c \in HandRules} \cup {Preset(n, l) : l \in Level} :
      r # Absent =>
        (<>[](proc[p] # Absent /\ proc[p].name = n /\ HasRule(n) /\ RuleFor(n) = r)
           => <>[](prio[p].nice = r.target.nice /\ r.target.io \in {Leave, prio[p].io}))

----------------------------------------------------------------------------
(* What the repository says of itself.                                     *)

\* README: a process that the heuristic recognises gets the Game tier "fully
\* automatic, no user approval required".
GamesGetTheirTier ==
  \A p \in Pid, g \in Program :
    Heuristic(g) /\ g.name \notin Own =>
      (<>[](/\ proc[p] # Absent /\ proc[p].name = g.name /\ proc[p].trait = g.trait
            /\ ~HasRule(g.name))
         => <>[](prio[p].nice = AutoGame.nice))
=============================================================================
