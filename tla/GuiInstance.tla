---------------------------- MODULE GuiInstance -----------------------------
(***************************************************************************)
(* One GUI at a time (single_instance_guard and run of the GUI's lib.rs).  *)
(*                                                                         *)
(* A launch binds the guard socket.  If that fails it connects: somebody   *)
(* who answers shows his window, and the launch ends.  If nobody answers,  *)
(* the name is taken for the remains of a crash, removed, and bound again. *)
(* Nothing ever unlinks the name when a GUI quits.                         *)
(***************************************************************************)
EXTENDS SocketFile

CONSTANT Gui   \* processes that can be launched

ASSUME GuiAssumption == NoFile \notin Gui /\ Stale \notin Gui /\ NoFile # Stale

VARIABLES
  guard,      \* the guard socket's name
  gui,        \* how far each launch is
  listening,  \* GUIs whose guard socket takes connections
  pings,      \* GUIs a later launch has connected to
  visible,    \* GUIs whose window is shown
  raced       \* history: two launches were inside the guard at the same time

guiVars == <<guard, gui, listening, pings, visible, raced>>

InGuard == {"bind", "connect", "remove", "rebind", "bound"}
InApp   == {"setup", "stage"}
GuiStage == {"off"} \cup InGuard \cup InApp

GuiTypeOK ==
  /\ guard \in Gui \cup {NoFile, Stale}
  /\ gui \in [Gui -> GuiStage]
  /\ listening \subseteq {g \in Gui : gui[g] \in InApp}
  /\ pings \subseteq listening
  /\ visible \subseteq {g \in Gui : gui[g] = "stage"}
  /\ raced \in BOOLEAN

GuiInit ==
  /\ guard \in {NoFile, Stale}
  /\ gui = [g \in Gui |-> "off"]
  /\ listening = {} /\ pings = {} /\ visible = {}
  /\ raced = FALSE

GoTo(g, stage) == gui' = [gui EXCEPT ![g] = stage]

Launch(g) ==
  /\ gui[g] = "off"
  /\ GoTo(g, "bind")
  /\ raced' = (raced \/ \E h \in Gui : gui[h] \in InGuard)
  /\ UNCHANGED <<guard, listening, pings, visible>>

\* The first bind, and the one after the removal.  When that fails too, the
\* launch goes on without a guard, "rather than lock the user out".
Bind(g) ==
  /\ gui[g] \in {"bind", "rebind"}
  /\ IF guard = NoFile
     THEN guard' = g /\ GoTo(g, "bound")
     ELSE /\ GoTo(g, IF gui[g] = "bind" THEN "connect" ELSE "setup")
          /\ UNCHANGED guard
  /\ UNCHANGED <<listening, pings, visible, raced>>

\* The second half of UnixListener::bind: only now are connections taken.
Listen(g) ==
  /\ gui[g] = "bound"
  /\ listening' = listening \cup {g}
  /\ GoTo(g, "setup")
  /\ UNCHANGED <<guard, pings, visible, raced>>

\* Mutant: any name is taken for a living instance, and nobody is woken.
TrustTheName(g) ==
  /\ gui[g] = "connect"
  /\ GoTo(g, "remove")
  /\ UNCHANGED <<guard, listening, pings, visible, raced>>

Connect(g) ==
  /\ gui[g] = "connect"
  /\ IF guard \in listening
     THEN pings' = pings \cup {guard} /\ GoTo(g, "off")
     ELSE GoTo(g, "remove") /\ UNCHANGED pings
  /\ UNCHANGED <<guard, listening, visible, raced>>

Unlink(g) ==
  /\ gui[g] = "remove"
  /\ guard' = NoFile
  /\ GoTo(g, "rebind")
  /\ UNCHANGED <<listening, pings, visible, raced>>

\* The window is built, hidden when start_in_tray is set.
Appear(g) ==
  /\ gui[g] = "setup"
  /\ GoTo(g, "stage")
  /\ \/ visible' = visible \cup {g}
     \/ UNCHANGED visible
  /\ UNCHANGED <<guard, listening, pings, raced>>

\* Mutant: the listener wakes up and forgets the window.
Ignore(g) ==
  /\ g \in pings
  /\ pings' = pings \ {g}
  /\ UNCHANGED <<guard, gui, listening, visible, raced>>

\* The listener's thread: a connection shows the window, if there is one yet.
Answer(g) ==
  /\ g \in pings
  /\ pings' = pings \ {g}
  /\ visible' = IF gui[g] = "stage" THEN visible \cup {g} ELSE visible
  /\ UNCHANGED <<guard, gui, listening, raced>>

\* Closing the window hides it (minimize_to_tray); the tray shows it again.
Hide(g) ==
  /\ gui[g] = "stage" /\ g \in visible
  /\ visible' = visible \ {g}
  /\ UNCHANGED <<guard, gui, listening, pings, raced>>

Show(g) ==
  /\ gui[g] = "stage" /\ g \notin visible
  /\ visible' = visible \cup {g}
  /\ UNCHANGED <<guard, gui, listening, pings, raced>>

\* Quit from the tray, or killed.
Leave(g) ==
  /\ gui[g] # "off"
  /\ GoTo(g, "off")
  /\ guard' = WithoutOwner(guard, g)
  /\ listening' = listening \ {g} /\ pings' = pings \ {g}
  /\ visible' = visible \ {g}
  /\ UNCHANGED raced

\* The steps a launched GUI takes by itself.
Advances(g) == Bind(g) \/ Listen(g) \/ Connect(g) \/ Unlink(g) \/ Appear(g)

GuiStep == \E g \in Gui : Advances(g) \/ Answer(g)

GuiUser == \E g \in Gui : Launch(g) \/ Hide(g) \/ Show(g) \/ Leave(g)

GuiNext == GuiStep \/ GuiUser

GuiSpec == GuiInit /\ [][GuiNext]_guiVars

----------------------------------------------------------------------------
\* "A second launch fails to bind, sees the first instance is alive (connect
\* succeeds), asks it to focus its window, and exits": there are never two GUIs,
\* whoever crashed or quit before, unless two launches overlapped in the guard.
OneOnStage ==
  ~raced => \A g, h \in Gui : gui[g] \in InApp /\ gui[h] \in InApp => g = h

\* ... and the first instance does show its window, when it has one.
PingsAreSeen ==
  \A g \in Gui :
    (g \in pings /\ gui[g] = "stage") ~> (g \in visible \/ gui[g] = "off")
=============================================================================
