------------------------------- MODULE Launch -------------------------------
(***************************************************************************)
(* The programs of one user's session and what starts and stops them: the  *)
(* daemon as a service beside the GUI, whose buttons install the daemon    *)
(* and start and stop it, and the script that restarts the GUI.            *)
(*                                                                         *)
(* Users, crashes and failures take at most MaxDeeds steps in all: then    *)
(* the programs are left to themselves.                                    *)
(***************************************************************************)
EXTENDS GuiInstance, DaemonService, Naturals

CONSTANT MaxDeeds

ASSUME DeedsAssumption == MaxDeeds \in Nat

VARIABLE deeds

vars == <<guiVars, serviceVars, deeds>>

TypeOK == GuiTypeOK /\ ServiceTypeOK /\ deeds \in 0..MaxDeeds

Init == GuiInit /\ ServiceInit /\ deeds = 0

Deed == deeds < MaxDeeds /\ deeds' = deeds + 1

OnStage == {g \in Gui : gui[g] = "stage"}

\* The GUI's install button, daemon switch and tray menu.
Buttons ==
  /\ Deed /\ OnStage # {}
  /\ StartUnit \/ StopUnit \/ \E b \in BOOLEAN : InstallFromGui(b)
  /\ UNCHANGED guiVars

\* A shell, the desktop, and what can go wrong.
Shell ==
  /\ Deed
  /\ \/ Login \/ Abort
     \/ \E o \in Origin : KillDaemon(o)
     \/ \E b \in BOOLEAN : InstallFrom(b) \/ BeginUninstall(b)
  /\ UNCHANGED guiVars

UserOfGui == Deed /\ GuiUser /\ UNCHANGED serviceVars

\* nicewatch.sh kills every GUI, starts the daemon unless it finds it running,
\* and becomes the next GUI.
Script(g) ==
  /\ Deed /\ gui[g] = "off"
  /\ gui' = [h \in Gui |-> IF h = g THEN "bind" ELSE "off"]
  /\ guard' = IF guard = NoFile THEN NoFile ELSE Stale
  /\ listening' = {} /\ pings' = {} /\ visible' = {} /\ raced' = FALSE
  /\ IF Running("hand") THEN UNCHANGED serviceVars ELSE StartByHand

\* The end of the session takes both programs and the runtime directory away.
EndSession ==
  /\ Deed /\ Logout
  /\ gui' = [g \in Gui |-> "off"] /\ guard' = NoFile
  /\ listening' = {} /\ pings' = {} /\ visible' = {} /\ raced' = FALSE

Programs ==
  \/ GuiStep /\ UNCHANGED <<serviceVars, deeds>>
  \/ (DaemonStep \/ InstallerStep) /\ UNCHANGED <<guiVars, deeds>>

People ==
  \/ Buttons \/ Shell \/ UserOfGui \/ EndSession
  \/ \E g \in Gui : Script(g)

Next == Programs \/ People

Spec == Init /\ [][Next]_vars

\* Every program goes on by itself, and systemd starts what it should run.
OfGui(A)     == A /\ UNCHANGED <<serviceVars, deeds>>
OfService(A) == A /\ UNCHANGED <<guiVars, deeds>>

FairSpec ==
  /\ Spec
  /\ \A g \in Gui : WF_vars(OfGui(Advances(g))) /\ WF_vars(OfGui(Answer(g)))
  /\ WF_vars(OfService(Spawn))
  /\ \A o \in Origin : WF_vars(OfService(Proceeds(o)))
  /\ WF_vars(OfService(InstallerStep))
=============================================================================
