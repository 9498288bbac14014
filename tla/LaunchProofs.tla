---------------------------- MODULE LaunchProofs -----------------------------
(***************************************************************************)
(* One GUI at a time, a lone daemon that can be reached, installs and      *)
(* uninstalls that leave what they should: for any set of GUI processes    *)
(* and any number of deeds.                                                *)
(***************************************************************************)
EXTENDS Launch, TLAPS

\* Who is past the guard has its name and takes connections; who has found the
\* name without a process behind it is alone.
GuardInv ==
  /\ guard \in Gui \cup {NoFile, Stale}
  /\ gui \in [Gui -> GuiStage]
  /\ ~raced => \A g \in Gui :
       /\ \A h \in Gui : gui[g] \in InGuard /\ gui[h] \in InGuard => g = h
       /\ gui[g] = "bound" => guard = g
       /\ gui[g] \in InApp => guard = g /\ g \in listening
       /\ gui[g] \in {"remove", "rebind"} => \A h \in Gui : gui[h] \notin InApp
       /\ gui[g] = "rebind" => guard = NoFile

LEMMA GuardInit == Init => GuardInv
BY DEF Init, GuiInit, GuardInv, GuiStage, InGuard, InApp

\* A launched GUI's own steps.
LEMMA GuardStep == ASSUME GuardInv, GuiStep PROVE GuardInv'
<1> USE GuiAssumption DEF GuardInv, GuiStage, InGuard, InApp, GoTo
<1>1. ASSUME NEW g \in Gui, Bind(g) PROVE GuardInv'
  <2>1. CASE guard = NoFile BY <1>1, <2>1 DEF Bind
  <2>2. CASE guard # NoFile BY <1>1, <2>2 DEF Bind
  <2>3. QED BY <2>1, <2>2
<1>2. ASSUME NEW g \in Gui, Listen(g) PROVE GuardInv' BY <1>2 DEF Listen
<1>3. ASSUME NEW g \in Gui, Connect(g) PROVE GuardInv' BY <1>3 DEF Connect
<1>4. ASSUME NEW g \in Gui, Unlink(g) PROVE GuardInv' BY <1>4 DEF Unlink
<1>5. ASSUME NEW g \in Gui, Appear(g) PROVE GuardInv' BY <1>5 DEF Appear
<1>6. ASSUME NEW g \in Gui, Answer(g) PROVE GuardInv' BY <1>6 DEF Answer
<1>7. QED BY <1>1, <1>2, <1>3, <1>4, <1>5, <1>6 DEF GuiStep, Advances

\* Its user's.
LEMMA GuardUser == ASSUME GuardInv, GuiUser PROVE GuardInv'
<1> USE GuiAssumption DEF GuardInv, GuiStage, InGuard, InApp, GoTo
<1>1. ASSUME NEW g \in Gui, Launch(g) PROVE GuardInv' BY <1>1 DEF Launch
<1>2. ASSUME NEW g \in Gui, Hide(g) \/ Show(g) PROVE GuardInv'
  BY <1>2 DEF Hide, Show
<1>3. ASSUME NEW g \in Gui, Leave(g) PROVE GuardInv'
  BY <1>3 DEF Leave, WithoutOwner
<1>4. QED BY <1>1, <1>2, <1>3 DEF GuiUser

LEMMA GuardNext == ASSUME GuardInv, [Next]_vars PROVE GuardInv'
<1>1. CASE UNCHANGED guiVars BY <1>1 DEF GuardInv, guiVars
<1>2. CASE EndSession
  BY <1>2 DEF EndSession, GuardInv, GuiStage, InGuard, InApp
<1>3. ASSUME NEW g \in Gui, Script(g) PROVE GuardInv'
  BY <1>3 DEF Script, GuardInv, GuiStage, InGuard, InApp
<1>4. QED BY <1>1, <1>2, <1>3, GuardStep, GuardUser
      DEF Next, Programs, People, Buttons, Shell, UserOfGui, vars

\* Two launches that do not overlap inside the guard never leave two GUIs, from
\* whatever name a crash or a quit has left.
THEOREM OneGui == Spec => []OneOnStage
<1>1. GuardInv => OneOnStage BY DEF GuardInv, OneOnStage
<1>2. QED BY <1>1, GuardInit, GuardNext, PTL DEF Spec

----------------------------------------------------------------------------
\* A daemon that is alone has cleared the name before it binds, and has it since.
SocketInv ==
  /\ daemon \in [Origin -> DaemonStage]
  /\ ~overlap => \A o \in Origin :
       /\ \A p \in Origin : Running(o) /\ Running(p) => o = p
       /\ daemon[o] = "serve" => sock = o
       /\ daemon[o] = "bind" => sock = NoFile

LEMMA SocketInit == Init => SocketInv
BY DEF Init, ServiceInit, SocketInv, Running, DaemonStage

LEMMA BeginInv ==
  ASSUME SocketInv, NEW o \in Origin, Begin(o) PROVE SocketInv'
BY DEF SocketInv, Begin, Running, SetDaemon, DaemonStage

LEMMA EndsInv ==
  ASSUME SocketInv, NEW o \in Origin, NEW s, Running(o), Ends(o, s)
  PROVE  SocketInv'
<1>1. /\ daemon' \in [Origin -> DaemonStage]
      /\ daemon'[o] = "off"
      /\ \A p \in Origin \ {o} : daemon'[p] = daemon[p]
  BY DEF SocketInv, Ends, SetDaemon, DaemonStage
<1>2. ~overlap' => \A p \in Origin \ {o} : daemon[p] = "off"
  <2>1. CASE overlap BY <2>1 DEF Ends, Running
  <2>2. CASE ~overlap BY <2>2 DEF SocketInv, Running
  <2>3. QED BY <2>1, <2>2
<1>3. QED BY <1>1, <1>2 DEF SocketInv, Running

LEMMA SignalledInv ==
  ASSUME SocketInv, NEW o \in Origin, Signalled(o) PROVE SocketInv'
<1>1. CASE daemon[o] = "serve"
  BY <1>1 DEF SocketInv, Signalled, Running, SetDaemon, DaemonStage
<1>2. CASE daemon[o] \in {"init", "bind"}
  BY <1>2, EndsInv DEF Signalled, Running
<1>3. CASE daemon[o] \notin {"serve", "init", "bind"}
  BY <1>3 DEF SocketInv, Signalled, Running, process
<1>4. QED BY <1>1, <1>2, <1>3

LEMMA SocketProcess ==
  ASSUME SocketInv, UNCHANGED process PROVE SocketInv'
BY DEF SocketInv, process, Running

LEMMA SocketDaemon == ASSUME SocketInv, DaemonStep PROVE SocketInv'
<1>1. CASE Spawn BY <1>1, BeginInv DEF Spawn, Origin
<1>2. ASSUME NEW o \in Origin, Clear(o) PROVE SocketInv'
  BY <1>2 DEF SocketInv, Clear, Running, SetDaemon, DaemonStage
<1>3. ASSUME NEW o \in Origin, BindSocket(o) PROVE SocketInv'
  <2>1. CASE sock = NoFile
    BY <1>3, <2>1 DEF SocketInv, BindSocket, Running, SetDaemon, DaemonStage
  <2>2. CASE sock # NoFile BY <1>3, <2>2, EndsInv DEF BindSocket, Running
  <2>3. QED BY <2>1, <2>2
<1>4. ASSUME NEW o \in Origin, Finish(o) PROVE SocketInv'
  BY <1>4, EndsInv DEF Finish, Running
<1>5. QED BY <1>1, <1>2, <1>3, <1>4 DEF DaemonStep, Proceeds

LEMMA SocketInstaller == ASSUME SocketInv, InstallerStep PROVE SocketInv'
<1>1. "unit" \in Origin BY DEF Origin
<1>2. CASE Restart BY <1>1, <1>2, SignalledInv, SocketProcess DEF Restart
<1>3. CASE Disable BY <1>1, <1>3, SignalledInv, SocketProcess DEF Disable
<1>4. CASE UNCHANGED process BY <1>4, SocketProcess
<1>5. QED BY <1>2, <1>3, <1>4
      DEF InstallerStep, RemoveOld, Copy, Chmod, WriteConfig, WriteUnit, Reload,
          Enable, WriteSystemUnit, WriteEntry, RemoveUnit, RemoveEntry

LEMMA SocketNext == ASSUME SocketInv, [Next]_vars PROVE SocketInv'
<1>1. "unit" \in Origin /\ "login" \in Origin /\ "hand" \in Origin
  BY DEF Origin
<1>2. CASE UNCHANGED serviceVars
  BY <1>2, SocketProcess DEF serviceVars, process
<1>3. CASE Programs
  BY <1>2, <1>3, SocketDaemon, SocketInstaller DEF Programs
<1>4. CASE Buttons \/ Shell
  <2>1. CASE StartUnit \/ Abort BY <2>1, SocketProcess DEF StartUnit, Abort
  <2>2. CASE StopUnit BY <1>1, <2>2, SignalledInv DEF StopUnit
  <2>3. CASE Login BY <1>1, <2>3, BeginInv, SocketProcess DEF Login
  <2>4. ASSUME NEW o \in Origin, KillDaemon(o) PROVE SocketInv'
    BY <2>4, EndsInv DEF KillDaemon
  <2>5. ASSUME NEW b \in BOOLEAN,
               InstallFrom(b) \/ InstallFromGui(b) \/ BeginUninstall(b)
        PROVE SocketInv'
    BY <2>5, SocketProcess DEF InstallFrom, InstallFromGui, BeginUninstall, Invoke
  <2>6. QED BY <1>4, <2>1, <2>2, <2>3, <2>4, <2>5 DEF Buttons, Shell
<1>5. CASE EndSession
  BY <1>5 DEF EndSession, Logout, SocketInv, Running, DaemonStage
<1>6. ASSUME NEW g \in Gui, Script(g) PROVE SocketInv'
  BY <1>1, <1>2, <1>6, BeginInv DEF Script, StartByHand
<1>7. QED BY <1>2, <1>3, <1>4, <1>5, <1>6
      DEF Next, People, UserOfGui, vars

\* No crash, signal, restart or stale name leaves a daemon that serves alone and
\* cannot be reached.
THEOREM LoneDaemonReachable == Spec => []AloneIsReachable
<1>1. SocketInv => AloneIsReachable BY DEF SocketInv, AloneIsReachable
<1>2. QED BY <1>1, SocketInit, SocketNext, PTL DEF Spec

----------------------------------------------------------------------------
\* What every step of an install may count on.
InstallInv ==
  /\ config \in {"none", "torn", "whole"} /\ (config = "torn" => cut)
  /\ step \in {"chmod", "config", "unit", "reload", "enable", "restart",
               "system", "entry"} =>
       IF source = "bundle" THEN binary = "new" ELSE Runnable
  /\ step \in {"unit", "reload", "enable", "restart", "system", "entry"} =>
       config # "none"
  /\ step \in {"unit", "reload", "enable", "restart"} => bus
  /\ step \in {"system", "entry"} => ~bus
  /\ step \in {"reload", "enable", "restart"} => unit
  /\ step = "restart" => enabled \/ "enable" \in refused

\* A unit is enabled only while its file is there, until an uninstall whose
\* systemctl is refused.
UninstallInv ==
  /\ step = "enable" => unit
  /\ step # "idle" => result = "none"
  /\ "disable" \notin refused =>
       /\ enabled => unit
       /\ step = "rm unit" => ~enabled
       /\ step = "rm entry" /\ bus => ~unit
       /\ result = "removed" /\ bus => ~unit /\ ~entry

InstallVars == <<binary, config, unit, sysunit, entry, enabled, step, source, bus,
                 result, refused, cut>>

LEMMA InstallInit == Init => InstallInv /\ UninstallInv
BY DEF Init, ServiceInit, InstallInv, UninstallInv, Runnable

LEMMA InstallUnchanged ==
  ASSUME InstallInv, UninstallInv, UNCHANGED InstallVars
  PROVE  InstallInv' /\ UninstallInv'
BY DEF InstallInv, UninstallInv, InstallVars, Runnable

LEMMA InstallStep ==
  ASSUME InstallInv, UninstallInv, InstallerStep
  PROVE  InstallInv' /\ UninstallInv'
<1> USE DEF InstallInv, UninstallInv, Runnable, Advance, Done, files, systemd
<1>1. CASE RemoveOld BY <1>1 DEF RemoveOld
<1>11. CASE Copy BY <1>11 DEF Copy
<1>12. CASE Chmod BY <1>12 DEF Chmod
<1>2. CASE WriteConfig BY <1>2 DEF WriteConfig
<1>3. CASE WriteUnit \/ Reload BY <1>3 DEF WriteUnit, Reload
<1>4. CASE Enable BY <1>4 DEF Enable
<1>5. CASE Restart BY <1>5 DEF Restart
<1>6. CASE WriteSystemUnit
  <2>1. CASE step' = "idle"
    BY <1>6, <2>1 DEF WriteSystemUnit
  <2>2. CASE step' = "entry"
    BY <1>6, <2>2 DEF WriteSystemUnit
  <2>3. QED BY <1>6, <2>1, <2>2 DEF WriteSystemUnit
<1>7. CASE WriteEntry BY <1>7 DEF WriteEntry
<1>8. CASE Disable BY <1>8 DEF Disable
<1>9. CASE RemoveUnit BY <1>9 DEF RemoveUnit
<1>10. CASE RemoveEntry BY <1>10 DEF RemoveEntry
<1>13. QED BY <1>1, <1>2, <1>3, <1>4, <1>5, <1>6, <1>7, <1>8, <1>9, <1>10,
              <1>11, <1>12 DEF InstallerStep

LEMMA InstallNext ==
  ASSUME InstallInv, UninstallInv, [Next]_vars
  PROVE  InstallInv' /\ UninstallInv'
<1> USE DEF files, systemd, installer, InstallVars
<1>1. CASE UNCHANGED InstallVars BY <1>1, InstallUnchanged
<1>2. CASE UNCHANGED serviceVars BY <1>1, <1>2 DEF serviceVars
<1>3. CASE Programs
  <2>1. CASE DaemonStep
    BY <1>1, <2>1 DEF DaemonStep, Proceeds, Spawn, Clear, BindSocket, Finish
  <2>2. QED BY <1>2, <1>3, <2>1, InstallStep DEF Programs
<1>4. CASE Buttons \/ Shell
  <2>1. CASE Abort
    <3>1. /\ step' = "idle" /\ result' = "failed" /\ refused' = refused
          /\ enabled' = enabled /\ unit' = unit
          /\ \/ config' = "torn" /\ cut' = TRUE
             \/ UNCHANGED <<config, cut>>
      BY <2>1 DEF Abort, Done, systemd
    <3>2. QED BY <3>1 DEF InstallInv, UninstallInv
  <2>2. CASE StartUnit \/ StopUnit \/ Login
    BY <1>1, <2>2 DEF StartUnit, StopUnit, Login
  <2>3. ASSUME NEW o \in Origin, KillDaemon(o)
        PROVE  InstallInv' /\ UninstallInv'
    BY <1>1, <2>3 DEF KillDaemon
  <2>4. ASSUME NEW b \in BOOLEAN,
               InstallFrom(b) \/ InstallFromGui(b) \/ BeginUninstall(b)
        PROVE  InstallInv' /\ UninstallInv'
    <3> USE DEF InstallInv, UninstallInv, Runnable, Invoke
    <3>1. CASE InstallFrom(b) BY <3>1 DEF InstallFrom
    <3>2. CASE InstallFromGui(b)
      <4>1. CASE Runnable /\ Invoke("config", "installed", b) BY <4>1
      <4>2. QED BY <3>1, <3>2, <4>1 DEF InstallFromGui
    <3>3. CASE BeginUninstall(b) BY <3>3 DEF BeginUninstall
    <3>4. QED BY <2>4, <3>1, <3>2, <3>3
  <2>5. QED BY <1>4, <2>1, <2>2, <2>3, <2>4 DEF Buttons, Shell
<1>5. CASE EndSession BY <1>1, <1>5 DEF EndSession, Logout
<1>6. ASSUME NEW g \in Gui, Script(g) PROVE InstallInv' /\ UninstallInv'
  BY <1>1, <1>2, <1>6 DEF Script, StartByHand
<1>7. QED BY <1>2, <1>3, <1>4, <1>5, <1>6
      DEF Next, People, UserOfGui, vars

\* An install that reports success leaves a whole binary and configuration and
\* has started the daemon or what starts it, but for refused calls of systemctl
\* and a configuration torn before, whatever failed in earlier installs and
\* wherever it was run from.
THEOREM InstallsComplete == Spec => InstallCompletes
<1> DEFINE Complete == /\ Runnable
                       /\ source = "bundle" => binary = "new"
                       /\ config = "whole" \/ cut
                       /\ Started
<1>1. ASSUME InstallInv, Next, result # "installed", result' = "installed"
      PROVE  Complete'
  <2>1. Restart \/ WriteSystemUnit \/ WriteEntry
    BY <1>1 DEF Next, Programs, People, Buttons, Shell, UserOfGui, Script,
       EndSession, StartByHand, Login, Logout, Abort, KillDaemon, StartUnit,
       StopUnit, InstallFrom, InstallFromGui, BeginUninstall, Invoke, DaemonStep,
       Spawn, Proceeds, Clear, BindSocket, Finish, InstallerStep, RemoveOld, Copy,
       Chmod, WriteConfig, WriteUnit, Reload, Enable, Disable, RemoveUnit,
       RemoveEntry, Advance, Done, serviceVars, installer
  <2>2. CASE Restart
    BY <1>1, <2>2 DEF Restart, Done, InstallInv, Started, Runnable, files
  <2>3. CASE WriteSystemUnit
    BY <1>1, <2>3
       DEF WriteSystemUnit, Done, Advance, InstallInv, Started, Runnable
  <2>4. CASE WriteEntry
    BY <1>1, <2>4 DEF WriteEntry, Done, InstallInv, Started, Runnable
  <2>5. QED BY <2>1, <2>2, <2>3, <2>4
<1>2. InstallInv /\ [Next]_vars =>
        [result # "installed" /\ result' = "installed" =>
           /\ Runnable'
           /\ source' = "bundle" => binary' = "new"
           /\ config' = "whole" \/ cut'
           /\ Started']_serviceVars
  BY <1>1 DEF vars, serviceVars
<1>3. QED
  BY <1>2, InstallInit, InstallNext, PTL DEF Spec, InstallCompletes

\* An uninstall that reports success, with a systemctl that obeys, leaves nothing
\* of the user's that starts the daemon.
THEOREM UninstallsUndo == Spec => []UninstallUndoes
<1>1. UninstallInv => UninstallUndoes BY DEF UninstallInv, UninstallUndoes
<1>2. QED BY <1>1, InstallInit, InstallNext, PTL DEF Spec
=============================================================================
