--------------------------- MODULE DaemonService ----------------------------
(***************************************************************************)
(* The daemon as a service: installed and removed by daemon/src/setup.rs,  *)
(* started by systemd, at login or by hand, and reached through the socket *)
(* it binds in ipc::start and removes when it is told to stop.             *)
(*                                                                         *)
(* Files have no contents here but for what tells them apart: a binary is  *)
(* an old or the new version, or the torn remains of a failed copy.        *)
(***************************************************************************)
EXTENDS SocketFile

Origin == {"unit",   \* systemd's user unit
           "login",  \* the autostart entry
           "hand"}   \* nicewatch.sh

ASSUME OriginAssumption == NoFile \notin Origin /\ Stale \notin Origin
                           /\ NoFile # Stale

VARIABLES
  sock,      \* the daemon's socket
  daemon,    \* how far the daemon of each origin is
  overlap,   \* history: two daemons have run since none did
  \* what the installer leaves on disk
  binary, config, unit, sysunit, entry,
  \* systemd
  enabled, active,
  image,     \* the binary the unit's process runs
  \* the installer
  step, source,
  bus,       \* it sees systemd's user manager
  result,    \* what the last invocation came to
  refused,   \* history: the calls of systemctl that have failed, unnoticed,
             \* and have not been made good since
  cut        \* history: an install was cut short as it wrote the configuration

process   == <<sock, daemon, overlap, image>>
files     == <<binary, config, unit, sysunit, entry>>
systemd   == <<enabled, active>>
installer == <<step, source, bus, result, refused, cut>>
serviceVars == <<sock, daemon, overlap, image, binary, config, unit, sysunit,
                 entry, enabled, active, step, source, bus, result, refused,
                 cut>>

DaemonStage == {"off", "init", "bind", "serve", "stopping"}
Install == {"remove", "copy", "chmod", "config", "unit", "reload", "enable",
            "restart", "system", "entry"}
Uninstall == {"disable", "rm unit", "rm entry"}
Call == {"enable", "restart", "system", "disable"}

ServiceTypeOK ==
  /\ sock \in Origin \cup {NoFile, Stale}
  /\ daemon \in [Origin -> DaemonStage]
  /\ overlap \in BOOLEAN
  /\ binary \in {"none", "torn", "old", "new"}
  /\ config \in {"none", "torn", "whole"}
  /\ unit \in BOOLEAN /\ entry \in BOOLEAN
  /\ sysunit \in {"none", "idle", "enabled"}
  /\ enabled \in BOOLEAN /\ active \in BOOLEAN
  /\ image \in {"none", "old", "new"}
  /\ step \in {"idle"} \cup Install \cup Uninstall
  /\ source \in {"bundle", "installed"}
  /\ bus \in BOOLEAN
  /\ result \in {"none", "failed", "installed", "removed"}
  /\ refused \subseteq Call /\ cut \in BOOLEAN

\* Nothing installed yet, or an older version that runs as a user unit.
ServiceInit ==
  /\ sock = NoFile
  /\ daemon = [o \in Origin |-> "off"] /\ overlap = FALSE /\ image = "none"
  /\ \/ binary = "none" /\ config = "none" /\ unit = FALSE
     \/ binary = "old" /\ config = "whole" /\ unit = TRUE
  /\ enabled = unit /\ active = unit
  /\ sysunit = "none" /\ entry = FALSE
  /\ step = "idle" /\ source = "bundle" /\ bus = TRUE
  /\ result = "none" /\ refused = {} /\ cut = FALSE

----------------------------------------------------------------------------
(* A daemon's life (run of main.rs).                                       *)

Running(o) == daemon[o] # "off"
Runnable   == binary \in {"old", "new"}
SetDaemon(o, stage) == daemon' = [daemon EXCEPT ![o] = stage]

\* Somebody executes the daemon.
Begin(o) ==
  /\ ~Running(o)
  /\ SetDaemon(o, "init")
  /\ overlap' = \E p \in Origin : Running(p)
  /\ image' = IF o = "unit" THEN binary ELSE image
  /\ UNCHANGED sock

\* The process of origin o is gone, with s left of the socket.
Ends(o, s) ==
  /\ SetDaemon(o, "off")
  /\ sock' = s
  /\ overlap' = (overlap /\ \E p \in Origin \ {o} : Running(p))
  /\ image' = IF o = "unit" THEN "none" ELSE image

\* Mutant: the name is left alone.
LeaveName(o) ==
  /\ daemon[o] = "init"
  /\ SetDaemon(o, "bind")
  /\ UNCHANGED <<sock, overlap, image, files, systemd, installer>>

\* ipc::start: whatever has the socket's name is taken for stale and removed.
Clear(o) ==
  /\ daemon[o] = "init"
  /\ SetDaemon(o, "bind") /\ sock' = NoFile
  /\ UNCHANGED <<overlap, image, files, systemd, installer>>

\* ... and then bound.  A daemon that cannot bind exits with an error.
BindSocket(o) ==
  /\ daemon[o] = "bind"
  /\ IF sock = NoFile
     THEN /\ sock' = o /\ SetDaemon(o, "serve")
          /\ UNCHANGED <<overlap, image>>
     ELSE Ends(o, sock)
  /\ UNCHANGED <<files, systemd, installer>>

\* Mutant: the handler removes the name and the loop goes on.
OnlyRemoves(o) ==
  IF daemon[o] = "serve"
  THEN sock' = NoFile /\ UNCHANGED <<daemon, overlap, image>>
  ELSE UNCHANGED process

\* The signal handler stops the loop and removes the name, whoever's it is.  A
\* process without a handler yet simply dies.
Signalled(o) ==
  IF daemon[o] = "serve"
  THEN /\ SetDaemon(o, "stopping") /\ sock' = NoFile
       /\ UNCHANGED <<overlap, image>>
  ELSE IF daemon[o] \in {"init", "bind"} THEN Ends(o, sock)
  ELSE UNCHANGED process

\* The loop has ended, the processes are back in their cgroups: run removes the
\* name once more on its way out.
Finish(o) ==
  /\ daemon[o] = "stopping"
  /\ Ends(o, NoFile)
  /\ UNCHANGED <<files, systemd, installer>>

\* SIGKILL, or a crash.
KillDaemon(o) ==
  /\ Running(o)
  /\ Ends(o, WithoutOwner(sock, o))
  /\ UNCHANGED <<files, systemd, installer>>

\* systemd starts the unit's process, at first and again after a failure
\* (Restart=on-failure).
Spawn ==
  /\ active /\ unit /\ Runnable
  /\ Begin("unit")
  /\ UNCHANGED <<files, systemd, installer>>

\* systemctl start and stop, from the GUI, its tray or a shell.
StartUnit ==
  /\ unit /\ ~active
  /\ active' = TRUE
  /\ UNCHANGED <<process, files, enabled, installer>>

StopUnit ==
  /\ active
  /\ active' = FALSE
  /\ Signalled("unit")
  /\ UNCHANGED <<files, enabled, installer>>

\* A session begins: systemd starts the units that are enabled, the desktop what
\* is in its autostart directory.  When it ends everybody is gone, and so is the
\* runtime directory.
Login ==
  /\ \A o \in Origin : ~Running(o)
  /\ active' = (active \/ (enabled /\ unit))
  /\ IF entry /\ Runnable THEN Begin("login") ELSE UNCHANGED process
  /\ UNCHANGED <<files, enabled, installer>>

Logout ==
  /\ step = "idle"
  /\ daemon' = [o \in Origin |-> "off"] /\ sock' = NoFile
  /\ overlap' = FALSE /\ image' = "none"
  /\ active' = FALSE
  /\ UNCHANGED <<files, enabled, installer>>

\* nicewatch.sh looks for a process called nicewatch, which an installed daemon,
\* nicewatch.bin, is not.
StartByHand ==
  /\ Begin("hand")
  /\ UNCHANGED <<files, systemd, installer>>

----------------------------------------------------------------------------
(* setup::install and setup::uninstall, one step per file or call.         *)

Invoke(first, src, b) ==
  /\ step = "idle"
  /\ step' = first /\ source' = src /\ bus' = b /\ result' = "none"
  /\ UNCHANGED <<process, files, systemd, refused, cut>>

\* Mutant: a binary that is there is good enough.
SkipIfThere(b) ==
  Invoke(IF binary = "none" THEN "remove" ELSE "config", "bundle", b)

\* Run from an AppImage or a build tree: the binary copies itself.
InstallFrom(b) == Invoke("remove", "bundle", b)

\* The GUI runs the installed binary when there is one (locate_daemon), and that
\* one has nothing to copy.  A torn one does not run at all.
InstallFromGui(b) ==
  \/ binary = "none" /\ InstallFrom(b)
  \/ Runnable /\ Invoke("config", "installed", b)

Advance(next) ==
  /\ step' = next
  /\ UNCHANGED <<source, bus, result, cut>>

Done(r) ==
  /\ step' = "idle" /\ result' = r
  /\ UNCHANGED <<source, bus>>

\* install_binary_copy.
RemoveOld ==
  /\ step = "remove"
  /\ binary' = "none"
  /\ Advance("copy")
  /\ UNCHANGED <<process, config, unit, sysunit, entry, systemd, refused>>

Copy ==
  /\ step = "copy"
  /\ binary' = "new"
  /\ Advance("chmod")
  /\ UNCHANGED <<process, config, unit, sysunit, entry, systemd, refused>>

Chmod ==
  /\ step = "chmod"
  /\ Advance("config")
  /\ UNCHANGED <<process, files, systemd, refused>>

\* ensure_default_config: nothing that is there is touched.
WriteConfig ==
  /\ step = "config"
  /\ config' = IF config = "none" THEN "whole" ELSE config
  /\ Advance(IF bus THEN "unit" ELSE "system")
  /\ UNCHANGED <<process, binary, unit, sysunit, entry, systemd, refused>>

WriteUnit ==
  /\ step = "unit"
  /\ unit' = TRUE
  /\ Advance("reload")
  /\ UNCHANGED <<process, binary, config, sysunit, entry, systemd, refused>>

Reload ==
  /\ step = "reload"
  /\ Advance("enable")
  /\ UNCHANGED <<process, files, systemd, refused>>

\* enable --now; the result is dropped.
Enable ==
  /\ step = "enable"
  /\ Advance("restart")
  /\ \/ enabled' = TRUE /\ active' = TRUE /\ refused' = {}
     \/ refused' = refused \cup {"enable"} /\ UNCHANGED systemd
  /\ UNCHANGED <<process, files>>

\* Mutant: enable --now is taken to be enough.
SkipRestart ==
  /\ step = "restart"
  /\ Done("installed")
  /\ UNCHANGED <<process, files, systemd, refused, cut>>

\* restart: the process that runs the old binary has to go.  This result is
\* dropped, too.
Restart ==
  /\ step = "restart"
  /\ Done("installed")
  /\ \/ /\ active' = TRUE /\ Signalled("unit")
        /\ refused' = refused \ {"restart"}
     \/ refused' = refused \cup {"restart"} /\ UNCHANGED <<process, active>>
  /\ UNCHANGED <<files, enabled, cut>>

\* Without the user manager: a unit for root, whoever may write one, enabled
\* and started by a systemctl whose results are dropped ...
WriteSystemUnit ==
  /\ step = "system"
  /\ \/ /\ sysunit' = "enabled" /\ refused' = refused \ {"system"}
        /\ Done("installed") /\ UNCHANGED cut
     \/ /\ sysunit' = IF sysunit = "none" THEN "idle" ELSE sysunit
        /\ refused' = refused \cup {"system"}
        /\ Done("installed") /\ UNCHANGED cut
     \/ Advance("entry") /\ UNCHANGED <<sysunit, refused>>
  /\ UNCHANGED <<process, binary, config, unit, entry, systemd>>

\* ... and an autostart entry for everybody else.
WriteEntry ==
  /\ step = "entry"
  /\ entry' = TRUE
  /\ Done("installed")
  /\ UNCHANGED <<process, binary, config, unit, sysunit, systemd, refused, cut>>

\* uninstall: the user unit, if the user manager is there, and the entry.
BeginUninstall(b) ==
  Invoke(IF b /\ unit THEN "disable" ELSE "rm entry", "bundle", b)

\* Mutant: the unit's file goes, and the manager is not told.
NotDisabled ==
  /\ step = "disable"
  /\ Advance("rm unit")
  /\ UNCHANGED <<process, files, systemd, refused>>

\* disable --now; the result is dropped.
Disable ==
  /\ step = "disable"
  /\ Advance("rm unit")
  /\ \/ enabled' = FALSE /\ active' = FALSE /\ refused' = {}
        /\ Signalled("unit")
     \/ refused' = refused \cup {"disable"} /\ UNCHANGED <<process, systemd>>
  /\ UNCHANGED files

RemoveUnit ==
  /\ step = "rm unit"
  /\ unit' = FALSE
  /\ Advance("rm entry")
  /\ UNCHANGED <<process, binary, config, sysunit, entry, systemd, refused>>

RemoveEntry ==
  /\ step = "rm entry"
  /\ entry' = FALSE
  /\ Done("removed")
  /\ UNCHANGED <<process, binary, config, unit, sysunit, systemd, refused, cut>>

\* A step returns an error, or the installer is killed.  A copy or a file that
\* was being written may be left torn.
Abort ==
  /\ step # "idle"
  /\ Done("failed")
  /\ \/ UNCHANGED <<binary, config, cut>>
     \/ step = "copy" /\ binary' = "torn" /\ UNCHANGED <<config, cut>>
     \/ step = "config" /\ config = "none" /\ config' = "torn" /\ cut' = TRUE
        /\ UNCHANGED binary
  /\ UNCHANGED <<process, unit, sysunit, entry, systemd, refused>>

----------------------------------------------------------------------------
Proceeds(o) == Clear(o) \/ BindSocket(o) \/ Finish(o)

DaemonStep == Spawn \/ \E o \in Origin : Proceeds(o)

InstallerStep ==
  \/ RemoveOld \/ Copy \/ Chmod \/ WriteConfig \/ WriteUnit \/ Reload \/ Enable
  \/ Restart \/ WriteSystemUnit \/ WriteEntry \/ Disable \/ RemoveUnit
  \/ RemoveEntry

ServiceUser ==
  \/ StartUnit \/ StopUnit \/ Login \/ Logout \/ StartByHand \/ Abort
  \/ \E o \in Origin : KillDaemon(o)
  \/ \E b \in BOOLEAN :
       InstallFrom(b) \/ InstallFromGui(b) \/ BeginUninstall(b)

ServiceNext == DaemonStep \/ InstallerStep \/ ServiceUser

ServiceSpec == ServiceInit /\ [][ServiceNext]_serviceVars

----------------------------------------------------------------------------
\* A daemon that has had the field to itself since it started has the socket:
\* no restart by systemd, by the user or by the installer, and no crash in
\* between leaves one that serves but cannot be reached.
AloneIsReachable ==
  ~overlap => \A o \in Origin : daemon[o] = "serve" => sock = o

\* What starts the daemon: with the user manager a unit that is enabled and
\* active, else a system unit that is enabled or an entry for the next login;
\* but for the calls of systemctl that were refused, which nobody is told.
Started ==
  IF bus
  THEN /\ unit
       /\ enabled \/ "enable" \in refused
       /\ active \/ "restart" \in refused
  ELSE entry \/ sysunit = "enabled" \/ "system" \in refused

\* "The point is a downloaded AppImage whose user clicks install service and
\* gets a working daemon": when an install reports success, whatever failed in
\* earlier ones, there is a complete binary (the one it came with), a whole
\* configuration, unless an earlier install was cut short as it wrote that,
\* which nothing repairs, and something has started the daemon or will.
InstallCompletes ==
  [][result # "installed" /\ result' = "installed" =>
       /\ Runnable'
       /\ source' = "bundle" => binary' = "new"
       /\ config' = "whole" \/ cut'
       /\ Started']_serviceVars

\* "uninstall removes exactly what install created": after one that reported
\* success and saw the user manager, nothing in the user's own files starts the
\* daemon again, whatever half-done installs there were before.
UninstallUndoes ==
  result = "removed" /\ bus /\ "disable" \notin refused =>
    ~unit /\ ~entry /\ ~enabled

\* In the end, an active unit whose daemon is alone serves and is reachable,
\* whatever crashes and stale names there were before.
UnitComesUp ==
  <>[](active /\ unit /\ Runnable /\ ~overlap)
    => <>[](daemon["unit"] = "serve" /\ sock = "unit")

\* ... and runs the binary that the last install put there.
UpdateTakesEffect ==
  <>[](/\ active /\ result = "installed" /\ source = "bundle" /\ bus
       /\ "restart" \notin refused)
    => <>[](image = "new")
=============================================================================
