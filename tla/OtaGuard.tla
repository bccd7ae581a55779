------------------------------ MODULE OtaGuard ------------------------------
(***************************************************************************)
(* Who may touch /dev/mtd4.  The updater (firmware_update.c) downloads an  *)
(* image, publishes a guard file, stops the media daemon, disarms the      *)
(* hardware watchdog and flashes; the application supervisor               *)
(* (app_watchdog.sh) restarts a daemon that is down unless the guard is    *)
(* there, and removes the guard of an updater that died in PREPARE.  The   *)
(* daemon starts updaters on request over MQTT, can crash or be stopped by *)
(* wifi_station_manager.sh at any time, and arms the watchdog.  The three  *)
(* are separate processes that share the guard and the image file by path. *)
(***************************************************************************)
EXTENDS Naturals

CONSTANTS Updater,    \* updater processes, identified by their pids
          NoPid,      \* no pid could be read from the guard
          Deaths,     \* an updater may die at any step
          PromptPass  \* timing: the supervisor's pass over the guard, from its
                      \* first look to acting on it, is never overtaken

ASSUME UpdaterAssumption == NoPid \notin Updater
ASSUME OtaFlagsAssumption == {Deaths, PromptPass} \subseteq BOOLEAN

VARIABLES up,         \* per updater, its next step
          source,     \* per updater, whether the image it opened was whole
          guard,      \* the guard file: its state and pid
          image,      \* /tmp/update.img: who writes it and whether it is whole
          flash,      \* /dev/mtd4: "new" is what the expected MD5 stands for
          daemon,     \* the media daemon process
          installing, \* the daemon's firmware_update_installing
          armed,      \* the hardware watchdog
          sup         \* app_watchdog.sh: next step, and what it has read

vars == <<up, source, guard, image, flash, daemon, installing, armed, sup>>

NoGuard == [state |-> "", pid |-> NoPid]
Guarded == guard # NoGuard
NoImage == [by |-> {}, whole |-> FALSE]
SupStart == [pc |-> "check", state |-> "", pid |-> NoPid]

Init ==
  /\ up = [u \in Updater |-> "off"]
  /\ source = [u \in Updater |-> FALSE]
  /\ guard = NoGuard
  /\ image = NoImage
  /\ flash = "old"
  /\ daemon = "down"
  /\ installing = FALSE
  /\ armed = FALSE
  /\ sup = SupStart

\* /tmp and every process are new after a boot, the flash is what it was
Boot ==
  /\ up' = [u \in Updater |-> "off"]
  /\ source' = [u \in Updater |-> FALSE]
  /\ guard' = NoGuard
  /\ image' = NoImage
  /\ daemon' = "down"
  /\ installing' = FALSE
  /\ armed' = FALSE
  /\ sup' = SupStart
  /\ UNCHANGED flash

InPass == sup.pc \notin {"check", "wait"}
MayMove == PromptPass => ~InPass

Goto(u, step) == up' = [up EXCEPT ![u] = step]
Step(u, from, to) == up[u] = from /\ MayMove /\ Goto(u, to)

Running(u) == up[u] \notin {"off", "ended"}
Touching(u) == up[u] \in {"erase", "write", "verify", "compare"}
Critical(u) == up[u] \in {"visit", "wait", "kill", "disarm", "open", "flashing",
                          "umount", "cancel", "complete", "reboot"} \/ Touching(u)

-----------------------------------------------------------------------------
\* The updater: main's download, then guarded_flash_file

\* start_firmware_update_install, on the daemon's MQTT thread
Install(u) ==
  /\ daemon \in {"arming", "up"} /\ ~installing
  /\ Step(u, "off", "download")
  /\ installing' = TRUE
  /\ UNCHANGED <<source, guard, image, flash, daemon, armed, sup>>

\* The old image is unlinked: who still writes it writes a file without a name
Download(u) ==
  /\ Step(u, "download", "create")
  /\ image' = NoImage
  /\ UNCHANGED <<source, guard, flash, daemon, installing, armed, sup>>

\* fopen creates the file, or cuts one short that another updater has created
\* in between, and then both write it; or it fails
CreateImage(u) ==
  /\ \/ Step(u, "create", "fetch") /\ image' = [by |-> image.by \cup {u}, whole |-> FALSE]
     \/ Step(u, "create", "ended") /\ UNCHANGED image
  /\ UNCHANGED <<source, guard, flash, daemon, installing, armed, sup>>

Shared == image.by \notin {{u} : u \in Updater}

\* The transfer ends, in a file the path may no longer name; or fails
Fetch(u) ==
  /\ \/ /\ Step(u, "fetch", "check")
        /\ IF u \in image.by
           THEN image' \in {[image EXCEPT !.whole = w] : w \in {TRUE} \cup {~Shared}}
           ELSE UNCHANGED image
     \/ /\ Step(u, "fetch", "ended")
        /\ image' = NoImage
  /\ UNCHANGED <<source, guard, flash, daemon, installing, armed, sup>>

\* The MD5 of what the path names now
CheckImage(u) ==
  /\ Step(u, "check", IF image.whole THEN "guard" ELSE "ended")
  /\ image' = IF image.whole THEN image ELSE NoImage
  /\ UNCHANGED <<source, guard, flash, daemon, installing, armed, sup>>

\* Mutant: rename() where the code uses link()
GuardBeginShared(u) ==
  /\ Step(u, "guard", "visit")
  /\ guard' = [state |-> "PREPARE", pid |-> u]
  /\ UNCHANGED <<source, image, flash, daemon, installing, armed, sup>>

\* ota_guard_begin: link() fails if the guard exists
GuardBegin(u) ==
  /\ Step(u, "guard", IF Guarded THEN "ended" ELSE "visit")
  /\ guard' = IF Guarded THEN guard ELSE [state |-> "PREPARE", pid |-> u]
  /\ UNCHANGED <<source, image, flash, daemon, installing, armed, sup>>

\* Mutant: SIGTERM is not waited for
VisitDaemonsOnly(u) ==
  /\ Step(u, "visit", "disarm")
  /\ daemon' = IF daemon = "down" THEN "down" ELSE "stopping"
  /\ UNCHANGED <<source, guard, image, flash, installing, armed, sup>>

\* stop_media_daemons_for_ota: no process found, or SIGTERM, or /proc cannot be
\* read
VisitDaemons(u) ==
  /\ \/ daemon = "down" /\ Step(u, "visit", "disarm") /\ UNCHANGED daemon
     \/ daemon # "down" /\ Step(u, "visit", "wait") /\ daemon' = "stopping"
     \/ Step(u, "visit", "cancel") /\ UNCHANGED daemon
  /\ UNCHANGED <<source, guard, image, flash, installing, armed, sup>>

\* Up to 12 s for a clean exit, then SIGKILL; up to 2 s, then give up.  Each
\* look at /proc may fail, and is then no sign that the daemon is gone
WaitDaemons(u) ==
  /\ \/ daemon = "down" /\ UNCHANGED daemon
        /\ (Step(u, "wait", "disarm") \/ Step(u, "kill", "disarm"))
     \/ Step(u, "wait", "kill") /\ daemon' = "down"
     \/ Step(u, "wait", "cancel") /\ UNCHANGED daemon
     \/ Step(u, "kill", "cancel") /\ UNCHANGED daemon
  /\ UNCHANGED <<source, guard, image, flash, installing, armed, sup>>

DisarmWatchdog(u) ==
  /\ \/ Step(u, "disarm", "open") /\ armed' = FALSE
     \/ Step(u, "disarm", "cancel") /\ UNCHANGED armed
  /\ UNCHANGED <<source, guard, image, flash, daemon, installing, sup>>

\* flash_file: opened by path, checks of the MTD geometry.  A file that two
\* write may change while it is flashed.
OpenImage(u) ==
  /\ \/ image # NoImage /\ Step(u, "open", "flashing")
     \/ Step(u, "open", "cancel")
  /\ \E whole \in {image.whole, image.whole /\ ~Shared} :
       source' = [source EXCEPT ![u] = whole]
  /\ UNCHANGED <<guard, image, flash, daemon, installing, armed, sup>>

\* rename() puts the new state in place whatever is there
MarkFlashing(u) ==
  /\ \/ Step(u, "flashing", "umount") /\ guard' = [state |-> "FLASHING", pid |-> u]
     \/ Step(u, "flashing", "cancel") /\ UNCHANGED guard
  /\ UNCHANGED <<source, image, flash, daemon, installing, armed, sup>>

Umount(u) ==
  /\ Step(u, "umount", "erase") \/ Step(u, "umount", "cancel")
  /\ UNCHANGED <<source, guard, image, flash, daemon, installing, armed, sup>>

\* Mutant: flash_touched is set after the loop, so a failed erase cancels
EraseUnnoticed(u) ==
  /\ Step(u, "erase", "write") \/ Step(u, "erase", "cancel")
  /\ flash' = "partial"
  /\ UNCHANGED <<source, guard, image, daemon, installing, armed, sup>>

\* From the first erase on a failure leaves the guard
Erase(u) ==
  /\ Step(u, "erase", "write") \/ Step(u, "erase", "ended")
  /\ flash' = "partial"
  /\ UNCHANGED <<source, guard, image, daemon, installing, armed, sup>>

Write(u) ==
  /\ \/ Step(u, "write", "verify") /\ flash' = IF source[u] THEN "new" ELSE "partial"
     \/ Step(u, "write", "ended") /\ UNCHANGED flash
  /\ UNCHANGED <<source, guard, image, daemon, installing, armed, sup>>

\* The next two states of the guard are written on a best-effort basis
MarkVerifying(u) ==
  /\ Step(u, "verify", "compare")
  /\ guard' \in {guard, [state |-> "VERIFYING", pid |-> u]}
  /\ UNCHANGED <<source, image, flash, daemon, installing, armed, sup>>

\* The read-back MD5
Compare(u) ==
  /\ Step(u, "compare", IF flash = "new" THEN "complete" ELSE "ended")
  /\ UNCHANGED <<source, guard, image, flash, daemon, installing, armed, sup>>

MarkComplete(u) ==
  /\ Step(u, "complete", "reboot")
  /\ guard' \in {guard, [state |-> "COMPLETE", pid |-> u]}
  /\ UNCHANGED <<source, image, flash, daemon, installing, armed, sup>>

\* reboot(), which may fail, or --no-reboot
Reboot(u) ==
  \/ up[u] = "reboot" /\ MayMove /\ Boot
  \/ /\ Step(u, "reboot", "ended")
     /\ UNCHANGED <<source, guard, image, flash, daemon, installing, armed, sup>>

\* ota_guard_cancel: the flash is untouched
Cancel(u) ==
  /\ Step(u, "cancel", "ended")
  /\ guard' = NoGuard
  /\ UNCHANGED <<source, image, flash, daemon, installing, armed, sup>>

Die(u) ==
  /\ Deaths /\ Running(u) /\ MayMove
  /\ Goto(u, "ended")
  /\ UNCHANGED <<source, guard, image, flash, daemon, installing, armed, sup>>

-----------------------------------------------------------------------------
\* The daemon

others == <<up, source, guard, image, flash, sup>>

\* hardware_watchdog_start: a guard that is there keeps it from arming ...
DaemonLook ==
  /\ daemon = "starting"
  /\ daemon' = IF Guarded THEN "up" ELSE "arming"
  /\ UNCHANGED <<others, installing, armed>>

\* ... one that appears from here on does not
DaemonArm ==
  /\ daemon = "arming"
  /\ daemon' = "up" /\ armed' = TRUE
  /\ UNCHANGED <<others, installing>>

\* SIGTERM, from the updater, wifi_station_manager.sh or an operator
DaemonTerm ==
  /\ daemon \in {"starting", "arming", "up"}
  /\ daemon' = "stopping"
  /\ UNCHANGED <<others, armed, installing>>

\* The orderly exit disarms first
DaemonExit ==
  /\ daemon = "stopping"
  /\ daemon' = "down" /\ armed' = FALSE
  /\ UNCHANGED <<others, installing>>

\* A crash or SIGKILL leaves the watchdog counting
DaemonCrash ==
  /\ daemon # "down"
  /\ daemon' = "down"
  /\ UNCHANGED <<others, armed, installing>>

\* A watchdog that is not fed, the daemon being gone or its main loop stuck
WatchdogFires == armed /\ Boot

-----------------------------------------------------------------------------
\* The supervisor

SupGoes(from, to) == sup.pc = from /\ sup' = [sup EXCEPT !.pc = to]
nonSup == <<up, source, guard, image, flash, daemon, installing, armed>>

\* while [ -f "$OTA_GUARD" ]
SupCheck ==
  /\ SupGoes("check", IF Guarded THEN "readState" ELSE "start")
  /\ UNCHANGED nonSup

\* The two lines of the guard are read by two commands
SupRead ==
  /\ \/ /\ sup.pc = "readState"
        /\ sup' = [sup EXCEPT !.pc = "readPid", !.state = guard.state]
     \/ /\ sup.pc = "readPid"
        /\ sup' = [sup EXCEPT !.pc = "judge", !.pid = guard.pid]
  /\ UNCHANGED nonSup

\* Mutant: the guard of a dead updater is left alone
GuardIsStaleNever == FALSE

\* kill -0: only a dead updater in PREPARE leaves a stale guard.  (Updater's pids
\* are not used again: a process that got the pid of a dead updater would keep
\* its guard, and the daemon down, for as long as it runs.)
GuardIsStale == sup.state = "PREPARE" /\ sup.pid # NoPid /\ ~Running(sup.pid)

SupJudge ==
  /\ SupGoes("judge", IF GuardIsStale THEN "remove" ELSE "check")
  /\ UNCHANGED nonSup

\* rm -f and break: the guard is not looked at again before the start
SupRemove ==
  /\ SupGoes("remove", "start")
  /\ guard' = NoGuard
  /\ UNCHANGED <<up, source, image, flash, daemon, installing, armed>>

SupLaunch ==
  /\ SupGoes("start", "wait")
  /\ daemon' = "starting" /\ installing' = FALSE
  /\ UNCHANGED <<up, source, guard, image, flash, armed>>

\* wait $APP_PID, then the restart delay
SupWait ==
  /\ daemon = "down"
  /\ sup.pc = "wait"
  /\ sup' = SupStart
  /\ UNCHANGED nonSup

-----------------------------------------------------------------------------

Prepare(u) == \/ GuardBegin(u) \/ VisitDaemons(u) \/ WaitDaemons(u) \/ DisarmWatchdog(u)
              \/ OpenImage(u) \/ MarkFlashing(u) \/ Umount(u) \/ Cancel(u)

Flash(u) == \/ Erase(u) \/ Write(u) \/ MarkVerifying(u) \/ Compare(u)
            \/ MarkComplete(u) \/ Reboot(u)

UpdaterStep(u) == \/ Download(u) \/ CreateImage(u) \/ Fetch(u) \/ CheckImage(u)
                  \/ Prepare(u) \/ Flash(u)

Supervise == \/ SupCheck \/ SupRead \/ SupJudge \/ SupRemove
             \/ SupLaunch \/ SupWait

Next ==
  \/ \E u \in Updater : Install(u) \/ UpdaterStep(u) \/ Die(u)
  \/ DaemonLook \/ DaemonArm \/ DaemonTerm \/ DaemonExit \/ DaemonCrash
  \/ WatchdogFires
  \/ Supervise

Spec == Init /\ [][Next]_vars

\* Processes keep running; only an updater may be overtaken for a while by
\* the supervisor's pass, which is finite but returns
Fairness ==
  /\ WF_vars(Supervise)
  /\ \A u \in Updater : SF_vars(UpdaterStep(u))
  /\ WF_vars(DaemonLook) /\ WF_vars(DaemonArm) /\ WF_vars(DaemonExit)

FairSpec == Spec /\ Fairness

-----------------------------------------------------------------------------

\* "The application supervisor will not restart the daemon while this guard
\* exists" (docs/hardware_resilience.md), and what it is for: while the flash
\* is being written no daemon runs from it and no watchdog can cut the write.
FlashUndisturbed ==
  (\E u \in Updater : Touching(u)) => daemon = "down" /\ ~armed

\* A flash that is partly written stays guarded, whatever became of its
\* updater: "guards after flash is touched SHALL not be cleared automatically"
\* (openspec runtime-resilience).  A boot takes the guard with it, so this also
\* says that neither the updater nor the watchdog reboots the device into it.
PartialFlashGuarded ==
  flash = "partial" => guard.state \notin {"", "PREPARE"}

\* Two updaters are never both past the guard.
CriticalExclusive ==
  \A u, v \in Updater : Critical(u) /\ Critical(v) => u = v

\* A daemon that is down comes back by itself, also when an updater gave up or
\* died on the way, unless an update has gone as far as FLASHING.
DaemonRecovers ==
  daemon = "down" ~> daemon # "down" \/ guard.state \notin {"", "PREPARE"}
=============================================================================
