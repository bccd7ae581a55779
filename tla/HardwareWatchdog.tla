--------------------------- MODULE HardwareWatchdog ---------------------------
(***************************************************************************)
(* hardware_watchdog.c: the thread that feeds the hardware watchdog while  *)
(* the main loop of the media daemon shows that it is alive, and stops     *)
(* feeding when the loop's heartbeat is stale.                             *)
(*                                                                         *)
(* Time passes in half seconds: a timeout of t seconds resets the device   *)
(* 2 * t of them after its last keepalive; a heartbeat is stale after t    *)
(* (timeout_seconds * 500 ms).  What the code keeps as a time of the       *)
(* monotonic clock is kept here as the age it has now.  The thread sleeps  *)
(* 100 ms between looks; with its scheduling delay they are at most Poll   *)
(* half seconds apart.  The OTA guard, which keeps the watchdog from being *)
(* armed, is in OtaGuard.                                                  *)
(***************************************************************************)
EXTENDS Integers

CONSTANTS Timeouts,  \* bound: timeouts in seconds, configured or chosen by the driver
          Feeds,     \* bound: feed intervals in seconds
          Poll       \* assumption: half seconds between two looks

\* main() clamps what it reads, hardware_watchdog_start refuses the rest
ASSUME TimeoutAssumption == Timeouts \subseteq 1 .. 3600
ASSUME FeedAssumption == Feeds \subseteq 1 .. 3600
ASSUME PollAssumption == Poll \in 1 .. 2

VARIABLES
  device,   \* the driver: its timeout, 0 while disarmed, and the
            \* time since the last keepalive
  machine,  \* "up", or "reset" by the watchdog
  service,  \* "off"; "on": running is set; "stopping": running is cleared
  timeout, feed,  \* timeout_seconds, feed_interval_seconds
  beat,     \* age of last_main_heartbeat_ms
  thread,   \* the thread: its next step, its copy of the heartbeat's age, the
            \* age of last_feed_ms and of its last look
  reported, \* the thread's stale_reported
  missed    \* a keepalive has failed since the service started (history)

periods == <<timeout, feed>>
watchdogVars == <<device, machine, service, periods, beat, thread, reported, missed>>

Disarmed == [limit |-> 0, count |-> 0]
ThreadAt(step) == [pc |-> step, seen |-> 0, fed |-> 0, looked |-> 0]

WatchdogInit ==
  /\ device = Disarmed
  /\ machine = "up"
  /\ service = "off"
  /\ timeout = 0 /\ feed = 0 /\ beat = 0
  /\ thread = ThreadAt("none") /\ reported = 0 /\ missed = 0

ThreadIs(step) == thread.pc = step

\* watchdog_disarm_and_close: a device that refuses both ways stays armed, and
\* is no longer fed
DisarmOrNot == device' \in {Disarmed, device}

-----------------------------------------------------------------------------

\* hardware_watchdog_start; its caller goes on without a watchdog if it fails
Configurable(asked, interval) == asked >= 5 /\ interval * 2 < asked

\* What was opened may count already when it is refused: the timeout is not
\* set, or too short, or the device not enabled or fed
StartRefused ==
  /\ machine = "up" /\ service = "off"
  /\ \E asked, actual \in Timeouts, interval \in Feeds :
       /\ Configurable(asked, interval)
       /\ device' \in {Disarmed, [limit |-> 2 * actual, count |-> 0]}
  /\ UNCHANGED <<machine, service, periods, beat, thread, reported, missed>>

Start ==
  /\ machine = "up" /\ service = "off"
  /\ \E asked, actual \in Timeouts, interval \in Feeds :
       /\ Configurable(asked, interval) /\ actual > interval * 2
       /\ device' = [limit |-> 2 * actual, count |-> 0]
       /\ timeout' = actual /\ feed' = interval
  /\ service' = "on" /\ beat' = 0
  /\ thread' = ThreadAt("new") /\ reported' = 0 /\ missed' = 0
  /\ UNCHANGED machine

\* pthread_create fails
StartUndone ==
  /\ machine = "up" /\ service = "on" /\ ThreadIs("new")
  /\ service' = "off" /\ thread' = ThreadAt("none") /\ reported' = 0
  /\ DisarmOrNot
  /\ UNCHANGED <<machine, periods, beat, missed>>

Created ==
  /\ machine = "up" /\ ThreadIs("new")
  /\ thread' = [thread EXCEPT !.pc = "created"]
  /\ UNCHANGED <<device, machine, service, periods, beat, reported, missed>>

\* hardware_watchdog_heartbeat, from the main loop
Heartbeat ==
  /\ machine = "up" /\ service = "on" /\ ~ThreadIs("new")
  /\ beat' = 0
  /\ UNCHANGED <<device, machine, service, periods, thread, reported, missed>>

-----------------------------------------------------------------------------
\* hardware_watchdog_thread

Begin ==
  /\ machine = "up" /\ ThreadIs("created")
  /\ thread' = ThreadAt("read") /\ reported' = 0
  /\ UNCHANGED <<device, machine, service, periods, beat, missed>>

\* The section under watchdog_state.mutex
Read ==
  /\ machine = "up" /\ ThreadIs("read")
  /\ thread' = IF service = "on"
               THEN [thread EXCEPT !.pc = "judge", !.seen = beat]
               ELSE [thread EXCEPT !.pc = "gone"]
  /\ UNCHANGED <<device, machine, service, periods, beat, reported, missed>>

Looked(fed) == [thread EXCEPT !.pc = "read", !.looked = 0, !.fed = fed]

\* Mutant: half the timeout in the wrong unit
StaleNever == thread.seen >= 2000 * timeout

Stale == thread.seen >= timeout

\* Mutant: the interval is taken for a number of timeouts
DueLate == thread.fed >= 2 * timeout

Due == thread.fed >= 2 * feed

JudgeStale ==
  /\ machine = "up" /\ ThreadIs("judge") /\ Stale
  /\ thread' = Looked(thread.fed) /\ reported' = 1
  /\ UNCHANGED <<device, machine, service, periods, beat, missed>>

JudgeFresh ==
  /\ machine = "up" /\ ThreadIs("judge") /\ ~Stale
  /\ thread' = Looked(thread.fed) /\ reported' = 0
  /\ missed' = IF Due THEN 1 ELSE missed
  /\ UNCHANGED <<device, machine, service, periods, beat>>

Keepalive ==
  /\ machine = "up" /\ ThreadIs("judge") /\ ~Stale /\ Due
  /\ thread' = Looked(0) /\ reported' = 0
  /\ device' = [device EXCEPT !.count = 0]
  /\ UNCHANGED <<machine, service, periods, beat, missed>>

-----------------------------------------------------------------------------
\* hardware_watchdog_stop, when the main loop has ended

Stop ==
  /\ machine = "up" /\ service = "on" /\ ~ThreadIs("new")
  /\ service' = "stopping"
  /\ UNCHANGED <<device, machine, periods, beat, thread, reported, missed>>

Disarm ==
  /\ machine = "up" /\ service = "stopping" /\ ThreadIs("gone")
  /\ service' = "off" /\ thread' = ThreadAt("none") /\ reported' = 0
  /\ DisarmOrNot
  /\ timeout' = 0 /\ feed' = 0 /\ beat' = 0
  /\ UNCHANGED <<machine, missed>>

\* The daemon dies: nobody feeds what it has armed
Crash ==
  /\ machine = "up" /\ service # "off"
  /\ service' = "off" /\ thread' = ThreadAt("none") /\ reported' = 0
  /\ UNCHANGED <<device, machine, periods, beat, missed>>

-----------------------------------------------------------------------------

Aged == [thread EXCEPT !.seen = thread.seen + 1, !.fed = thread.fed + 1,
                       !.looked = thread.looked + 1]

\* Half a second passes.  The thread is never later than Poll.
HalfSecond ==
  /\ machine = "up" /\ device.limit > 0
  /\ thread.looked < Poll
  /\ device' = [device EXCEPT !.count = @ + 1]
  /\ machine' = IF device.count + 1 >= device.limit THEN "reset" ELSE machine
  /\ IF service = "off" THEN UNCHANGED <<beat, thread>>
     ELSE beat' = beat + 1 /\ thread' = Aged
  /\ UNCHANGED <<service, periods, reported, missed>>

\* The reset device boots
MachineBoots ==
  /\ machine = "reset" /\ machine' = "up"
  /\ device' = Disarmed
  /\ service' = "off" /\ timeout' = 0 /\ feed' = 0 /\ beat' = 0
  /\ thread' = ThreadAt("none") /\ reported' = 0
  /\ UNCHANGED missed

Thread == Begin \/ Read \/ JudgeStale \/ JudgeFresh \/ Keepalive

WatchdogNext ==
  \/ StartRefused \/ Start \/ StartUndone \/ Created \/ Heartbeat \/ Thread
  \/ Stop \/ Disarm \/ Crash
  \/ HalfSecond \/ MachineBoots

WatchdogSpec == WatchdogInit /\ [][WatchdogNext]_watchdogVars

-----------------------------------------------------------------------------

DeviceType == [limit : Nat, count : Nat]
ThreadType == [pc : {"none", "new", "created", "read", "judge", "gone"}, seen : Nat,
               fed : Nat, looked : 0 .. Poll]

WatchdogTypeOK ==
  /\ device \in DeviceType
  /\ machine \in {"up", "reset"} /\ {reported, missed} \subseteq {0, 1}
  /\ service \in {"off", "on", "stopping"}
  /\ timeout \in Nat /\ feed \in Nat /\ beat \in Nat
  /\ thread \in ThreadType
  /\ service = "off" => ThreadIs("none")
  /\ service # "off" => ~ThreadIs("none")

\* A main loop that hangs is reset, at the latest one and a half timeouts after
\* its last heartbeat: whatever the thread copied before the loop hung, however
\* keepalives failed, and whatever timeout the driver chose.
HungLoopIsReset == service = "on" /\ machine = "up" => beat < 3 * timeout

\* The device is not reset under a daemon that has not reported a stale
\* heartbeat: from the first look on, through the gap between arming the
\* watchdog and the thread's start, and while the daemon is stopping.  Only a
\* keepalive that failed can have let it happen.
ResetIsReported ==
  machine = "reset" /\ service # "off" /\ missed = 0 => reported = 1
=============================================================================
