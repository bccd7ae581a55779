# WiBox media daemon: a TLA+ model

Specifications, model checking and machine-checked proofs for the firmware in
this repository: `sip_media` (the daemon that connects a Fermax VDS door panel
with SIP, RTSP and MQTT), its updater `firmware_update`, and the supervisor
script `app_watchdog.sh`. Paths below are relative to the repository;
`sip_media.c` and its neighbours are in `src/sip_media/`.

The daemon is one process with many threads (PJSIP, serial, main loop, MQTT,
one per RTSP client, audio capture, timeouts) that share global state under
several mutexes, and it shares flash, watchdog and guard file with other
processes. What each function does is simple; what several of them do together
is what these modules are for.

## 1. Inventory

| Component | State it keeps | Operations | Talks to | What is hard | What makes it correct |
|---|---|---|---|---|---|
| Call session (`call_session.c`) | active, call id, event number, 32-bit call counter | init, start, record, is_active | callers in four threads | counter wrap; terminal event clears the session | ids are never "none" and never repeat at once; events are numbered without gaps |
| Call trace (`sip_media.c` 200-255, `mqtt.c`) | cached call id, retained broker topic | publish id, publish event, connect, republish | MQTT broker | the lock is released before publishing; connections break unnoticed | the retained id is the session's |
| Panel line (`sip_media.c` 1433-1962) | `call_active`, simulated-ring flag, `rtsp_line_*`, two mutexes | ensure open, close, RTSP line sync, door, snapshot, ding, frames | the unit's MCU over UART, SIP callbacks | eight contexts, sleeps under locks, refusals | no START_CALL repeated on a line that is known to be open, daemon and unit agree, calls and viewers have a line |
| SIP dialogs (`sip_calling.c`) | one session: state, direction, Call-ID | make, terminate, timeout, every request and response | SIP peer over UDP, media callbacks | one session for both directions; loss, repeats, reordering | media follows the call; both ends agree; attempts end |
| Audio engine and video worker (`sip_media.c`, `video_worker.c`) | engine running, SIP target, worker pid, SIP RTP flag | start, stop, attach, detach, reconcile, snapshot | SIP, RTSP counts, main loop, a forked process | check-then-act across locks, joins under locks, a process that dies, commands that are lost | one worker; nothing sent after a call unless the command was lost; viewers are served; callbacks return |
| RTSP server (`rtsp_stream.c`) | client slots, sockets, counts, playout thread | accept, requests, broadcast, leave, service start and stop | media threads, count callback | reuse of slots and descriptors; steps after unlock | a socket in use has one owner; slots come back |
| Firmware update (`firmware_update.c`) | chosen release, expected MD5, guard file, image, flash | read settings, look up, fetch list and image, check, guard, stop daemons, disarm, flash, verify | release server, supervisor, daemon, watchdog | repositories that change between requests; death at any step; two updaters | only a trusted image is flashed; nothing disturbs the flash; a partial flash stays guarded |
| Application supervisor (`app_watchdog.sh`) | what it read from the guard | check, judge, remove, launch | guard file, daemon | acts on what it read | the daemon comes back, and not during a flash |
| Hardware watchdog client (`hardware_watchdog.c`) | heartbeat, feed time, thread | start, heartbeat, keepalive thread, stop | driver, main loop | timing, partial failure of start and stop | a hang is reset in bounded time, health is not |
| Audio input health (`sip_media.c` 3664-3713) | silence start, attempts, health | 5 s check, restart, reboot | audio engine | faults seen through a shared engine | no reboot without a long silence; a dead capture does not stay |
| Ringing flow (`sip_media.c` 2015-2087, 2332-2385) | timeout generation, what was published | ding, frames, timeouts, call callbacks | MQTT, call session, SIP | four publishers, no common lock | what is told is what is |
| Scheduled reboot (`sip_media.c` 3719-3754) | day last fired | 30 s check | SIP, RTSP, clock | questions asked one by one; clock | in its hour, cutting nobody off who was there |
| MQTT client (`mqtt.c`) | socket, connected flag, cache of the retained topics, developer mode, install and reboot flags | connect, subscribe, announce, republish, receive and dispatch, publish, stop | MQTT broker and its will, every component | one reader and many publishers on a socket; caches written without a lock; a connection that ends without a word | momentary commands run once; a device shown online answers; the broker holds the cached state; a stopped daemon is shown offline |
| UART framing (`uart_protocol.c`, `sip_media.c` 2736-2814) | bytes of the frame being assembled, device | open, read, assemble, look up | the unit's MCU | lost bytes shift the frames | only frames that were sent are acted on, once and in order |
| Forwarding and Wi-Fi button (`sip_media.c` 2215-2225, 2571-2730) | forwarding state, time it went off, restore flag, time of the long press | frames, MQTT command | the unit's MCU, MQTT | two frames that belong together by time; three writers of one switch | programming mode leaves forwarding as it was; the switch shows it |
| Video worker (`video_rtp_bridge.c`, `snapshot_file.c`) | RTP target, sink pipe, armed snapshot | command, frame, JPEG, stop, kill | daemon over a control pipe, RTSP reader over the sink pipe | unframed pipes, signals, blocked writes, a successor on the same pipe | sinks as commanded; packets and pictures whole |
| Snapshots (`sip_media.c` 1800-1974) | busy flag, the picture's path | open line, ask the worker or run an encoder, wait, publish | worker, panel line | shares line, encoder and file | what is published is whole |
| Configuration (`config.c`, `runtime_config.c`) | key=value file | parse, clamp, rewrite | MQTT | clamps | not modelled: sequential functions of their input |
| Prometheus endpoint, SDP, GADI audio, Wi-Fi scripts, boot and build scripts | | | | | not modelled: pure I/O, text or straight-line scripts (section 6) |

## 2. Modules

Composition is by EXTENDS: an `MC*` module extends the module it instantiates
and fixes constants that a `.cfg` cannot express; a `*_proofs` module extends
the modules it proves about. Most carry the name of one; `Board_proofs` is about
`HardwareWatchdog`, `AudioHealth`, `DailyReboot`, `OtaGuard` and
`FirmwareRelease`, `Media_proofs` about `MediaSinks` and `VideoWorker`,
`Told_proofs` about `RingFlow` and `MqttClient`. `CallTrace` extends `CallSession`: its threads take
`CallSession`'s actions as the one locked step of theirs, and so it implements
`CallSession` (theorem `TraceKeepsSession`).

Four `MC` modules put modules side by side that belong to one part of the
system: `MCPanel` (`IntercomLine`, `PanelUart`), `MCOta` (`OtaGuard`,
`FirmwareRelease`), `MCMedia` (`MediaSinks`, `VideoWorker`) and `MCBoard`
(`HardwareWatchdog`, `AudioHealth`, `DailyReboot`). These modules share no
variable; each takes the other's outcome as a choice of its own (`OtaGuard` a
download that succeeds or fails, `IntercomLine` frames that arrive whole). Their
product would add no behaviour of either, so the variable `part` picks one of
them in the initial state and the others stay where they are.

Two modules are abstract specifications. `FrameChannel` says what a reader may
learn from a channel of frames: some of the frames sent, each at most once, in
order. `PanelUart` implements it, with the frames of the code's table as
`Frame` (`Channel`, property `ActsOnWhatWasSent`). `TrustedUpdate` says who may
choose an image, who vouches for it and what is then handed to the flash.
`FirmwareRelease` implements it, with the choices its settings allow as
`wishes` (`Trusted`, property `HandsOverTrusted`), checked by TLC and proved.

| Module | Models | How state and actions correspond |
|---|---|---|
| `CallSession` | `call_session.c` | `session`, `nextCall` are the struct, `last` the last event returned (history). Every function locks the session's mutex, so each is one action. `Mod` stands for 2^32. |
| `CallTrace` | `call_trace_start`, `call_trace_record`, the publishing side of `mqtt.c` | One action per step outside a lock: overwrite the cached id, build the packet, send it. A write of the id that overlaps another may be torn. `Connect` republishes from the cache. |
| `IntercomLine` | `ensure_intercom_call_open`, `close_intercom_call`, `rtsp_intercom_line_sync` and their callers, the ring timeout and the media tests included | `thread[a]` is a program counter per context; `lock` has the session, command and RTSP-line mutexes; `line` and `frames` are the unit, an external environment. `asked` remembers the last START_CALL, and whether the daemon ended or forgot it. A sleep is the gap between two actions. The simulated handset and the raw frames of the control pipe are left out. |
| `SipCalling` | `sip_calling.c` | Everything runs under `session_mutex`, so each request, response, timeout and local termination is one action on `session` and `media`. `toDevice` and `toPeer` are the network; the peer answers as RFC 3261 has it. |
| `MediaSinks` | audio engine, video worker, SIP media callbacks, client-count callback, reconciliation, snapshot | A program counter per context; `lock` has the session, audio and video lifecycle mutexes. `procs` is the number of encoder processes, `worker` is `video_bridge_pid > 0`: they differ after a crash. `order` is the first command in the control pipe, the only one that the worker's next read recognises; `unheard` remembers a command about the peer that was written behind another. |
| `RtspClients` | slots, workers, count callback, playout thread | `slot` is `clients[]`, `open` and `shut` are the kernel's sockets with descriptor reuse. What a worker does after releasing `clients_mutex` is a step of its own. |
| `OtaGuard` | updater, supervisor, daemon start, watchdog, flash | One action per system call that another process can see. `image.by` are the updaters that write the file at the common path: two may share it. `Die` may take an updater at any step. Release lookup, download and comparison of images are one action each that succeeds or fails. |
| `FirmwareRelease` | `firmware_update.c` up to `guarded_flash_file` | `stage` is the point `main` has reached, `hop` the depth of `fetch_url`. An image is the build it holds, or `Broken`; an MD5 is the build it is of. `latest`, `built` and `summed` are the repositories, which the maintainers change at any moment. |
| `PanelUart` | `serial_monitor_thread_func`, `uart_protocol_find`, `handle_uart_frame` for forwarding and the Wi-Fi button | `wire` holds real bytes, each with the number of the frame it was sent in; `frame` is the assembly buffer. A `scene` says what the unit does. `before` remembers forwarding as it was when programming mode began, and becomes "any" when somebody or a lost byte interferes. A frame read from the bytes of two equal ones counts as the one its last byte is of (`Number`). |
| `VideoWorker` | the worker process, the pipes to it and from it, the snapshot thread's side of the picture | `encoder` is the process, `control` the commands it has not read, `pipe` the chunks of packets between it and the reader thread. `asked` is what the daemon last told it. |
| `MqttClient` | `mqtt.c` | `pc` is the client thread, `pub` a publication by another thread between its cache and its send, `link` and `session` the two ends' views of the connection; `retained`, `subscribed` and `will` are the broker's. One action per packet or group of packets that nobody else's step can come between; `dial` is the time in which the broker is looked up and connected, while there is no socket that a stop could shut down. |
| `HardwareWatchdog` | `hardware_watchdog.c` and the driver's countdown | Half-second ticks; the times of the code are kept as their age. Disarming may fail, and leaves the driver counting. |
| `AudioHealth` | the health check of the main loop | Ticks of the 5 s check; the capture's many frames are a peak of 0 or 1. `mute` says whether `audio_input_mute_until_ms` ends before a whole check has passed: muted frames are not measured. `alive` and `masked` remember what the checks did not see. |
| `RingFlow` | `handle_ding_trigger`, `handle_uart_frame`, the timeout threads, `on_call_state_change` | A handler is the sequence of what it has still to publish. `timers` is one program per timeout thread, `current` the one whose generation is valid. |
| `DailyReboot` | the scheduled reboot of the main loop | Minutes; the three questions before the reboot are separate steps. |

Where a question needs several surroundings (who takes part, what may fail),
they are records in a set `Settings` (`Networks` for SIP) given by the `MC`
module; one is chosen in `Init` and stays. A property that the code keeps only
in some surroundings says so in its antecedent, so the assumption is part of
the statement. Section 5 says what happens in the others.

## 3. Runs

| Run | Question | Bounds, and why they suffice | States |
|---|---|---|---|
| `call_trace` | Are events numbered, and is the retained id right, over wraps and lost connections? | Counter modulo 3 (two names, wraps at once), 2 events a session, 2 threads of which one is MQTT: the smallest in which two publications and a reconnection interleave | 47 439 |
| `panel` | Do the contexts of the panel line keep it consistent, and the frames on the wire apart? | Six groups of up to four contexts with the serial thread, 1 frame waiting: SIP with the viewers' two, alone, with door and simulated ring, with ring and timeout; viewers with snapshot and door, with ring and timeout. 4 frames and one run of up to 6 lost bytes: a run may touch three frames and the fourth shows the recovery | 1 581 670 |
| `line_ends` | Do viewers get and lose their line, and do the locks always come free? | Same module, fairness: the viewers' contexts with the door or with SIP, snapshot and ring on a panel that opens its line by itself, and a ring with its timeout | 20 716 |
| `ota` | Is only a trusted image flashed, is the flash left alone, and does the daemon come back? | 2 updaters, any may die: exclusion and a guard that changes hands need no third. 2 releases and a tag that is no version, 2 edits by the maintainers between requests, 2 redirections, 13 sets of settings | 178 165 |
| `sip` | Do session, media and peer agree? | 2 outgoing and 1 incoming call, and 1 and 2 of which no caller gives up, over a perfect network; 1 and 1 over one that loses and repeats, and one that also reorders: a second call is what a message of the first can be taken for | 96 814 |
| `media` | Are the shared engines shared properly, and does the worker do what it is told? | 1 RTSP context with SIP and the main loop (1 client), with the main loop and the snapshot (2 clients), with SIP, the snapshot and worker crashes (1 client): one client is enough for the worker to be kept at a call's end. One command waiting, because only the first counts. 2 workers one after the other on a pipe for 3 chunks (a packet is 2), 2 commands waiting, 1 snapshot | 303 826 |
| `media_join` | Does the end of a call end? (expected violation) | SIP, an RTSP context and the capture thread | stops at the violation |
| `rtsp` | Who owns a slot and a socket? | 2 workers on 2 slots and 2 descriptors; on 1 slot with restarts: a slot is free again before its worker has ended | 223 586 |
| `board` | Is the board reset when, and only when, it should be? | Watchdog: timeouts 3, 4, 5 s, feeding every 1 or 2 s, a look at least every second. Audio: fault after 4 checks, 3 attempts. Schedule: a day of 5 minutes with an hour of 2, hours that end before midnight, 2 days | 105 164 |
| `ring` | Is what is told of a ring true? | 2 rings: an old timeout meets a new ring | 310 041 |
| `mqtt` | Is a command run once, and does the broker show what is so? | One fault, one change by another thread, two commands, two cached topics, of which one is written back: the smallest in which a change meets a reconnection | 383 319 |
| `mqtt_heard` | Is every offered command heard? (expected violation) | as `mqtt` | stops at the violation |

Deadlock is checked except in `media_join`, where it is the finding, in `sip`,
where calls are finite in number and everything may be over, and in the `mqtt`
runs, where the thread of a stopped daemon ends. In the runs by part the step
`Over` stands for the same: a part whose bounds are used up may rest.

Properties, by hazard rather than by module:

* **Event streams and ids**: `EventStream`, `RetainedIdCurrentUnlessMixed`.
* **The shared line**: `NoRepeatedStart`, `LineAgrees`, `LineStaysUsable`.
* **A damaged byte stream**: `ActsOnWhatWasSent`, `DamageIsLocal`, `ForwardingIsKept`.
* **Updates and crashes**: `HandsOverTrusted`, `UpdaterEnds`, `FlashUndisturbed`, `PartialFlashGuarded`, `CriticalExclusive`, `DaemonRecovers`.
* **An unreliable network**: `MediaFollowsCall` (any network); `CallsEndForCause` (any network for what the peer knows, order kept for the timeout); `DialogsAgree`, `AttemptsEnd` (a network that loses nothing, and no CANCEL of another call).
* **Shared media**: `MediaIsOwned`, `ViewersServed`, `CallEnds`.
* **Pipes between processes**: `SinksFollowCommands`, `OutputIsWhole`, `VideoGoesOn`.
* **Reuse**: `SlotOwned`, `ToldIsCurrent`, `GoneLeavesNothing`.
* **Time**: `HungLoopIsReset`, `ResetIsReported`, `RebootNeedsSilence`, `DeadCaptureEnds`, `RebootIsLawful`, `DueIsDone`.
* **Ordering of what is published**: `ToldWhatIs`, `RingEnds`.
* **A broker that remembers**: `ActionsOnce`, `OnlineIsServed`, `ReconnectTellsState`, `StoppedIsOffline`, `ClientReturns`.

A property may name two facts that are stated, and excepted, each by itself
(`LineAgrees`, `LineStaysUsable`, `CallsEndForCause`, `MediaIsOwned`,
`OutputIsWhole`, `GoneLeavesNothing`, `RebootIsLawful`, `ToldWhatIs`); where it
does, a mutant breaks each of them.

Every property of a passing run has a mutant: a variant of a definition, next
to it in the module under a comment that begins with "Mutant", with the bug it
guards against. TLC finds the property violated when the mutant takes the
definition's place.

### Fairness

* Threads that have begun a procedure go on (`WF` or `SF` of their next step).
  `SF` where a mutex is contended (`IntercomLine`, `LockFairSpec` of
  `MediaSinks`, the updaters of `OtaGuard`): a thread waiting for a lock that
  is released again and again gets it at last. `media_join` is violated even so.
* The main loop's periodic checks happen; the retry back-off and sleeps end.
  Frames of the audio capture owe nothing.
* In `OtaGuard` the supervisor's loop and the daemon's start go on.
* In `SipCalling` messages are delivered and the timeout is looked at.
* In `FirmwareRelease` the updater runs and every server that was asked answers
  in the end: no connection has a timeout.
* In `VideoWorker` the reader thread runs, a write that can go on does, and a
  send to a viewer ends by `SO_SNDTIMEO` at the latest.
* In `MqttClient` the client thread runs, a broker that was spoken to answers
  or the connection breaks, faults are finite in number, and the broker notices
  a dead connection (its keepalive).
* In `RingFlow` a call ends at last (somebody hangs up). RTP silence does not
  end a call in this code, so this is an assumption about people.
* Peers, users, the broker and the panel owe nothing.

### Timing assumptions

* `calm` (IntercomLine): the unit answers a START_CALL after the daemon has
  noted it, and the serial thread has read its frame before the next step.
* `calm` (RingFlow): a handler has ended before the peer of the call it made
  answers.
* `PromptPass` (OtaGuard): the supervisor's pass from its first look at the
  guard to acting on it is not overtaken by an updater that gets from there to
  the flash. A pass takes milliseconds; the updater stops daemons and waits
  in between.
* `Poll` (HardwareWatchdog): the 100 ms thread looks at least once a second.
* `RtspClients` starts the service again only after the old listener has
  been joined and the wait of `rtsp_stream_stop` is over.
* Two outgoing calls are not made within one second (`SipCalling`: Call-IDs
  are distinct).

## 4. Proofs

`tlapm` checks every leaf; nothing is taken on trust. Assumptions are the named
ASSUMEs of the modules, which TLC evaluates for the instances of the runs.

| Theorem | Statement | Argument |
|---|---|---|
| `CallTrace_proofs!SessionInvariant` | `SessionSpec => []SessionInv`, for every counter width above one bit | `SessionInv` is inductive as it stands: type and agreement with the last event are one invariant |
| `CallTrace_proofs!EventStreamHolds` | `SessionSpec => EventStream` | From `SessionInv`: a start follows a terminal event, and the new id is not the counter's old value because the counter skips zero and `Mod > 2` |
| `CallTrace_proofs!TraceKeepsSession`, `TraceKeepsStream` | `Spec => SessionSpec` and with it `Spec => EventStream`: the call trace implements the session | Each step of a thread is `Start`, `Record` or leaves the session alone; the rest is `EventStreamHolds` |
| `CallTrace_proofs!RetainedIdFollows` | `Spec => []RetainedIdCurrentUnlessMixed`, any number of threads | `TraceInv`: while nothing is mixed, one thread at most changes the id (`Alone`), and what it still has to do ends with the id of the session in the cache and at the broker (`Underway`). The property itself is about the rest state only, so it is not inductive |
| `SipCalling_proofs!MediaFollow` | `Spec => []MediaFollowsCall`, any number of calls, any network | `SipInv`: with it the states that a session takes, and that every message in flight is of some call |
| `SipCalling_proofs!EndsForCause` | `Spec => CallsEndForCause` | `MediaEndKnown`: what the device sends upon an end names the call, because with media the session is of that call. `TimeoutSpares` needs `InOrder`: a peer rings a call once and before it answers, so in a queue that keeps its order, repeated or losing messages, no 180 comes behind the 200, and none is left once the call has its media |
| `SipCalling_proofs!BothAgree` | `Spec => []DialogsAgree`, any number of calls in either direction | `AgreeInv`: over a reliable network a call can be followed by itself. What each end takes it to be is tied to the messages of it under way (`Sound`: an established call of a peer that has ended has a BYE coming, a confirmed peer without a call is being told), the queue keeps a final answer behind the provisional one (`Ordered`), and `Limited` says who calls. With nothing under way `Sound` is the property |
| `IntercomLine_proofs!StartsAreNotRepeated` | `Spec => NoRepeatedStart`, any contexts in any surroundings | `LineInv`: a command is sent and its outcome noted under the command mutex, so a START_CALL that nothing ended is known to `call_active` or about to be by the holder, and whoever has written a STOP_CALL and still has to clear the state has nothing to forget (`AskedIsKnown`). A START_CALL that the daemon forgot is `lost` in `asked`, and the statement is about the others: see section 5 for the two ways to forget one |
| `IntercomLine_proofs!DaemonAndPanelAgree` | `Spec => []LineAgrees` | `AgreeInv` (an obliging panel and no SIP): `call_active` and the line differ only while a command or a HANG_UP is under way. `AnswerInv` (SIP alone): an established call has its line, is asking for it, or is being ended |
| `PanelUart_proofs!ChannelIsImplemented` | `PanelSpec => ActsOnWhatWasSent` with one fault at most, any number of frames | `UartInv`: what is assembled and what is on the wire is one stream of bytes that were sent, in order (`Carries`), of frames newer than the last one taken (`Newer`), with no gap before a fault and one after it (`OneGap`). `FourBytes`: four bytes with one gap that read as a frame of the table are the beginning and the end of equal frames. Two gaps are out of reach for a reason: they can make a frame out of three (section 5) |
| `PanelUart_proofs!DamageStaysLocal` | `PanelSpec => []DamageIsLocal`, any number of faults | `KeptInv`: a gap is only at frames that lost a byte (`Guarded`), the bytes assembled reach back to the beginning of a spared frame (`Begun`), and a spared frame not acted on waits whole on the stream (`Waits`) |
| `PanelUart_proofs!ForwardingStays` | `PanelSpec => []ForwardingIsKept`, any number of frames, commands and faults | `ForwardInv`: while nothing is lost, every read is of the next frame sent (`Tidy`). Then the last report still to be read is of what the MCU does (`Latest`), and the wish to restore follows the report that forwarding went off, the one that programming began and the one that it ended (`WasOn`, `WasOff`). Proving it showed two cases that the run's bounds hid (section 5) |
| `Media_proofs!EnginesAreOwned` | `Spec => []MediaIsOwned`, any number of RTSP threads, any surroundings | `SinksInv`: who is between the check and the fork, or between the kill and the wait, has the video lock (`SinksLocked`), so who forks has found no worker and none was started since (`ForkFindsNone`); and a call that is over is still being undone by the SIP thread, step by step (`CallUndone`): a worker that sends to the peer, or is about to read that it should, is known by the daemon to do so, or a `CLEAR_RTP` waits for it, or was written behind another command |
| `Media_proofs!WorkerObeys`, `OutputStaysWhole` | `VideoSpec => []SinksFollowCommands` and `[]OutputIsWhole`, any number of workers and commands and every size of the pipe | `WorkerInv`: unless commands met, what the worker does after the one that waits is what it was told (`CommandsFollowed`); the chunk held by the reader, those on the pipe and the one the worker writes next fit together (`Streaming`); a picture in the making is not one that is waited for |
| `RtspClients_proofs!SlotsAreOwned`, `CountIsCurrent` | `Spec => []SlotOwned` and `[]ToldIsCurrent`, any number of workers, slots and descriptors | `RtspInv`: slots and open sockets are one to one, and a serving worker finds its socket in its slot (`SlotsAreSockets`); whoever changed the number of clients has still to report it (`CountIsReported`) |
| `Told_proofs!RingInvariant`, `RingIsToldTruly` | `Spec => []RingInv` and `Spec => []ToldWhatIs`, any setting, any number of rings | `RingInv` follows each handler as the program it has still to run: the mutex says who is ending a call (`Locked`), what is published and not quiet is owed to a handler or timeout that will silence it (`Silenced`), and nobody else publishes over an established call of a calm peer (`Undisturbed`) |
| `Told_proofs!OnlineMeansServed` | `MqttSpec => []OnlineIsServed` | `ServedInv`: the two ends' views of the connection (`Connection`), and that a device without a session, or with one not yet announced, is not shown online, because its will was published (`Shown`) |
| `Told_proofs!CacheIsTold` | `MqttSpec => []ReconnectTellsState`, any number of changes, faults and restarts | `ResentInv`: the entries before `step` hold the cached value, but for those in `raced`. It uses `ItemsAssumption`: the topics of the cached values are none of the base and offer topics, and the commands that set them none of the momentary ones, as in the code's list |
| `Told_proofs!ActsAtMostOnce` | `MqttSpec => []ActionsOnce` | `ActsInv`: behind the first message on its way none is retained (`Late`), and what was done and what may still be done are no more than what was asked (`Owed`) |
| `Board_proofs!UpdatersExclude` | `Spec => []CriticalExclusive`, any number of updaters | An updater past the guard has its pid in it; a guard is created only where none is, and with `PromptPass` removed only when its pid is dead |
| `Board_proofs!FlashIsUndisturbed` | `Spec => []FlashUndisturbed` | ... and the daemon is down and the watchdog disarmed from the visit of the daemons on, because the supervisor waits on a guard |
| `Board_proofs!PartialFlashIsGuarded` | `Spec => []PartialFlashGuarded` | ... and the guard says FLASHING before the first erase and is COMPLETE only after the comparison |
| `Board_proofs!ReleaseKept`, `UpdaterIsTrusted` | `ReleaseSpec => []ReleaseInv` and `ReleaseSpec => Trusted!UpdateSpec`, for every set of runs, releases and bound on redirections | `ReleaseInv` ties what the updater remembers to the stage it is in: nothing is expected before the choice, a tag that is being fetched was allowed when it was compared and, as settings stay, still is, and an image handed over is the one expected. With it each action is a `Vouch`, a `HandOver` or a stutter |
| `Board_proofs!WatchdogTyped`, `HangIsBounded`, `NoUnreportedReset` | the type invariant, the bound on a hang and the report before a reset, for every set of timeouts and feed intervals | `WatchdogInv` adds to the properties: `Configured` (what start accepts: the interval is under half the timeout), `Hang` (the copy of the heartbeat the thread judges is not older than the heartbeat, and it stops feeding once that is stale, so the countdown bounds the rest) and `Feeding` (while no keepalive failed, the countdown never gets past the interval plus two looks) |
| `Board_proofs!RebootsInItsHour` | `DailySpec => []RebootIsDue`, for every length of day and hour and every time that may be configured | `RebootInv` adds `Timely`: a check under way found the clock set and the time inside the hour of the setting it read. A time inside the window of `main` is within an hour after the setting, because the window never passes midnight |
| `Board_proofs!RebootSpares`, `RebootsLawfully` | `DailySpec => []SparesWhoStayed`, and with the one before `[]RebootIsLawful` | `Present` and `Spared`: who is remembered as having stayed is there, and whoever has been asked for was not |
| `Board_proofs!QuietHourReboots` | `DailySpec => DueIsDone`, if the hour of every configurable time is over by midnight | `Quiet`: a board that is up has fired on no day yet, and a quiet minute that has been checked, with no check under way, is outside the window. The premise is the one the code needs: an hour that midnight cuts off may pass without a check (section 5) |
| `Board_proofs!AudioTyped`, `NoEarlyReboot` | the type invariant, and no reboot before the silence, for every fault time and number of attempts | `Accounted`: while no frame was above the threshold and no check of a live capture was muted, the quiet time is at least `Fault` for every attempt plus what is being counted now. `RebootNeedsSilence` alone is not inductive, because it says nothing of a board that is up |

The three `OtaGuard` theorems assume `PromptPass`; section 5 says what happens
without it.

Every invariant and every action property of the runs is proved. Only
model-checked: the liveness properties (`LineStaysUsable`, `DaemonRecovers`,
`UpdaterEnds`, `AttemptsEnd`, `ViewersServed`, `CallEnds`, `VideoGoesOn`,
`GoneLeavesNothing`, `DeadCaptureEnds`, `RingEnds`, `StoppedIsOffline`,
`ClientReturns`), because temporal reasoning under fairness and ENABLED are out
of the proof system's reach here. Of `MqttClient` the proofs show safety only:
that the cache reaches the broker at all is `ClientReturns`.

## 5. What the code does not keep

Two disagreements are kept as expected violations:

* **A call's end can block the daemon** (`media_join`). `stop_audio_engine`
  (sip_media.c:3214) joins the capture thread. Its caller at the end of a call
  holds `session_mutex`; the capture thread, when its send to an RTSP client
  fails, closes that client, runs the count callback and asks
  `sip_calling_is_call_active`, which takes `session_mutex`. Neither goes on,
  and the PJSIP thread and the main loop stop behind them. The same join under
  `audio_lifecycle_mutex` blocks without SIP, when another thread stops the
  engine while the capture thread's callback is about to stop it.
* **A switch that nobody hears** (`mqtt_heard`). The discovery offers "Hang Up
  on Door Unlock" with the command topic `call/hangup_on_door_unlock/set`, and
  `handle_mqtt_message` has a branch for it, but `mqtt_subscribe_topics` leaves
  it out (mqtt.c:1981): the switch in Home Assistant does nothing.

The following were found by checking the unconditional form of a property; the
properties now carry the condition under which they hold.

| Where | What happens | Condition in the property |
|---|---|---|
| sip_media.c:213 | Two publications of the call id cross; the older id, or "none", stays retained until the next call | `~mixed` |
| sip_media.c:1527 | A STOP_CALL that could not be written clears `call_active` all the same: the next context sends START_CALL on a line that is up | `asked` becomes "lost" |
| sip_media.c:869 | The end of a SIP call that found the line down clears the state of a line that another context opens between its look and the clearing: no STOP_CALL is sent, and START_CALL is repeated | `asked` becomes "lost" |
| sip_media.c:1504 | The unit's refusal is handled before `call_active` is set: it stays set over a line that is down, and the sync takes the line to be up | `~setting.refusals` (`Obliging`) |
| sip_media.c:1577 | `rtsp_line_opened_by_us` outlives its line, and the last viewer's departure closes one the panel opened; the comment at line 1553 says never | `~setting.panelCalls` |
| sip_media.c:1700, 1954 | The door command and the snapshot close the line they opened though a SIP call was established on it meanwhile | SIP alone in `EstablishedHasLine` |
| sip_media.c:846 | A call established while another context closes the line leaves `call_active` set without a line | no SIP in `QuietAgreement` |
| app_watchdog.sh:122, 94 | A slow supervisor starts the daemon during a flash, or removes the next updater's guard | `PromptPass` |
| mqtt.c:1343 | Whether an install runs is known to the daemon process only: after its restart a second command starts a second updater. The guard keeps them apart (`CriticalExclusive`) | no property |
| sip_calling.c:955 | A 180 that arrives after the 200 puts an answered call back under the ringing timeout | `~network.reorder` |
| sip_calling.c:912 | An incoming call whose ACK is lost stays INCOMING: the timeout looks at CALLING and RINGING only | `Reliable` |
| sip_calling.c:585 | A CANCEL ends the incoming call whatever its Call-ID is: a second caller, refused, that gives up leaves the first one in a call and the daemon idle | `Reliable`: no caller gives up, or there is one |
| sip_calling.c:819 | Ending a call in INCOMING sends nothing though its 200 is out: the caller stays in a call | `~network.cutIncoming` |
| sip_media.c:3230, 1360 | The decision to stop the audio engine or the worker is older than the stop: a SIP call attached in between loses its media | no property |
| rtsp_stream.c:126 | Count callbacks overtake each other: the one for a client can come after the one for none, and the worker stays | no property of the worker's release |
| sip_media.c:3643 | A worker that dies keeps its pid in `video_bridge_pid`: nothing starts another until its users have gone | `~setting.crashes` |
| sip_media.c:1929 | A snapshot that found no worker runs its own encoder beside one started since | no property |
| rtsp_stream.c:1021, 733 | A backchannel set up while the last talker leaves finds the playout thread running and then has none; or two run at once | no property |
| rtsp_stream.c:1232 | Starting the service clears slots that workers of the last run still use | `~setting.restarts` |
| sip_media.c:2982, 270 | Muted frames are not measured, and the mute ends by the wall clock: one set back under it (by 2 hours, says line 173), or mutes that prolong each other, make a live capture count as silent, and the board is rebooted with it | `masked = "no"` in `RebootNeedsSilence` |
| sip_media.c:2872 | The error tone that replaces a failed read is loud enough to count as sound | `capture = "flat"` |
| sip_media.c:3675, 3704 | A restart that fails leaves the engine off, which the next check takes for health; a restart drops the target of a SIP call | `FlatInUse` needs an engine that is on or being started |
| sip_media.c:2349 | A ring that found no call publishes over an incoming call established since | `~setting.incoming` |
| sip_media.c:2034 | A timeout that found itself current ends the ring that arrives before it has published | no property |
| sip_media.c:2081 | If the timeout's thread cannot be created the old timeout is already cancelled, and the ring stays | `~setting.threadsFail` |
| sip_media.c:3610, 3736, 3740 | The day last fired is a local variable that the reboot itself forgets, so it reboots again within its hour; the hour ends at midnight; a call that begins after its question is cut off | `Dues`, and "stayed" in `SparesWhoStayed` |
| sip_media.c:2791 | Two runs of lost bytes can join four bytes of three frames to one of the table that nobody sent; the address report (`FB 18`) is taken without looking at its sum | `MaxBursts` is 1, `Finds` for the table only |
| sip_media.c:2688 | The pair OFF and programming mode is recognised by when it was handled: a broker that blocks the publication in between for half a second makes the daemon forget to switch forwarding on again | `before` becomes "any" |
| sip_media.c:2698 | The wish to restore forwarding is cleared before the write that restores it, which may fail; an OFF from Home Assistant during programming is undone at its end; without the unit's echo the switch stays OFF after the restore | `before`, `unit.echoes` |
| sip_media.c:2791, 2688 | Half a frame that lost bytes left in the buffer is completed by the report that forwarding went off; programming mode is then not taken for the cause, and forwarding stays off after it, long after the loss | `before` becomes "any" when programming begins behind half a frame |
| sip_media.c:2698 | If MCU_STATE_0 is lost the wish to restore stays. A later programming mode that began with forwarding off ends with it on | `before` becomes "any" when programming begins with a wish pending |
| firmware_update.c:1214 | The configured repository overrides `--repo` | in `ChosenRepo` |
| firmware_update.c:242 | The suffix of a pre-release is not compared: 1.2.0-rc1 and 1.2.0 are the same | tags are numbers |
| firmware_update.c:421 | A server that accepts and never answers holds the updater for ever | fairness of `Answer` |
| video_rtp_bridge.c:488 | Commands that meet in the control pipe: the first is executed, the others are lost. A `CLEAR_RTP` behind a `FORCE_IDR`, which is written for every client that comes, or a `SNAPSHOT` leaves the worker sending to a peer that has hung up (openspec video-media: "SIP and RTSP SHALL add or remove RTP sinks dynamically") | `~missed` in `SinksFollowCommands`, `unheard` in `NoMediaAfterCall` |
| sip_media.c:1269 | A worker blocked in a write to the sink does not see SIGTERM; SIGKILL after 2 s may leave half a packet on the pipe, and the reader joins it with the next worker's | `halves` |
| sip_media.c:1292 | RTSP disabled and enabled again during a call: the worker keeps running without the sink, and viewers see nothing until the call ends | `SinksFollowCommands` is about what it was told |
| sip_media.c:1929 | The encoder that a snapshot runs for itself has no time limit, and when it ends it resets the device under a worker started meanwhile | no property |
| mqtt.c:2136 | The list republished after a connect leaves out the panel address, the daily reboot's settings, both cached, and the health report (openspec mqtt-home-assistant: "republish ... effective runtime configuration"); snapshot availability is republished from `video_enabled` even while a snapshot runs | `Republished` is that list |
| mqtt.c:1442, 2125 | The republish reads a cache, then publishes and writes back what it read: a change in between is undone in the cache, or overtaken at the broker | `raced` |
| mqtt.c:1343, 1806 | `firmware_update_installing` stays set after an updater that failed, and `reboot_requested` after a reboot that failed: the buttons are dead until a restart | no property |
| mqtt.c:2274 | A stop while the thread looks the broker up or connects finds no socket to shut down: the thread connects, announces discovery and "online" after the stop, and only then sees that it should end | `StoppedIsOffline` says that the will takes it back |
| hardware_watchdog.c:81 | A driver that refuses to be disarmed stays armed behind a stopped client, and resets the board | `ResetIsReported` is about a client that runs |
| firmware_update.c:1267, 1278 | Two updaters may write the same `/tmp/update.img`: what one has checked the other may overwrite while it is flashed. The flash is read back and compared with the expected MD5, so such an updater ends with the guard in place | `PartialFlashGuarded` covers it |
| mqtt.c:2120 | The availability topics of the gated buttons have no will: they stay "online" after the daemon died | `OnlineIsServed` is about the base topic |
| mqtt.c:1719 | A door pulse is ON, a second, OFF: if the connection breaks between the two, `door/unlocked` stays ON until the next connect | no property |

## 6. Left out, and why

* Frames and commands a developer injects: the simulated handset
  (sip_media.c:1777) and the raw frames of the control pipe (2405);
  the media tests of that pipe are in `IntercomLine` for the line they open, and
  not in `MediaSinks`.
* A pid that is used again: `app_watchdog.sh` asks `kill -0`, so a process that
  got a dead updater's pid would keep its guard, and the daemon down, for as
  long as it runs. In `OtaGuard` pids are not used again.
* Message text, parsing, SDP, RTP packets, JPEG and H.264 bytes and the JSON of
  the discovery: no property is about them. (Frames on the UART are bytes in
  `PanelUart`, because its properties are.)
* The MQTT packet codec, and the values of the periodic sensors.
* Asynchronous signals: `signal_handler` (sip_media.c:2892) takes
  `session_mutex` inside a handler, so a signal that interrupts its holder is
  served on the lock it owns. `OtaGuard` has the daemon's end as one step.
* The wall clock in SIP timeouts (sip_calling.c:915): `SipCalling`'s timeout may
  fire at any time, so a clock that is stepped adds nothing to its behaviours.
* Outgoing Call-IDs come from `time(NULL)` (sip_calling.c:618) and are taken to
  be distinct.
* The length of sleeps (reopen guard, back-off): they are gaps. The guard
  narrows its elapsed milliseconds to int (sip_media.c:1465), which after 24.8
  days without a close may be negative and the wait long.
* The Prometheus endpoint, configuration parsing, Wi-Fi scripts, boot scripts,
  build and verification scripts, vendored code: sequential text or device
  I/O, whose effect on the rest (a daemon stopped at any time, a setting that
  changes) is an action of the environment in the modules that see it.

## 7. Plan

What remains, in the order in which it matters:

1. Proofs: done for the safety of every module. What a proof could still add is
   the premise of a liveness argument, such as that a thread that waits for a
   lock waits for one that goes on (`CallEnds`, `LineStaysUsable`).
2. An abstract call (idle, attempt, established, with one owner of media) that
   `SipCalling` implements by a refinement mapping.
3. `ReopenGuard` (millisecond arithmetic narrowed to int), a timed SIP timeout
   over a clock that is stepped.
4. Algorithms as operators against reference definitions: configuration
   clamps, back-off, SDP choice, Annex-B splitting, the backchannel's ring
   buffer.
5. `WifiManager`: the shell loop between station and access point.
