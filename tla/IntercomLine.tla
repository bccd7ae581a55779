---------------------------- MODULE IntercomLine ----------------------------
(***************************************************************************)
(* Who holds the intercom line.  The VDS bus has one line; the MCU opens   *)
(* and drops it, the daemon asks for it with START_CALL and STOP_CALL and  *)
(* keeps its own idea of it in call_active.  Everybody in sip_media.c      *)
(* wants the line: the SIP call, the MQTT door button, the manual          *)
(* snapshot, the developer's simulated ring and its timeout, the media     *)
(* tests and the RTSP viewers.  They share ensure_intercom_call_open and   *)
(* close_intercom_call, and hold three locks: the SIP session lock, the    *)
(* intercom command mutex and rtsp_line_mutex.  The ring and the tests,    *)
(* which the main loop reads from its pipe, are given a thread of their    *)
(* own ("ding").  A frame or a command that a developer injects is not     *)
(* modelled.                                                               *)
(*                                                                         *)
(* The MCU is external and modelled from docs/codes.md and                 *)
(* docs/coexistence.md: it may refuse a START_CALL with HANG_UP, drops a   *)
(* line it has served for long enough, also with HANG_UP, and announces a  *)
(* line it opened itself with START_CALL.  Its frames wait in the UART     *)
(* until the serial thread reads them.                                     *)
(***************************************************************************)
EXTENDS Integers, Sequences

CONSTANTS Settings,      \* the surroundings the line is used in
          MaxFrames      \* bound: frames waiting in the UART

AllActors ==
  {"sip", "serial", "main", "client", "door", "snapshot", "ding", "timeout"}

\* actors: the threads that take part, beside the serial one;
\* hangupOnUnlock: the setting of that name; refusals: the MCU may refuse a
\* START_CALL; panelCalls: it may open the line by itself; sendFailures: a
\* write to the UART may fail; calm: timing, see Unhurried and SerialCaughtUp
ASSUME SettingsAssumption ==
  Settings \subseteq
    [actors : SUBSET AllActors, hangupOnUnlock : BOOLEAN, refusals : BOOLEAN,
     panelCalls : BOOLEAN, sendFailures : BOOLEAN, calm : BOOLEAN]
ASSUME MaxFramesAssumption == MaxFrames \in Nat \ {0}

VARIABLES
  setting,     \* the surroundings, which stay
  thread,      \* per actor, its next step and its local variables
  active,      \* call_active
  simulated,   \* simulated_ding_panel_context_active
  sip,         \* state of the SIP call
  lock,        \* holder of each lock
  rtsp,        \* rtsp_line_opened_by_us, _capped, and now < _retry_after_ms
  viewers,     \* RTSP clients are connected
  line,        \* the MCU's line: "down", or who asked for it
  frames,      \* UART frames the serial thread has not read
  asked        \* history: "yes": a START_CALL was sent and not ended since;
               \* "lost": it was not, and the daemon has forgotten it; or "no"

state == <<active, simulated, asked>>
mcu == <<line, frames>>
others == <<sip, lock, rtsp, viewers>>
vars == <<setting, thread, state, mcu, others>>

Rtsp == {"main", "client"}
Free == "free"

\* ret: where ensure or close returns to; result: what ensure returned;
\* seen: the viewers_present passed to rtsp_intercom_line_sync
Idle == [pc |-> "idle", ret |-> "idle", result |-> 0, seen |-> FALSE]
Down == "down"

Init ==
  /\ setting \in Settings
  /\ thread = [a \in AllActors |-> Idle]
  /\ active = FALSE /\ simulated = FALSE /\ asked = "no"
  /\ sip = "idle"
  /\ lock = [l \in {"session", "command", "rtsp"} |-> Free]
  /\ rtsp = [opened |-> FALSE, capped |-> FALSE, backingOff |-> FALSE]
  /\ viewers = FALSE
  /\ line = Down /\ frames = <<>>

At(a, step) == thread[a].pc = step
Go(a, step) == thread' = [thread EXCEPT ![a].pc = step]
Stop(a) == thread' = [thread EXCEPT ![a] = Idle]
Call(a, proc, back) == thread' = [thread EXCEPT ![a].pc = proc, ![a].ret = back]

\* ensure and close return to their caller, ensure with a value
Return(a, value) ==
  thread' = [thread EXCEPT ![a] =
               IF @.ret = "idle" THEN Idle
               ELSE [pc |-> @.ret, ret |-> "idle", result |-> value,
                     seen |-> @.seen]]

Acquire(l, a) == lock[l] = Free /\ lock' = [lock EXCEPT ![l] = a]
Release(l) == lock' = [lock EXCEPT ![l] = Free]

\* sip_calling_is_call_active waits for the session lock, then reads
CanAskSip(a) == lock["session"] \in {Free, a}

-----------------------------------------------------------------------------
\* The MCU

FrameFits == Len(frames) < MaxFrames

\* Timing assumptions of a calm setting, the first about milliseconds
\* against tens of seconds, the second about the UART against a thread that
\* has just been woken: the MCU does nothing by itself while a thread is
\* between a decision and its command; and a command is not sent while the
\* serial thread could still read a frame.
Unhurried ==
  \A a \in AllActors : thread[a].pc \in {"idle", "unlock", "captured", "tested"}
SerialCaughtUp == frames = <<>> \/ ~At("serial", "idle")

\* START_CALL: granted, or refused within a millisecond by HANG_UP.  A line
\* that is up stays with whom it was opened for.
McuStart(a) ==
  \/ line = Down /\ line' = a /\ UNCHANGED frames
  \/ /\ line = Down /\ setting.refusals /\ FrameFits
     /\ frames' = Append(frames, "HANG_UP")
     /\ UNCHANGED line
  \/ line # Down /\ UNCHANGED mcu

McuStop == line' = Down

\* After 30 s without an answer, or about 95 s of conversation
McuTimeout ==
  /\ line # Down /\ FrameFits
  /\ setting.calm => Unhurried
  /\ line' = Down
  /\ frames' = Append(frames, "HANG_UP")
  /\ UNCHANGED <<setting, thread, state, others>>

PanelOpens ==
  /\ setting.panelCalls /\ line = Down /\ FrameFits
  /\ setting.calm => Unhurried
  /\ line' = "panel"
  /\ frames' = Append(frames, "START_CALL")
  /\ UNCHANGED <<setting, thread, state, others>>

-----------------------------------------------------------------------------
\* ensure_intercom_call_open, with the reopen guard at its default of 0 ms

\* Mutant: the line is checked and asked for without the command mutex
EnsureUnlocked(a) ==
  /\ At(a, "ensure")
  /\ IF active THEN Return(a, 0) ELSE Go(a, "start")
  /\ UNCHANGED <<setting, state, mcu, others>>

EnsureLock(a) ==
  /\ At(a, "ensure") /\ lock["command"] = Free
  /\ IF active THEN Return(a, 0) /\ UNCHANGED lock
     ELSE Go(a, "start") /\ Acquire("command", a)
  /\ UNCHANGED <<setting, state, mcu, sip, rtsp, viewers>>

\* call_active is checked again after the guard, then the command is sent
EnsureStart(a) ==
  /\ At(a, "start")
  /\ setting.calm => SerialCaughtUp
  /\ \/ /\ active
        /\ Return(a, 0) /\ Release("command")
        /\ UNCHANGED <<mcu, asked>>
     \/ /\ ~active /\ setting.sendFailures
        /\ Return(a, -1) /\ Release("command")
        /\ UNCHANGED <<mcu, asked>>
     \/ /\ ~active
        /\ McuStart(a) /\ asked' = "yes"
        /\ Go(a, "started")
        /\ UNCHANGED lock
  /\ UNCHANGED <<setting, active, simulated, sip, rtsp, viewers>>

\* The serial thread may have cleared call_active since START_CALL was sent
EnsureActive(a) ==
  /\ At(a, "started")
  /\ active' = TRUE
  /\ Return(a, 1) /\ Release("command")
  /\ UNCHANGED <<setting, simulated, asked, mcu, sip, rtsp, viewers>>

\* close_intercom_call: STOP_CALL whoever holds the line, then the state is
\* cleared even if it could not be sent
Forgotten == IF asked = "yes" THEN "lost" ELSE asked

CloseStop(a) ==
  /\ At(a, "close")
  /\ Acquire("command", a)
  /\ \/ McuStop /\ asked' = "no"
     \/ setting.sendFailures /\ UNCHANGED line /\ asked' = Forgotten
  /\ Go(a, "stopped")
  /\ UNCHANGED <<setting, active, simulated, frames, sip, rtsp, viewers>>

\* clear_intercom_call_state
ClearState == active' = FALSE /\ simulated' = FALSE

CloseClear(a) ==
  /\ At(a, "stopped")
  /\ ClearState
  /\ Release("command")
  /\ Return(a, thread[a].result)
  /\ UNCHANGED <<setting, asked, mcu, sip, rtsp, viewers>>

-----------------------------------------------------------------------------
\* The SIP call: on_call_state_change runs in the thread that changed the
\* state, under the session lock

SipCall ==
  /\ At("sip", "idle") /\ lock["session"] = Free /\ sip = "idle"
  /\ sip' = "calling"
  /\ UNCHANGED <<setting, thread, state, mcu, lock, rtsp, viewers>>

SipEstablish ==
  /\ At("sip", "idle") /\ sip = "calling"
  /\ sip' = "established"
  /\ Acquire("session", "sip")
  /\ IF simulated \/ active THEN Go("sip", "sipActive")
     ELSE Call("sip", "ensure", "sipActive")
  /\ UNCHANGED <<setting, state, mcu, rtsp, viewers>>

\* set_call_active_status(PJ_TRUE), whatever ensure returned
SipActive ==
  /\ At("sip", "sipActive")
  /\ active' = TRUE
  /\ Release("session")
  /\ Stop("sip")
  /\ UNCHANGED <<setting, simulated, asked, mcu, sip, rtsp,
                 viewers>>

\* The call ends in thread a: an established call closes the line if it is
\* known to be up, any other call only the context of a simulated ring
End(a) ==
  /\ sip # "idle"
  /\ sip' = "idle"
  /\ Acquire("session", a)
  /\ CASE (sip = "established" /\ active) \/ (sip = "calling" /\ simulated) ->
            Call(a, "close", "ended")
       [] sip = "established" /\ ~active -> Go(a, "clear")
       [] OTHER -> Go(a, "ended")
  /\ UNCHANGED <<setting, state, mcu, rtsp, viewers>>

\* No STOP_CALL: a line that was opened since it was found down is forgotten
EndClear(a) ==
  /\ At(a, "clear")
  /\ ClearState
  /\ asked' = IF active THEN Forgotten ELSE asked
  /\ Go(a, "ended")
  /\ UNCHANGED <<setting, mcu, others>>

Ended(a) ==
  /\ At(a, "ended")
  /\ Release("session")
  /\ Go(a, IF a = "door" THEN "unlocked" ELSE "idle")
  /\ UNCHANGED <<setting, state, mcu, sip, rtsp, viewers>>

SipEnd == At("sip", "idle") /\ End("sip")

-----------------------------------------------------------------------------
\* The serial thread: HANG_UP (and the answered handset, which does the same
\* here) clears the state without the command mutex, then ends the SIP call

SerialFrame ==
  /\ At("serial", "idle") /\ frames # <<>>
  /\ frames' = Tail(frames)
  /\ IF Head(frames) = "START_CALL"
     THEN active' = TRUE /\ UNCHANGED <<thread, simulated, asked>>
     ELSE ClearState /\ asked' = "no" /\ Go("serial", "terminate")
  /\ UNCHANGED <<setting, line, others>>

\* Mutant: the SIP call survives the HANG_UP
SerialLeavesCall ==
  /\ At("serial", "terminate")
  /\ Stop("serial")
  /\ UNCHANGED <<setting, state, mcu, others>>

SerialTerminate ==
  /\ At("serial", "terminate")
  /\ \/ End("serial")
     \/ /\ CanAskSip("serial") /\ sip = "idle"
        /\ Stop("serial")
        /\ UNCHANGED <<setting, state, mcu, others>>

-----------------------------------------------------------------------------
\* rtsp_intercom_line_sync, from the client-count callback and once a second
\* from the main loop, each with the viewers it saw before taking the lock

StartSync(a, present) ==
  thread' = [thread EXCEPT ![a].pc = "sync", ![a].seen = present]

ViewersChange ==
  /\ At("client", "idle")
  /\ viewers' = ~viewers
  /\ StartSync("client", viewers')
  /\ UNCHANGED <<setting, state, mcu, sip, lock, rtsp>>

Reconcile ==
  /\ At("main", "idle")
  /\ StartSync("main", viewers)
  /\ UNCHANGED <<setting, state, mcu, others>>

\* The cap: rtsp_intercom_line_max_seconds have passed since the line was
\* opened, which may be at any sync
SyncEnter(a) ==
  /\ At(a, "sync")
  /\ Acquire("rtsp", a)
  /\ \/ /\ ~thread[a].seen
        /\ rtsp' = [opened |-> FALSE, capped |-> FALSE, backingOff |-> FALSE]
        /\ Go(a, IF rtsp.opened THEN "syncClose" ELSE "syncOut")
     \/ /\ thread[a].seen /\ rtsp.opened
        /\ rtsp' = [rtsp EXCEPT !.opened = FALSE, !.capped = TRUE]
        /\ Go(a, "syncClose")
     \/ /\ thread[a].seen
        /\ Go(a, "syncLook") /\ UNCHANGED rtsp
  /\ UNCHANGED <<setting, state, mcu, sip, viewers>>

\* Mutant: rtsp_line_opened_by_us is not reset when the line was dropped
SyncLookSticky(a) ==
  /\ At(a, "syncLook") /\ CanAskSip(a)
  /\ LET busy == active \/ sip # "idle" \/ rtsp.capped
         dropped == ~busy /\ rtsp.opened
     IN /\ rtsp' = IF dropped THEN [rtsp EXCEPT !.backingOff = TRUE] ELSE rtsp
        /\ IF busy \/ dropped \/ rtsp.backingOff
           THEN Go(a, "syncOut")
           ELSE Call(a, "ensure", "syncOpened")
  /\ UNCHANGED <<setting, state, mcu, sip, lock, viewers>>

\* Viewers and a line that is up, or latched off: nothing to do.  A line we
\* had opened is down: it was dropped or refused, so back off.
SyncLook(a) ==
  /\ At(a, "syncLook") /\ CanAskSip(a)
  /\ LET busy == active \/ sip # "idle" \/ rtsp.capped
         dropped == ~busy /\ rtsp.opened
     IN /\ rtsp' = IF dropped
                   THEN [rtsp EXCEPT !.opened = FALSE, !.backingOff = TRUE]
                   ELSE rtsp
        /\ IF busy \/ dropped \/ rtsp.backingOff
           THEN Go(a, "syncOut")
           ELSE Call(a, "ensure", "syncOpened")
  /\ UNCHANGED <<setting, state, mcu, sip, lock, viewers>>

SyncOpened(a) ==
  /\ At(a, "syncOpened")
  /\ rtsp' = IF thread[a].result > 0 THEN [rtsp EXCEPT !.opened = TRUE]
             ELSE [rtsp EXCEPT !.backingOff = TRUE]
  /\ Go(a, "syncOut")
  /\ UNCHANGED <<setting, state, mcu, sip, lock, viewers>>

SyncClose(a) ==
  /\ At(a, "syncClose") /\ CanAskSip(a)
  /\ IF sip = "idle" THEN Call(a, "close", "syncOut")
                     ELSE Go(a, "syncOut")
  /\ UNCHANGED <<setting, state, mcu, others>>

\* Mutant: an early return without unlocking rtsp_line_mutex
SyncOutLocked(a) ==
  /\ At(a, "syncOut")
  /\ Stop(a)
  /\ UNCHANGED <<setting, state, mcu, others>>

SyncOut(a) ==
  /\ At(a, "syncOut")
  /\ Release("rtsp")
  /\ Stop(a)
  /\ UNCHANGED <<setting, state, mcu, sip, rtsp, viewers>>

BackoffElapses ==
  /\ rtsp.backingOff
  /\ rtsp' = [rtsp EXCEPT !.backingOff = FALSE]
  /\ UNCHANGED <<setting, thread, state, mcu, sip, lock, viewers>>

-----------------------------------------------------------------------------
\* mqtt_open_door_callback

DoorPressed ==
  /\ At("door", "idle") /\ CanAskSip("door")
  /\ IF sip # "idle"
     THEN Go("door", "unlock")
     ELSE Call("door", "ensure", "unlock")
  /\ UNCHANGED <<setting, state, mcu, others>>

\* unlock_door, unless the line could not be opened; with
\* hangup_on_door_unlock it ends the SIP call
DoorUnlock ==
  /\ At("door", "unlock")
  /\ \/ /\ thread["door"].result >= 0 /\ setting.hangupOnUnlock
        /\ End("door")
     \/ /\ thread["door"].result >= 0
        /\ setting.hangupOnUnlock => (CanAskSip("door") /\ sip = "idle")
        /\ Go("door", "unlocked")
        /\ UNCHANGED <<setting, state, mcu, others>>
     \/ /\ thread["door"].result < 0
        /\ Stop("door")
        /\ UNCHANGED <<setting, state, mcu, others>>

DoorUnlocked ==
  /\ At("door", "unlocked")
  /\ IF thread["door"].result > 0 THEN Call("door", "close", "idle")
                           ELSE Stop("door")
  /\ UNCHANGED <<setting, state, mcu, others>>

-----------------------------------------------------------------------------
\* snapshot_thread_func with open_panel_context

SnapshotStart ==
  /\ At("snapshot", "idle") /\ ~active
  /\ Call("snapshot", "ensure", "captured")
  /\ UNCHANGED <<setting, state, mcu, others>>

SnapshotDone ==
  /\ At("snapshot", "captured")
  /\ LET opened == thread["snapshot"].result > 0
     IN /\ opened => CanAskSip("snapshot")
        /\ IF opened /\ sip = "idle" THEN Call("snapshot", "close", "idle")
           ELSE Stop("snapshot")
  /\ UNCHANGED <<setting, state, mcu, others>>

-----------------------------------------------------------------------------
\* handle_simulated_ding_trigger, then handle_ding_trigger

DingStart ==
  /\ At("ding", "idle")
  /\ Call("ding", "ensure", "dingOpened")
  /\ UNCHANGED <<setting, state, mcu, others>>

DingOpened ==
  /\ At("ding", "dingOpened")
  /\ simulated' = (simulated \/ thread["ding"].result > 0)
  /\ Go("ding", IF thread["ding"].result < 0 THEN "idle" ELSE "dingCall")
  /\ UNCHANGED <<setting, active, asked, mcu, others>>

\* The outgoing call is made; or is not wanted (a call is active, outgoing
\* calls are off); or fails, which closes the context the ring had opened
DingCall ==
  /\ At("ding", "dingCall") /\ CanAskSip("ding")
  /\ \/ /\ sip = "idle" /\ sip' = "calling"
        /\ Stop("ding")
     \/ Stop("ding") /\ UNCHANGED <<sip>>
     \/ /\ sip = "idle" /\ simulated
        /\ Call("ding", "close", "idle") /\ UNCHANGED sip
  /\ UNCHANGED <<setting, state, mcu, lock, rtsp, viewers>>

-----------------------------------------------------------------------------
\* ringing_timeout_thread_func: RingFlow says which rings it is still for

TimeoutElapses ==
  /\ At("timeout", "idle") /\ CanAskSip("timeout") /\ sip = "idle"
  /\ Go("timeout", "elapsed")
  /\ UNCHANGED <<setting, state, mcu, others>>

TimeoutCloses ==
  /\ At("timeout", "elapsed")
  /\ IF simulated THEN Call("timeout", "close", "idle") ELSE Stop("timeout")
  /\ UNCHANGED <<setting, state, mcu, others>>

-----------------------------------------------------------------------------
\* handle_audio_test_control, handle_video_test_control: their line is closed
\* after some seconds, whoever uses it by then

TestStart ==
  /\ At("ding", "idle")
  /\ Call("ding", "ensure", "tested")
  /\ UNCHANGED <<setting, state, mcu, others>>

TestDone ==
  /\ At("ding", "tested")
  /\ IF thread["ding"].result > 0 THEN Call("ding", "close", "idle") ELSE Stop("ding")
  /\ UNCHANGED <<setting, state, mcu, others>>

-----------------------------------------------------------------------------

Ensure(a) == EnsureLock(a) \/ EnsureStart(a) \/ EnsureActive(a)
Close(a) == CloseStop(a) \/ CloseClear(a)
Ending(a) == EndClear(a) \/ Ended(a)
Sync(a) ==
  \/ SyncEnter(a) \/ SyncLook(a) \/ SyncOpened(a)
  \/ SyncClose(a) \/ SyncOut(a)

\* The steps a thread makes once it has begun
Progress(a) ==
  \/ Ensure(a)
  \/ Close(a)
  \/ Ending(a)
  \/ a \in Rtsp /\ Sync(a)
  \/ a = "sip" /\ SipActive
  \/ a = "serial" /\ (SerialFrame \/ SerialTerminate)
  \/ a = "door" /\ (DoorUnlock \/ DoorUnlocked)
  \/ a = "snapshot" /\ SnapshotDone
  \/ a = "ding" /\ (DingOpened \/ DingCall \/ TestDone)
  \/ a = "timeout" /\ TimeoutCloses

\* What starts a thread: the network, the user, the broker
Trigger ==
  \/ "sip" \in setting.actors /\ (SipCall \/ SipEstablish \/ SipEnd)
  \/ "client" \in setting.actors /\ ViewersChange
  \/ "door" \in setting.actors /\ DoorPressed
  \/ "snapshot" \in setting.actors /\ SnapshotStart
  \/ "ding" \in setting.actors /\ (DingStart \/ TestStart)
  \/ "timeout" \in setting.actors /\ TimeoutElapses

MainLoop == "main" \in setting.actors /\ Reconcile

Next ==
  \/ \E a \in AllActors : Progress(a)
  \/ Trigger
  \/ MainLoop
  \/ BackoffElapses
  \/ McuTimeout
  \/ PanelOpens

Spec == Init /\ [][Next]_vars

\* Every thread that has begun goes on (the operating system schedules it and
\* the locks are handed on in turn), the main loop keeps reconciling and the
\* back-off ends; nothing outside has to happen.
Fairness ==
  /\ \A a \in AllActors : SF_vars(Progress(a))
  /\ WF_vars(MainLoop)
  /\ WF_vars(BackoffElapses)

FairSpec == Spec /\ Fairness

-----------------------------------------------------------------------------

Sends(a) == At(a, "start") /\ thread'[a].pc = "started"

\* The daemon does not ask for a line it already asked for: between two
\* START_CALLs, whichever threads send them, a STOP_CALL was written or the
\* serial thread has read a frame that ends a call.  Each START_CALL seizes a
\* bus shared with the neighbours; docs/coexistence.md describes the storm of
\* them.  It is repeated on a line that is up in two cases, which asked calls
\* "lost": close_intercom_call clears the state though its STOP_CALL could not
\* be written, and the end of a call that found the line down clears the state
\* of one that another thread has opened meanwhile (on_call_state_change).
NoRepeatedStart == [][\A a \in AllActors : Sends(a) => asked # "yes"]_vars

\* Nobody but the daemon opens the line, and it gets what it asks for
Obliging ==
  /\ setting.calm
  /\ ~setting.refusals /\ ~setting.panelCalls /\ ~setting.sendFailures

Quiet == frames = <<>> /\ \A a \in AllActors : At(a, "idle")

\* While nothing is in progress and no frame is waiting, call_active is what
\* the MCU does: no line stays open that the daemon has forgotten and none is
\* down that it believes to be open.  A refusal that is read before the
\* daemon has noted its own START_CALL leaves call_active set over a line that
\* is down, so the MCU has to be obliging; a SIP call that is established
\* while another thread closes the line leaves it set too.
QuietAgreement == Obliging /\ "sip" \notin setting.actors /\ Quiet => (active <=> line # Down)

\* "When SIP media becomes established, the daemon SHALL open the panel context
\* with START_CALL when required" (openspec sip-calling): as long as only SIP
\* calls use the line, no established call is left without it, whatever the
\* MCU refuses or drops.  Every other user can break this: each closes a line
\* it took for its own without regard to a call established on it meanwhile.
EstablishedHasLine ==
  /\ setting.actors = {"sip"} /\ ~setting.panelCalls /\ ~setting.sendFailures
  /\ Quiet /\ sip = "established"
  => line # Down

\* Daemon and panel agree once things are quiet, each under the conditions
\* that the code needs for it.
LineAgrees == QuietAgreement /\ EstablishedHasLine

\* "whenever viewers are present and the line is down it is brought back up"
\* (rtsp_intercom_line_sync's comment), unless the cap has latched or a SIP
\* call is in charge, and with an MCU that obliges.
LineFollowsViewers ==
  Obliging /\ viewers /\ line = Down
    ~> line # Down \/ ~viewers \/ rtsp.capped \/ sip # "idle"

\* Nobody waits forever: a thread that has begun ends, whatever the three
\* locks are doing.
ThreadsEnd == \A a \in AllActors : ~At(a, "idle") ~> At(a, "idle")

\* The line stays usable: the viewers get it back and no thread is lost to it.
LineStaysUsable == LineFollowsViewers /\ ThreadsEnd
=============================================================================
