----------------------------- MODULE MediaSinks -----------------------------
(***************************************************************************)
(* Who uses the audio engine and the video worker.  SIP calls and RTSP     *)
(* clients are sinks of one capture engine and of one encoder process,     *)
(* which sip_media.c starts with the first sink and stops after the last.  *)
(* The decisions are made by whoever notices a change: the thread that     *)
(* runs the SIP callbacks (under the session lock), the RTSP threads       *)
(* (client workers, and the capture thread when a send fails), the main    *)
(* loop's reconciliation and the snapshot thread.  Each looks first and    *)
(* acts later; the two lifecycle mutexes cover starting and stopping, not  *)
(* the decision.                                                           *)
(*                                                                         *)
(* Video and RTSP stay enabled, every RTSP client plays audio and video,   *)
(* the audio hardware and fork() do not fail, and the control pipe of a    *)
(* live worker is not full.  The media tests a developer asks for are left *)
(* out.                                                                    *)
(***************************************************************************)
EXTENDS Integers

CONSTANTS Clients,     \* RTSP threads that notice clients come and go
          Settings     \* the surroundings the engines are used in

AllOthers == {"sip", "main", "snapshot", "input"}
Actors == Clients \cup AllOthers
Free == "free"

\* others: the other threads that take part; maxClients: MAX_RTSP_CLIENTS;
\* crashes: the encoder process may die
ASSUME MediaAssumption ==
  /\ AllOthers \cap Clients = {} /\ Free \notin Actors
  /\ Settings \subseteq
       [others : SUBSET AllOthers, maxClients : Nat \ {0}, crashes : BOOLEAN]

VARIABLES
  setting,   \* the surroundings, which stay
  thread,    \* per actor, its next step, where to return to, what it decided
  clients,   \* clients in PLAY
  told,      \* last_video_client_count and last_audio_client_count
  sip,       \* the SIP call
  lock,      \* holders of the session lock and the two lifecycle mutexes
  target,    \* audio_sip_rtp_active
  engine,    \* audio_engine_running
  input,     \* the audio threads of the engine exist
  worker,    \* video_bridge_pid > 0
  procs,     \* encoder processes alive
  hasSip,    \* video_bridge_has_sip_rtp
  sends,     \* the encoder process sends RTP to the SIP peer
  order,     \* the first command in the control pipe that is not read yet
  unheard    \* the last command about the peer was written behind another

audio == <<target, engine, input>>
video == <<worker, procs, hasSip, sends, order, unheard>>
rtsp == <<clients, told>>
vars == <<setting, thread, rtsp, sip, lock, audio, video>>

Others == setting.others
Notifiers == Clients \cup (Others \cap {"input"})

Idle == [pc |-> "idle", ret |-> "idle", plan |-> {}]

Init ==
  /\ setting \in Settings
  /\ thread = [a \in Actors |-> Idle]
  /\ clients = 0 /\ told = 0
  /\ sip = "idle"
  /\ lock = [l \in {"session", "audio", "video"} |-> Free]
  /\ target = FALSE /\ engine = FALSE /\ input = FALSE
  /\ worker = FALSE /\ procs = 0 /\ hasSip = FALSE /\ sends = FALSE
  /\ order = "none" /\ unheard = FALSE

At(a, step) == thread[a].pc = step
Go(a, step) == thread' = [thread EXCEPT ![a].pc = step]
Stop(a) == thread' = [thread EXCEPT ![a] = Idle]
Call(a, proc, back) == thread' = [thread EXCEPT ![a].pc = proc, ![a].ret = back]
Return(a) == Go(a, thread[a].ret)

Acquire(l, a) == lock[l] = Free /\ lock' = [lock EXCEPT ![l] = a]
Release(l) == lock' = [lock EXCEPT ![l] = Free]
CanAskSip(a) == lock["session"] \in {Free, a}

-----------------------------------------------------------------------------
\* The audio engine

\* ensure_audio_engine_running, all of it under audio_lifecycle_mutex
StartAudio(a) ==
  /\ At(a, "startAudio") /\ lock["audio"] = Free
  /\ engine' = TRUE /\ input' = TRUE
  /\ Return(a)
  /\ UNCHANGED <<setting, rtsp, sip, lock, target, video>>

\* maybe_stop_audio_engine: the sinks are looked at before the mutex
MaybeStopAudio(a) ==
  /\ At(a, "maybeStop")
  /\ IF target \/ clients > 0 THEN Return(a) ELSE Go(a, "stopAudio")
  /\ UNCHANGED <<setting, rtsp, sip, lock, audio, video>>

\* stop_audio_engine drops the SIP target and tells the audio threads ...
StopAudio(a) ==
  /\ At(a, "stopAudio") /\ lock["audio"] = Free
  /\ IF engine \/ input
     THEN /\ target' = FALSE /\ engine' = FALSE
          /\ Acquire("audio", a) /\ Go(a, "joinAudio")
     ELSE Return(a) /\ UNCHANGED <<lock, target, engine>>
  /\ UNCHANGED <<setting, rtsp, sip, input, video>>

\* ... and joins them.  The capture thread cannot join itself: that fails and
\* it goes on to the test of its loop, which ends it.
JoinAudio(a) ==
  /\ At(a, "joinAudio")
  /\ a = "input" \/ ~input
  /\ input' = FALSE
  /\ Release("audio") /\ Return(a)
  /\ UNCHANGED <<setting, rtsp, sip, target, engine, video>>

\* audio_input_handler leaves its loop
InputEnds ==
  /\ input /\ ~engine
  /\ "input" \in Others => At("input", "idle")
  /\ input' = FALSE
  /\ UNCHANGED <<setting, thread, rtsp, sip, lock, target, engine, video>>

-----------------------------------------------------------------------------
\* The video worker

\* Mutant: check and fork without video_lifecycle_mutex
StartVideoUnlocked(a) ==
  /\ At(a, "startVideo")
  /\ IF worker THEN Return(a) ELSE Go(a, "fork")
  /\ UNCHANGED <<setting, rtsp, sip, lock, audio, video>>

\* start_video_worker: the lock is held from the check ...
StartVideo(a) ==
  /\ At(a, "startVideo") /\ lock["video"] = Free
  /\ IF worker THEN Return(a) /\ UNCHANGED lock
     ELSE Go(a, "fork") /\ Acquire("video", a)
  /\ UNCHANGED <<setting, rtsp, sip, audio, video>>

\* ... to the fork; only the SIP thread starts it with a target
Fork(a) ==
  /\ At(a, "fork")
  /\ worker' = TRUE /\ procs' = procs + 1
  /\ hasSip' = (a = "sip") /\ sends' = (a = "sip")
  /\ order' = "none" /\ unheard' = FALSE
  /\ Release("video") /\ Return(a)
  /\ UNCHANGED <<setting, rtsp, sip, audio>>

\* stop_video_session: SIGTERM, and up to 2 s until the pid is forgotten
StopVideo(a) ==
  /\ At(a, "stopVideo") /\ lock["video"] = Free
  /\ IF worker THEN Go(a, "reap") /\ Acquire("video", a)
     ELSE Return(a) /\ UNCHANGED lock
  /\ UNCHANGED <<setting, rtsp, sip, audio, video>>

Reap(a) ==
  /\ At(a, "reap")
  /\ worker' = FALSE /\ procs' = IF procs > 0 THEN procs - 1 ELSE 0
  /\ hasSip' = FALSE /\ sends' = FALSE
  /\ order' = "none" /\ unheard' = FALSE
  /\ Release("video") /\ Return(a)
  /\ UNCHANGED <<setting, rtsp, sip, audio>>

\* The encoder process gives up after 30 failed reads in a row, or dies; nobody
\* waits for it
Crash ==
  /\ setting.crashes /\ procs > 0
  /\ procs' = procs - 1 /\ sends' = FALSE
  /\ order' = "none" /\ unheard' = FALSE
  /\ UNCHANGED <<setting, thread, rtsp, sip, lock, audio, worker, hasSip>>

\* write_video_control_command, under video_lifecycle_mutex.  The pipe does not
\* separate commands: of those that one read finds, the first is recognised.
Order(command) ==
  /\ lock["video"] = Free
  /\ IF worker /\ procs > 0
     THEN /\ order' = IF order = "none" THEN command ELSE order
          /\ unheard' = IF command = "other" THEN unheard ELSE order # "none"
     ELSE UNCHANGED <<order, unheard>>

\* poll_rtp_control of the encoder process; opening the new socket may fail,
\* when the old one is closed already
PollControl ==
  /\ procs > 0 /\ order # "none" /\ order' = "none"
  /\ CASE order = "SET_RTP"   -> sends' \in BOOLEAN
       [] order = "CLEAR_RTP" -> sends' = FALSE
       [] order = "other"     -> UNCHANGED sends
  /\ UNCHANGED <<setting, thread, rtsp, sip, lock, audio, worker, procs, hasSip, unheard>>

-----------------------------------------------------------------------------
\* The SIP call: callbacks run under the session lock

SipCalls ==
  /\ At("sip", "idle") /\ lock["session"] = Free
  /\ sip = "idle" /\ sip' = "calling"
  /\ UNCHANGED <<setting, thread, rtsp, lock, audio, video>>

\* on_audio_ready: start_audio_session sets the target, then the engine is
\* made sure of, then start_video_session
SipEstablishes ==
  /\ At("sip", "idle") /\ sip = "calling" /\ sip' = "established"
  /\ Acquire("session", "sip")
  /\ target' = TRUE
  /\ Call("sip", "startAudio", "attachVideo")
  /\ UNCHANGED <<setting, rtsp, engine, input, video>>

\* An existing worker is given the RTP target over its control pipe; if that
\* fails it is replaced
SipAttachesVideo ==
  /\ At("sip", "attachVideo")
  /\ IF worker THEN Go("sip", "attach") ELSE Call("sip", "startVideo", "ended")
  /\ UNCHANGED <<setting, rtsp, sip, lock, audio, video>>

\* Mutant: a worker that cannot be told is told again, and not replaced
SipAttachesAgain ==
  /\ At("sip", "attach") /\ Order("SET_RTP")
  /\ worker /\ procs > 0 /\ Go("sip", "mark")
  /\ UNCHANGED <<setting, rtsp, sip, lock, audio, worker, procs, hasSip, sends>>

SipAttaches ==
  /\ At("sip", "attach")
  /\ Order("SET_RTP")
  /\ IF worker /\ procs > 0 THEN Go("sip", "mark")
                            ELSE Call("sip", "stopVideo", "restart")
  /\ UNCHANGED <<setting, rtsp, sip, lock, audio, worker, procs, hasSip, sends>>

SipRestarts ==
  /\ At("sip", "restart")
  /\ Call("sip", "startVideo", "ended")
  /\ UNCHANGED <<setting, rtsp, sip, lock, audio, video>>

SipMarks ==
  /\ At("sip", "mark")
  /\ hasSip' = TRUE
  /\ Go("sip", "ended")
  /\ UNCHANGED <<setting, rtsp, sip, lock, audio, worker, procs, sends, order, unheard>>

SipEnds ==
  /\ At("sip", "idle") /\ sip # "idle" /\ sip' = "idle"
  /\ Acquire("session", "sip")
  /\ Go("sip", "release")
  /\ UNCHANGED <<setting, rtsp, audio, video>>

\* Mutant: the worker that is kept for RTSP goes on sending to the SIP peer
SipReleasesNothing ==
  /\ At("sip", "release")
  /\ IF worker /\ clients = 0
     THEN Call("sip", "stopVideo", "detach") ELSE Go("sip", "detach")
  /\ UNCHANGED <<setting, rtsp, sip, lock, audio, video>>

\* release_sip_video_or_stop: a worker with RTSP clients is kept, and told to
\* forget the peer
SipReleases ==
  /\ At("sip", "release")
  /\ IF worker /\ clients = 0
     THEN Call("sip", "stopVideo", "detach") /\ UNCHANGED <<hasSip, order, unheard>>
     ELSE /\ IF worker /\ hasSip THEN Order("CLEAR_RTP")
                               ELSE UNCHANGED <<order, unheard>>
          /\ hasSip' = (hasSip /\ ~worker)
          /\ Go("sip", "detach")
  /\ UNCHANGED <<setting, rtsp, sip, lock, audio, worker, procs, sends>>

\* stop_audio_session
SipDetaches ==
  /\ At("sip", "detach")
  /\ target' = FALSE
  /\ Call("sip", "maybeStop", "ended")
  /\ UNCHANGED <<setting, rtsp, sip, lock, engine, input, video>>

SipEnded ==
  /\ At("sip", "ended")
  /\ Release("session") /\ Stop("sip")
  /\ UNCHANGED <<setting, rtsp, sip, audio, video>>

-----------------------------------------------------------------------------
\* RTSP clients come and go: PLAY, PAUSE, TEARDOWN, a lost connection, and
\* the sender that finds a client gone

ClientsChange(a) ==
  /\ At(a, "idle")
  /\ IF a = "input"
     THEN input /\ engine /\ clients > 0 /\ clients' = clients - 1
     ELSE clients' \in {clients - 1, clients, clients + 1} \cap 0 .. setting.maxClients
  /\ Go(a, "notify")
  /\ UNCHANGED <<setting, told, sip, lock, audio, video>>

\* notify_client_count: the counts are taken under clients_mutex, the callback
\* is called after it
Notify(a) ==
  /\ At(a, "notify")
  /\ told' = clients
  /\ thread' = [thread EXCEPT ![a] =
                  IF clients = told THEN Idle
                  ELSE [pc |-> "callback", ret |-> "act",
                        plan |-> IF clients > 0 THEN {"viewers"} ELSE {}]]
  /\ UNCHANGED <<setting, clients, sip, lock, audio, video>>

\* on_rtsp_client_count_change decides everything first; what follows (the
\* intercom line, see IntercomLine) can take seconds
Decide(a) ==
  /\ At(a, "callback")
  /\ LET viewers == "viewers" \in thread[a].plan
         stop == ~viewers /\ worker /\ ~hasSip
     IN /\ stop => CanAskSip(a)
        /\ thread' = [thread EXCEPT ![a].pc = "act", ![a].plan =
             {p \in {"audio", "preview", "force", "stop", "maybe"} :
                \/ p = "audio" /\ viewers /\ ~engine
                \/ p = "preview" /\ viewers /\ ~worker
                \/ p = "force" /\ viewers
                \/ p = "stop" /\ stop /\ sip = "idle"
                \/ p = "maybe" /\ ~viewers}]
  /\ UNCHANGED <<setting, rtsp, sip, lock, audio, video>>

Procedure == [audio |-> "startAudio", preview |-> "startVideo",
              force |-> "force", stop |-> "stopVideo", maybe |-> "maybeStop"]

\* The decisions are carried out in this order
Act(a) ==
  /\ At(a, "act")
  /\ LET plan == thread[a].plan
         Next(p) == thread' = [thread EXCEPT ![a].pc = Procedure[p],
                                             ![a].plan = plan \ {p}]
     IN CASE "audio" \in plan -> Next("audio")
          [] "audio" \notin plan /\ "preview" \in plan -> Next("preview")
          [] plan \cap {"audio", "preview"} = {} /\ "force" \in plan -> Next("force")
          [] plan \in {{"stop"}, {"stop", "maybe"}} -> Next("stop")
          [] plan = {"maybe"} -> Next("maybe")
          [] plan = {} -> Stop(a)
  /\ UNCHANGED <<setting, rtsp, sip, lock, audio, video>>

\* force_video_worker_idr, after a start as after finding a worker
RequestIdr(a) ==
  /\ At(a, "force") /\ Order("other")
  /\ IF a \in Notifiers THEN Go(a, "act") ELSE Stop(a)
  /\ UNCHANGED <<setting, rtsp, sip, lock, audio, worker, procs, hasSip, sends>>

-----------------------------------------------------------------------------
\* The main loop and the snapshot

\* Mutant: nobody looks at the level
ReconcileNever == FALSE

\* Clients are watching and no worker runs: start one
Reconcile ==
  /\ At("main", "idle")
  /\ clients > 0 /\ ~worker /\ CanAskSip("main") /\ sip = "idle"
  /\ Call("main", "startVideo", "force")
  /\ UNCHANGED <<setting, rtsp, sip, lock, audio, video>>

\* snapshot_thread_func: a worker is started for the clients if there are any
SnapshotStarts ==
  /\ At("snapshot", "idle")
  /\ IF ~worker /\ clients > 0 THEN Call("snapshot", "startVideo", "snapshot")
                               ELSE Go("snapshot", "snapshot")
  /\ UNCHANGED <<setting, rtsp, sip, lock, audio, video>>

\* The worker makes it if there is one, else a process of its own
SnapshotLooks ==
  /\ At("snapshot", "snapshot")
  /\ Go("snapshot", IF worker THEN "ask" ELSE "capturing")
  /\ UNCHANGED <<setting, rtsp, sip, lock, audio, video>>

SnapshotAsks ==
  /\ At("snapshot", "ask") /\ Order("other")
  /\ Stop("snapshot")
  /\ UNCHANGED <<setting, rtsp, sip, lock, audio, worker, procs, hasSip, sends>>

SnapshotDone ==
  /\ At("snapshot", "capturing")
  /\ \/ Stop("snapshot")
     \/ clients > 0 /\ ~worker /\ Call("snapshot", "startVideo", "idle")
  /\ UNCHANGED <<setting, rtsp, sip, lock, audio, video>>

-----------------------------------------------------------------------------

Lifecycle(a) ==
  \/ StartAudio(a) \/ MaybeStopAudio(a) \/ StopAudio(a) \/ JoinAudio(a)
  \/ StartVideo(a) \/ Fork(a) \/ StopVideo(a) \/ Reap(a)

SipProgress ==
  \/ SipAttachesVideo \/ SipAttaches \/ SipRestarts \/ SipMarks
  \/ SipReleases \/ SipDetaches \/ SipEnded

\* The steps of a thread that has begun
Progress(a) ==
  \/ Lifecycle(a)
  \/ a \in Notifiers /\ (Notify(a) \/ Decide(a) \/ Act(a))
  \/ a \in Notifiers \cup {"main"} /\ RequestIdr(a)
  \/ a = "sip" /\ SipProgress
  \/ a = "snapshot" /\ (SnapshotLooks \/ SnapshotAsks \/ SnapshotDone)

Trigger ==
  \/ \E a \in Notifiers : ClientsChange(a)
  \/ "sip" \in Others /\ (SipCalls \/ SipEstablishes \/ SipEnds)
  \/ "snapshot" \in Others /\ SnapshotStarts

MainLoop == "main" \in Others /\ Reconcile

Next ==
  \/ \E a \in Actors : Progress(a)
  \/ Trigger
  \/ MainLoop
  \/ InputEnds
  \/ Crash
  \/ PollControl

Spec == Init /\ [][Next]_vars

\* Threads that have begun go on, and the main loop finds its moment
Fairness ==
  /\ \A a \in Actors : WF_vars(Progress(a))
  /\ SF_vars(MainLoop)
  /\ WF_vars(InputEnds)

FairSpec == Spec /\ Fairness

\* ... and no thread is passed over for ever at a lock
LockFairSpec == FairSpec /\ \A a \in Actors : SF_vars(Progress(a))

-----------------------------------------------------------------------------

\* "two concurrent starters ... cannot both observe pid<=0 and fork two
\* workers" (start_video_worker's comment): whoever decides to start one,
\* there is one encoder process at a time, and none that is forgotten.
OneWorker == procs <= 1 /\ (procs = 1 => worker)

\* Once a call has ended, no worker that is shared with RTSP clients, or taken
\* over from them, is left sending to the peer: it does not send, or CLEAR_RTP
\* waits to be read.  The exception is what the pipe loses: a CLEAR_RTP that is
\* written behind a command not read yet, FORCE_IDR for a client or SNAPSHOT,
\* is read with it and not recognised, and the worker goes on (poll_rtp_control
\* takes one command from a read).
NoMediaAfterCall ==
  sip = "idle" /\ lock["session"] = Free =>
    /\ ~target
    /\ sends \/ order = "SET_RTP" => unheard \/ order = "CLEAR_RTP"

\* The encoder and the call's sinks have their owner: there is one worker, and
\* nothing is attached for a call that is over but for an order that was lost.
MediaIsOwned == OneWorker /\ NoMediaAfterCall

\* "if video clients are watching but no worker runs (and SIP does not own the
\* encoder), start one" (the main loop's comment).  (A worker that dies keeps
\* its pid in video_bridge_pid, and is not seen to be absent.)
ViewersServed ==
  ~setting.crashes /\ clients > 0 /\ procs = 0
    ~> procs > 0 \/ clients = 0 \/ sip # "idle"

\* The end of a call is carried out to the end: whatever the RTSP threads do
\* meanwhile, the SIP thread comes out of its callback.
CallEnds == lock["session"] = "sip" ~> lock["session"] # "sip"
=============================================================================
