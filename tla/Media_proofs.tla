---------------------------- MODULE Media_proofs ----------------------------
(***************************************************************************)
(* Proofs about the media, for any number of RTSP threads and any          *)
(* surroundings: MediaSinks, the daemon's threads that share the engines,  *)
(* and VideoWorker, the encoder process with its pipes.                    *)
(***************************************************************************)
EXTENDS MediaSinks, VideoWorker, SequenceTheorems, TLAPS

\* What the arithmetic prover does not see by itself.
LEMMA BooleanValues == \A b : b = TRUE \/ b = FALSE => b \in BOOLEAN
BY Zenon

-----------------------------------------------------------------------------
(* MediaSinks                                                              *)

Locks == {"session", "audio", "video"}

\* Where each procedure of the engines returns to in the SIP thread.
AudioStops == {"maybeStop", "stopAudio", "joinAudio"}
VideoStarts == {"startVideo", "fork"}
VideoStops == {"stopVideo", "reap"}
SipReturns ==
  /\ At("sip", "startAudio") => thread["sip"].ret = "attachVideo"
  /\ thread["sip"].pc \in VideoStarts => thread["sip"].ret = "ended"
  /\ thread["sip"].pc \in AudioStops => thread["sip"].ret = "ended"
  /\ thread["sip"].pc \in VideoStops => thread["sip"].ret \in {"restart", "detach"}

Procedures == {"startAudio"} \cup AudioStops \cup VideoStarts \cup VideoStops
SipSteps == {"idle", "attachVideo", "attach", "restart", "mark", "release",
             "detach", "ended"} \cup Procedures
OtherSteps == {"idle", "notify", "callback", "act", "force", "snapshot", "ask",
               "capturing"} \cup Procedures
Steps == SipSteps \cup OtherSteps
Plans == {"viewers", "audio", "preview", "force", "stop", "maybe"}
Orders == {"SET_RTP", "CLEAR_RTP", "other"}

Thread == [pc : Steps, ret : Steps, plan : SUBSET Plans]

SinksTypeOK ==
  /\ thread \in [Actors -> Thread]
  /\ thread["sip"].pc \in SipSteps /\ SipReturns
  /\ \A a \in Actors \ {"sip"} : /\ thread[a].pc \in OtherSteps
                                 /\ thread[a].ret \in {"idle", "act", "force", "snapshot"}
                                 /\ At(a, "callback") \/ "viewers" \notin thread[a].plan
  /\ sip \in {"idle", "calling", "established"}
  /\ lock \in [Locks -> Actors \cup {Free}]
  /\ target \in BOOLEAN /\ engine \in BOOLEAN /\ input \in BOOLEAN
  /\ worker \in BOOLEAN /\ hasSip \in BOOLEAN /\ sends \in BOOLEAN
  /\ procs \in Nat
  /\ order \in Orders \cup {"none"} /\ unheard \in BOOLEAN

\* A thread in the middle of a start or a stop of the worker has the video
\* lock, the SIP thread in a callback has the session lock.
SinksLocked ==
  /\ \A a \in Actors : thread[a].pc \in {"fork", "reap"} => lock["video"] = a
  /\ lock["session"] = IF At("sip", "idle") THEN Free ELSE "sip"

\* Who is about to fork has found no worker, and nobody has started one since.
ForkFindsNone == \A a \in Actors : At(a, "fork") => ~worker

\* What the SIP thread is doing tells whether the call is over and what is
\* still to be undone for it.
Attaching ==
  \/ thread["sip"].pc \in {"startAudio", "attachVideo", "attach", "restart", "mark"}
  \/ thread["sip"].pc \in VideoStarts
  \/ thread["sip"].pc \in VideoStops /\ thread["sip"].ret = "restart"
Sending ==
  \/ At("sip", "release")
  \/ thread["sip"].pc \in VideoStops /\ thread["sip"].ret = "detach"
Targeting == Sending \/ At("sip", "detach")

\* The worker sends to the peer or is about to, and is not told otherwise.
Aimed == sends \/ order = "SET_RTP"
Undone == unheard \/ order = "CLEAR_RTP"

CallUndone ==
  /\ Attaching => sip = "established"
  /\ Targeting => sip = "idle"
  /\ order # "none" => worker /\ procs = 1
  /\ Aimed => worker /\ procs = 1 /\ (Undone \/ hasSip \/ At("sip", "mark"))
  /\ sip # "established" /\ ~Sending => (Aimed => Undone)
  /\ sip # "established" /\ ~Targeting => ~target

SinksInv == SinksTypeOK /\ SinksLocked /\ OneWorker /\ ForkFindsNone /\ CallUndone

LEMMA SinksStart == Init => SinksInv
<1> SUFFICES ASSUME Init PROVE SinksInv
  OBVIOUS
<1>1. /\ ~target /\ ~engine /\ ~input /\ ~worker /\ ~hasSip /\ ~sends
      /\ order = "none" /\ ~unheard /\ unheard \in BOOLEAN
      /\ target \in BOOLEAN /\ engine \in BOOLEAN /\ input \in BOOLEAN
      /\ worker \in BOOLEAN /\ hasSip \in BOOLEAN /\ sends \in BOOLEAN
  BY Zenon DEF Init
<1>2. "sip" \in Actors
  BY DEF Actors, AllOthers
<1>3. SinksTypeOK
  BY <1>1, <1>2 DEF Init, SinksTypeOK, Idle, At, Locks, Thread, Steps, SipSteps,
     OtherSteps, SipReturns, AudioStops, VideoStarts, VideoStops
<1> QED
  BY <1>1, <1>2, <1>3 DEF Init, SinksInv, SinksLocked, OneWorker, ForkFindsNone,
     CallUndone, Aimed, Undone, Attaching, Sending, Targeting, Idle, At, Locks,
     VideoStarts, VideoStops

\* Where a step, a call and an end leave the threads.
LEMMA GoMoves ==
  ASSUME SinksTypeOK, NEW a \in Actors, NEW step \in Steps, Go(a, step)
  PROVE  /\ thread' \in [Actors -> Thread]
         /\ thread'[a].pc = step /\ thread'[a].ret = thread[a].ret
         /\ thread'[a].plan = thread[a].plan
         /\ \A b \in Actors \ {a} : thread'[b] = thread[b]
BY DEF SinksTypeOK, Go, Thread

LEMMA ReturnMoves ==
  ASSUME SinksTypeOK, NEW a \in Actors, Return(a)
  PROVE  /\ thread' \in [Actors -> Thread]
         /\ thread'[a].pc = thread[a].ret /\ thread'[a].ret = thread[a].ret
         /\ thread'[a].plan = thread[a].plan
         /\ \A b \in Actors \ {a} : thread'[b] = thread[b]
BY DEF SinksTypeOK, Return, Go, Thread

LEMMA CallMoves ==
  ASSUME SinksTypeOK, NEW a \in Actors, NEW proc \in Steps, NEW back \in Steps,
         Call(a, proc, back)
  PROVE  /\ thread' \in [Actors -> Thread]
         /\ thread'[a].pc = proc /\ thread'[a].ret = back
         /\ thread'[a].plan = thread[a].plan
         /\ \A b \in Actors \ {a} : thread'[b] = thread[b]
BY DEF SinksTypeOK, Call, Thread

LEMMA StopMoves ==
  ASSUME SinksTypeOK, NEW a \in Actors, Stop(a)
  PROVE  /\ thread' \in [Actors -> Thread]
         /\ thread'[a].pc = "idle" /\ thread'[a].ret = "idle" /\ thread'[a].plan = {}
         /\ \A b \in Actors \ {a} : thread'[b] = thread[b]
BY DEF SinksTypeOK, Stop, Thread, Idle, Steps, SipSteps

LEMMA PlanMoves ==
  ASSUME SinksTypeOK, NEW a \in Actors, NEW step \in Steps, NEW plan \in SUBSET Plans,
         thread' = [thread EXCEPT ![a].pc = step, ![a].plan = plan]
  PROVE  /\ thread' \in [Actors -> Thread]
         /\ thread'[a].pc = step /\ thread'[a].ret = thread[a].ret
         /\ thread'[a].plan = plan
         /\ \A b \in Actors \ {a} : thread'[b] = thread[b]
BY DEF SinksTypeOK, Thread

\* What a command does to the pipe.
LEMMA OrderMoves ==
  ASSUME SinksTypeOK, NEW command \in Orders, Order(command)
  PROVE  /\ order' \in Orders \cup {"none"} /\ unheard' \in BOOLEAN
         /\ ~(worker /\ procs > 0) => order' = order /\ unheard' = unheard
         /\ worker /\ procs > 0 =>
              /\ order' = IF order = "none" THEN command ELSE order
              /\ command = "other" => unheard' = unheard
              /\ command # "other" => (unheard' <=> order # "none")
<1>1. \/ UNCHANGED <<order, unheard>> /\ ~(worker /\ procs > 0)
      \/ worker /\ procs > 0 /\ order' = IF order = "none" THEN command ELSE order
  BY DEF Order
<1>2. unheard' = unheard \/ unheard' = (order # "none")
  BY DEF Order
<1>3. unheard' \in BOOLEAN
  BY <1>2 DEF SinksTypeOK
<1>4. /\ worker /\ procs > 0 /\ command = "other" => unheard' = unheard
      /\ worker /\ procs > 0 /\ command # "other" => unheard' = (order # "none")
  BY DEF Order
<1>5. /\ order' \in Orders \cup {"none"}
      /\ ~(worker /\ procs > 0) => order' = order /\ unheard' = unheard
      /\ worker /\ procs > 0 => order' = IF order = "none" THEN command ELSE order
  BY <1>1 DEF SinksTypeOK, Order
<1>6. worker /\ procs > 0 /\ command # "other" => (unheard' <=> order # "none")
  BY <1>4, Zenon
<1> QED
  BY <1>3, <1>4, <1>5, <1>6

\* A step of one of the procedures that start and stop the engines.
LEMMA LifecycleKeeps ==
  ASSUME SinksInv, NEW a \in Actors, Lifecycle(a)
  PROVE  SinksInv'
<1>0. "sip" \in Actors /\ SinksTypeOK
  BY DEF Actors, AllOthers, SinksInv
<1> USE MediaAssumption, <1>0
        DEF SinksInv, SinksTypeOK, SinksLocked, OneWorker, ForkFindsNone,
            CallUndone, Aimed, Undone, Attaching, Sending, Targeting, At,
            Acquire, Release,
            Locks, Steps, SipSteps, OtherSteps, Procedures, SipReturns,
            AudioStops, VideoStarts, VideoStops, rtsp, audio, video
<1>1. CASE StartAudio(a)
  BY <1>1, GoMoves, ReturnMoves DEF StartAudio
<1>2. CASE MaybeStopAudio(a)
  BY <1>2, GoMoves, ReturnMoves DEF MaybeStopAudio
<1>3. CASE StopAudio(a)
  <2>1. engine \/ input =>
          ~target' /\ ~engine' /\ target' \in BOOLEAN /\ engine' \in BOOLEAN
    BY <1>3, Zenon DEF StopAudio
  <2> QED
    BY <1>3, <2>1, GoMoves, ReturnMoves DEF StopAudio
<1>4. CASE JoinAudio(a)
  <2>1. ~input' /\ input' \in BOOLEAN
    BY <1>4, Zenon DEF JoinAudio
  <2> QED
    BY <1>4, <2>1, GoMoves, ReturnMoves DEF JoinAudio
<1>5. CASE StartVideo(a)
  BY <1>5, GoMoves, ReturnMoves DEF StartVideo
<1>6. CASE Fork(a)
  <2>1. ~unheard' /\ unheard' \in BOOLEAN /\ order' = "none"
    BY <1>6, Zenon DEF Fork
  <2> QED
    BY <1>6, <2>1, GoMoves, ReturnMoves DEF Fork
<1>7. CASE StopVideo(a)
  BY <1>7, GoMoves, ReturnMoves DEF StopVideo
<1>8. CASE Reap(a)
  <2>1. /\ ~worker' /\ ~hasSip' /\ ~sends' /\ ~unheard' /\ order' = "none"
        /\ unheard' \in BOOLEAN
        /\ worker' \in BOOLEAN /\ hasSip' \in BOOLEAN /\ sends' \in BOOLEAN
    BY <1>8, Zenon DEF Reap
  <2> QED
    BY <1>8, <2>1, GoMoves, ReturnMoves DEF Reap
<1> QED
  BY <1>1, <1>2, <1>3, <1>4, <1>5, <1>6, <1>7, <1>8 DEF Lifecycle

\* A step of the thread that runs the SIP callbacks.
LEMMA SipKeeps ==
  ASSUME SinksInv, SipCalls \/ SipEstablishes \/ SipEnds \/ SipProgress
  PROVE  SinksInv'
<1>0. "sip" \in Actors /\ SinksTypeOK
  BY DEF Actors, AllOthers, SinksInv
<1> USE MediaAssumption, <1>0
        DEF SinksInv, SinksTypeOK, SinksLocked, OneWorker, ForkFindsNone,
            CallUndone, Aimed, Undone, Attaching, Sending, Targeting, At,
            Acquire, Release,
            Locks, Steps, SipSteps, Procedures, SipReturns, AudioStops,
            VideoStarts, VideoStops, rtsp, audio, video
<1>1. CASE SipCalls
  BY <1>1 DEF SipCalls
<1>2. CASE SipEstablishes
  BY <1>2, CallMoves DEF SipEstablishes
<1>3. CASE SipAttachesVideo
  BY <1>3, CallMoves, GoMoves DEF SipAttachesVideo
<1>4. CASE SipAttaches
  <2>1. "SET_RTP" \in Orders /\ Order("SET_RTP")
    BY <1>4 DEF SipAttaches, Orders
  <2> QED
    BY <1>4, <2>1, OrderMoves, CallMoves, GoMoves DEF SipAttaches
<1>5. CASE SipRestarts
  BY <1>5, CallMoves DEF SipRestarts
<1>6. CASE SipMarks
  BY <1>6, GoMoves DEF SipMarks
<1>7. CASE SipEnds
  BY <1>7, GoMoves DEF SipEnds
<1>8. CASE SipReleases
  <2>1. CASE worker /\ clients = 0
    BY <1>8, <2>1, CallMoves DEF SipReleases
  <2>2. CASE ~(worker /\ clients = 0)
    <3>1. (hasSip' <=> hasSip /\ ~worker) /\ hasSip' \in BOOLEAN
      BY <1>8, <2>2, Zenon DEF SipReleases
    <3>2. CASE worker /\ hasSip
      <4>1. "CLEAR_RTP" \in Orders /\ Order("CLEAR_RTP")
        BY <1>8, <2>2, <3>2 DEF SipReleases, Orders
      <4> QED
        BY <1>8, <2>2, <3>1, <3>2, <4>1, OrderMoves, GoMoves DEF SipReleases
    <3>3. CASE ~(worker /\ hasSip)
      BY <1>8, <2>2, <3>1, <3>3, GoMoves DEF SipReleases
    <3> QED
      BY <3>2, <3>3
  <2> QED
    BY <2>1, <2>2
<1>9. CASE SipDetaches
  <2>1. ~target' /\ target' \in BOOLEAN
    BY <1>9, Zenon DEF SipDetaches
  <2> QED
    BY <1>9, <2>1, CallMoves DEF SipDetaches
<1>10. CASE SipEnded
  BY <1>10, StopMoves DEF SipEnded
<1> QED
  BY <1>1, <1>2, <1>3, <1>4, <1>5, <1>6, <1>7, <1>8, <1>9, <1>10 DEF SipProgress

\* A step in which a thread beside the SIP one decides something, or begins.
LEMMA DecisionKeeps ==
  ASSUME SinksInv, NEW a \in Actors \ {"sip"},
         \/ ClientsChange(a) \/ Notify(a) \/ Decide(a) \/ Act(a) \/ RequestIdr(a)
         \/ a = "main" /\ Reconcile
         \/ a = "snapshot" /\ (SnapshotStarts \/ SnapshotLooks \/ SnapshotAsks
                                \/ SnapshotDone)
  PROVE  SinksInv'
<1> DEFINE Elsewhere ==
      /\ thread' \in [Actors -> Thread]
      /\ thread'[a].pc \in OtherSteps \ {"fork", "reap"}
      /\ thread'[a].ret \in {"idle", "act", "force", "snapshot"}
      /\ thread'[a].pc = "callback" \/ "viewers" \notin thread'[a].plan
      /\ \A b \in Actors \ {a} : thread'[b] = thread[b]
<1> DEFINE Ordered ==
      \/ UNCHANGED <<order, unheard>>
      \/ Order("other") /\ "other" \in Orders
<1>1. /\ Elsewhere /\ Ordered
      /\ UNCHANGED <<sip, lock, target, engine, input, worker, procs, hasSip, sends>>
  <2>0. /\ SinksTypeOK /\ a \in Actors
        /\ thread[a].ret \in {"idle", "act", "force", "snapshot"}
        /\ thread[a].pc = "callback" \/ "viewers" \notin thread[a].plan
    BY DEF SinksInv, SinksTypeOK, At
  <2> USE <2>0 DEF OtherSteps, Procedures, AudioStops, VideoStarts, VideoStops,
                   Steps, At
  <2>1. CASE ClientsChange(a)
    BY <2>1, GoMoves DEF ClientsChange, audio, video
  <2>2. CASE Notify(a)
    <3>1. /\ UNCHANGED <<sip, lock, audio, video>>
          /\ \E t \in {Idle} \cup [pc : {"callback"}, ret : {"act"},
                                   plan : SUBSET {"viewers"}] :
               thread' = [thread EXCEPT ![a] = t]
      BY <2>2 DEF Notify
    <3> QED
      BY <3>1 DEF SinksTypeOK, Thread, Idle, Plans, audio, video
  <2>3. CASE Decide(a)
    <3>1. /\ At(a, "callback")
          /\ UNCHANGED <<setting, rtsp, sip, lock, audio, video>>
          /\ \E plan \in SUBSET {"audio", "preview", "force", "stop", "maybe"} :
               thread' = [thread EXCEPT ![a].pc = "act", ![a].plan = plan]
      BY <2>3, Zenon DEF Decide
    <3>2. PICK plan \in SUBSET {"audio", "preview", "force", "stop", "maybe"} :
            thread' = [thread EXCEPT ![a].pc = "act", ![a].plan = plan]
      BY <3>1
    <3>3. plan \in SUBSET Plans /\ "viewers" \notin plan
      BY DEF Plans
    <3>4. /\ thread' \in [Actors -> Thread]
          /\ thread'[a].pc = "act" /\ thread'[a].ret = thread[a].ret
          /\ thread'[a].plan = plan
          /\ \A b \in Actors \ {a} : thread'[b] = thread[b]
      BY <2>0, <3>2, <3>3, PlanMoves DEF OtherSteps, Steps
    <3> QED
      BY <2>0, <3>1, <3>3, <3>4 DEF OtherSteps, audio, video
  <2>4. CASE Act(a)
    <3> DEFINE Chosen == {"audio", "preview", "force", "stop", "maybe"}
    <3>1. /\ At(a, "act")
          /\ UNCHANGED <<setting, rtsp, sip, lock, audio, video>>
      BY <2>4 DEF Act
    <3>2. thread[a].plan \in SUBSET Chosen
      BY <3>1 DEF SinksTypeOK, Thread, Plans
    <3>3. \/ "audio" \in thread[a].plan
          \/ "audio" \notin thread[a].plan /\ "preview" \in thread[a].plan
          \/ /\ thread[a].plan \cap {"audio", "preview"} = {}
             /\ "force" \in thread[a].plan
          \/ thread[a].plan \in {{"stop"}, {"stop", "maybe"}}
          \/ thread[a].plan = {"maybe"}
          \/ thread[a].plan = {}
      BY <3>2
    <3>4. \/ Stop(a)
          \/ \E p \in Chosen :
               thread' = [thread EXCEPT ![a].pc = Procedure[p],
                                        ![a].plan = thread[a].plan \ {p}]
      BY <2>4, <3>3, Zenon DEF Act
    <3>5. CASE Stop(a)
      BY <3>1, <3>5, StopMoves DEF audio, video
    <3>6. ASSUME NEW p \in Chosen,
                 thread' = [thread EXCEPT ![a].pc = Procedure[p],
                                          ![a].plan = thread[a].plan \ {p}]
          PROVE  Elsewhere
      <4>1. Procedure[p] \in {"startAudio", "startVideo", "force", "stopVideo",
                            "maybeStop"}
        BY DEF Procedure
      <4>2. /\ thread[a].plan \ {p} \in SUBSET Plans
            /\ "viewers" \notin thread[a].plan \ {p}
        BY <3>2 DEF Plans
      <4>3. /\ thread' \in [Actors -> Thread]
            /\ thread'[a].pc = Procedure[p] /\ thread'[a].ret = thread[a].ret
            /\ thread'[a].plan = thread[a].plan \ {p}
            /\ \A b \in Actors \ {a} : thread'[b] = thread[b]
        <5>1. Procedure[p] \in Steps
          BY <4>1
        <5> QED
          BY ONLY <2>0, <3>6, <4>2, <5>1, PlanMoves
      <4> HIDE DEF Chosen
      <4> QED
        BY <2>0, <3>6, <4>1, <4>2, <4>3
    <3> QED
      BY <3>1, <3>4, <3>5, <3>6 DEF audio, video
  <2>5. CASE a = "main" /\ Reconcile
    <3>1. /\ Call(a, "startVideo", "force") /\ At(a, "idle")
          /\ UNCHANGED <<setting, rtsp, sip, lock, audio, video>>
      BY <2>5, Zenon DEF Reconcile
    <3>2. "startVideo" \in Steps /\ "force" \in Steps
      BY DEF Steps
    <3>3. /\ thread' \in [Actors -> Thread]
          /\ thread'[a].pc = "startVideo" /\ thread'[a].ret = "force"
          /\ thread'[a].plan = thread[a].plan
          /\ \A b \in Actors \ {a} : thread'[b] = thread[b]
      BY ONLY <2>0, <3>1, <3>2, CallMoves
    <3> QED
      BY <3>1, <3>3 DEF audio, video
  <2>6. CASE a = "snapshot" /\ (SnapshotStarts \/ SnapshotLooks \/ SnapshotDone)
    <3>1. /\ UNCHANGED <<setting, rtsp, sip, lock, audio, video>>
          /\ ~At(a, "callback")
          /\ \/ Call(a, "startVideo", "snapshot") \/ Call(a, "startVideo", "idle")
             \/ Go(a, "snapshot") \/ Go(a, "ask") \/ Go(a, "capturing") \/ Stop(a)
      BY <2>6 DEF SnapshotStarts, SnapshotLooks, SnapshotDone
    <3>2. UNCHANGED <<sip, lock, target, engine, input, worker, procs, hasSip, sends>>
          /\ Ordered
      BY <3>1 DEF audio, video
    <3>3. Elsewhere
      BY <3>1, CallMoves, GoMoves, StopMoves
    <3> QED
      BY <3>2, <3>3
  <2>7. CASE a = "snapshot" /\ SnapshotAsks
    BY <2>7, StopMoves DEF SnapshotAsks, Orders, audio
  <2>8. CASE RequestIdr(a)
    BY <2>8, StopMoves, GoMoves DEF RequestIdr, Orders, audio
  <2> QED
    BY <2>1, <2>2, <2>3, <2>4, <2>5, <2>6, <2>7, <2>8
<1>2. "sip" \in Actors
  BY DEF Actors, AllOthers
<1>3. thread'["sip"] = thread["sip"]
  BY <1>1, <1>2
<1>4. /\ order' \in Orders \cup {"none"} /\ unheard' \in BOOLEAN
      /\ order' # order => worker /\ procs > 0 /\ order' = "other" /\ order = "none"
      /\ unheard' <=> unheard
  BY <1>1, OrderMoves DEF SinksInv, SinksTypeOK
<1> QED
  BY <1>1, <1>2, <1>3, <1>4
  DEF SinksInv, SinksTypeOK, SipReturns, SinksLocked, OneWorker, ForkFindsNone, CallUndone,
      Aimed, Undone, Attaching, Sending, Targeting, At, video

LEMMA SinksStep == SinksInv /\ [Next]_vars => SinksInv'
<1> SUFFICES ASSUME SinksInv, Next \/ UNCHANGED vars PROVE SinksInv'
  OBVIOUS
<1>1. ASSUME NEW a \in Actors, Progress(a) PROVE SinksInv'
  <2>1. CASE Lifecycle(a)
    BY <2>1, LifecycleKeeps
  <2>2. CASE a \in Notifiers /\ (Notify(a) \/ Decide(a) \/ Act(a))
    <3>1. a \in Actors \ {"sip"}
      BY <2>2, MediaAssumption DEF Notifiers, AllOthers
    <3> QED
      BY <2>2, <3>1, DecisionKeeps
  <2>3. CASE a = "sip" /\ SipProgress
    BY <2>3, SipKeeps
  <2>4. CASE a = "snapshot" /\ (SnapshotLooks \/ SnapshotAsks \/ SnapshotDone)
    BY <2>4, DecisionKeeps
  <2>5. CASE a \in Notifiers \cup {"main"} /\ RequestIdr(a)
    <3>1. a \in Actors \ {"sip"}
      BY <2>5, MediaAssumption DEF Notifiers, AllOthers
    <3> QED
      BY <2>5, <3>1, DecisionKeeps
  <2> QED
    BY <1>1, <2>1, <2>2, <2>3, <2>4, <2>5 DEF Progress
<1>2. ASSUME Trigger PROVE SinksInv'
  <2>1. ASSUME NEW a \in Notifiers, ClientsChange(a) PROVE SinksInv'
    <3>1. a \in Actors \ {"sip"}
      BY MediaAssumption DEF Notifiers, Actors, AllOthers
    <3> QED
      BY <2>1, <3>1, DecisionKeeps
  <2>2. CASE "snapshot" \in Others /\ SnapshotStarts
    BY <2>2, DecisionKeeps DEF Actors, AllOthers
  <2> QED
    BY <1>2, <2>1, <2>2, SipKeeps DEF Trigger
<1>3. ASSUME MainLoop PROVE SinksInv'
  BY <1>3, DecisionKeeps DEF MainLoop, Actors, AllOthers
<1>4. CASE InputEnds
  <2>1. ~input' /\ input' \in BOOLEAN
    BY <1>4, Zenon DEF InputEnds
  <2> QED
    BY <1>4, <2>1
    DEF InputEnds, SinksInv, SinksTypeOK, SipReturns, SinksLocked, OneWorker,
        ForkFindsNone, CallUndone, Aimed, Undone, Attaching, Sending, Targeting,
        At, video
<1>5. CASE Crash
  <2>1. /\ ~sends' /\ sends' \in BOOLEAN
        /\ ~unheard' /\ unheard' \in BOOLEAN /\ order' = "none"
    BY <1>5, Zenon DEF Crash
  <2> QED
    BY <1>5, <2>1
    DEF Crash, SinksInv, SinksTypeOK, SipReturns, SinksLocked, OneWorker,
        ForkFindsNone, CallUndone, Aimed, Undone, Attaching, Sending, Targeting, At, audio
<1>6. CASE PollControl
  <2>1. /\ sends' \in BOOLEAN
        /\ sends' => order = "SET_RTP" \/ (order = "other" /\ sends)
    <3>1. CASE order = "SET_RTP"
      <4>1. sends' \in BOOLEAN
        BY <1>6, <3>1, Zenon DEF PollControl
      <4>2. sends' => order = "SET_RTP" \/ (order = "other" /\ sends)
        BY <3>1
      <4> QED
        BY ONLY <4>1, <4>2
    <3>2. CASE order = "CLEAR_RTP"
      <4>1. sends' = FALSE
        BY <1>6, <3>2 DEF PollControl
      <4> QED
        BY <4>1, Zenon
    <3>3. CASE order = "other"
      BY <1>6, <3>3 DEF PollControl, SinksInv, SinksTypeOK
    <3> QED
      BY <1>6, <3>1, <3>2, <3>3 DEF PollControl, SinksInv, SinksTypeOK, Orders
  <2>2. order' = "none"
    BY <1>6 DEF PollControl
  <2> QED
    BY <1>6, <2>1, <2>2
    DEF PollControl, SinksInv, SinksTypeOK, SipReturns, SinksLocked, OneWorker,
        ForkFindsNone, CallUndone, Aimed, Undone, Attaching, Sending, Targeting,
        At, audio
<1>7. CASE UNCHANGED vars
  BY <1>7 DEF vars, rtsp, audio, video, SinksInv, SinksTypeOK, SipReturns, SinksLocked,
     OneWorker, ForkFindsNone, CallUndone, Aimed, Undone, Attaching, Sending, Targeting, At
<1> QED
  BY <1>1, <1>2, <1>3, <1>4, <1>5, <1>6, <1>7 DEF Next

\* Who holds the engines, the pipe and the call at every step of every thread
\* (SinksInv), which is inductive together with the types.
THEOREM SinksInvariant == Spec => []SinksInv
BY SinksStart, SinksStep, PTL DEF Spec

\* One encoder process at a time and none forgotten, and once a call is over no
\* worker sends to its peer or will, but for a CLEAR_RTP that waits in the pipe
\* or was lost behind another command (MediaIsOwned), whichever threads decide
\* at the same time, however many RTSP clients there are and whenever the
\* worker dies.
THEOREM EnginesAreOwned == Spec => []MediaIsOwned
<1>1. "sip" # Free
  BY MediaAssumption DEF Actors, AllOthers
<1>2. SinksInv => MediaIsOwned
  BY <1>1 DEF SinksInv, SinksLocked, CallUndone, Aimed, Undone, Attaching, Sending, Targeting,
     MediaIsOwned, NoMediaAfterCall, At, VideoStops, VideoStarts
<1> QED
  BY <1>2, SinksInvariant, PTL

-----------------------------------------------------------------------------
(* VideoWorker                                                             *)

Chunks == [gen : Nat, part : {1, 2}]
Commands == {"SET_RTP", "CLEAR_RTP", "CLEAR_RTSP", "SNAPSHOT", "FORCE_IDR"}
Files == {"none", "part", "whole"}

Encoders ==
  [run : {"off", "starting", "on", "stopping"}, gen : Nat, rtp : BOOLEAN,
   sink : BOOLEAN, next : Chunks \cup {None}, snap : BOOLEAN, jpeg : BOOLEAN]

WorkerTypeOK ==
  /\ encoder \in Encoders
  /\ control \in Seq(Commands)
  /\ asked \in [rtp : BOOLEAN, sink : BOOLEAN]
  /\ missed \in BOOLEAN /\ halves \in BOOLEAN /\ torn \in BOOLEAN
  /\ pipe \in Seq(Chunks)
  /\ reader \in [held : Chunks \cup {None}, stalled : BOOLEAN, open : BOOLEAN]
  /\ file \in Files
  /\ shot \in [step : {"idle", "ask", "wait", "own", "writing"}, published : Files]

OffIsIdle == encoder.run = "off" => encoder.next = None

\* Where the worker sends once it has read the one command that waits.
HearsRtp ==
  IF control = << >> THEN encoder.rtp
  ELSE Head(control) = "SET_RTP" \/ (Head(control) # "CLEAR_RTP" /\ encoder.rtp)
HearsSink == (control = << >> \/ Head(control) # "CLEAR_RTSP") /\ encoder.sink

CommandsFollowed ==
  On /\ ~missed /\ Len(control) < 2
    => (asked.rtp <=> HearsRtp) /\ (asked.sink <=> HearsSink)

\* d comes behind c in a stream of whole packets.
Joins(c, d) == IF c.part = 1 THEN d = [c EXCEPT !.part = 2] ELSE d.part = 1

\* The chunk before the one that the worker is about to write.
Before == IF pipe = << >> THEN reader.held ELSE pipe[Len(pipe)]

\* What the reader holds, what is in the pipe and what the worker is about to
\* write are a stream of whole packets.
StreamIsWhole ==
  /\ reader.held.part # 2
  /\ pipe # << >> => Joins(reader.held, pipe[1])
  /\ \A i \in 1 .. Len(pipe) - 1 : Joins(pipe[i], pipe[i + 1])
  /\ IF encoder.next.part = 2 THEN Before = [encoder.next EXCEPT !.part = 1]
                              ELSE Before.part # 1

Streaming == ~halves => ~torn /\ (reader.open => StreamIsWhole)

\* A picture in the making is not one that is waited for.
PartsAreWaitedFor == file = "part" => shot.step \in {"idle", "writing"}

WorkerInv ==
  /\ WorkerTypeOK /\ OffIsIdle /\ CommandsFollowed
  /\ Streaming
  /\ PartsAreWaitedFor /\ PictureIsWhole

\* Sequences at their two ends.
LEMMA AppendEnds ==
  ASSUME NEW S, NEW q \in Seq(S), NEW e \in S
  PROVE  /\ Append(q, e) \in Seq(S) /\ Append(q, e) # << >>
         /\ Len(Append(q, e)) = Len(q) + 1 /\ Len(q) \in Nat
         /\ Append(q, e)[Len(q) + 1] = e
         /\ \A i \in 1 .. Len(q) : Append(q, e)[i] = q[i]
         /\ q = << >> <=> Len(q) = 0
         /\ q = << >> => Head(Append(q, e)) = e
<1>1. Len(q) \in Nat /\ (q = << >> <=> Len(q) = 0)
  BY LenProperties, EmptySeq
<1>2. /\ Append(q, e) \in Seq(S) /\ Append(q, e) # << >>
      /\ Len(Append(q, e)) = Len(q) + 1
      /\ Append(q, e)[Len(q) + 1] = e
      /\ \A i \in 1 .. Len(q) : Append(q, e)[i] = q[i]
  BY AppendProperties
<1>3. Head(Append(q, e)) = Append(q, e)[1]
  BY <1>2
<1> QED
  BY <1>1, <1>2, <1>3

LEMMA TailEnds ==
  ASSUME NEW S, NEW q \in Seq(S), q # << >>
  PROVE  /\ Head(q) \in S /\ Tail(q) \in Seq(S) /\ Head(q) = q[1]
         /\ Len(Tail(q)) = Len(q) - 1 /\ Len(q) \in Nat \ {0}
         /\ \A i \in 1 .. Len(q) - 1 : Tail(q)[i] = q[i + 1]
         /\ Tail(q) = << >> <=> Len(q) = 1
<1>1. Len(q) \in Nat \ {0}
  BY LenProperties, EmptySeq
<1>2. /\ Head(q) \in S /\ Tail(q) \in Seq(S) /\ Head(q) = q[1]
      /\ Len(Tail(q)) = Len(q) - 1
      /\ \A i \in 1 .. Len(q) - 1 : Tail(q)[i] = q[i + 1]
  BY <1>1, HeadTailProperties
<1>3. Tail(q) = << >> <=> Len(Tail(q)) = 0
  BY <1>2, LenProperties, EmptySeq
<1> QED
  BY <1>1, <1>2, <1>3

LEMMA WorkerStart == VideoInit => WorkerInv
<1> SUFFICES ASSUME VideoInit PROVE WorkerInv
  OBVIOUS
<1>1. missed \in BOOLEAN /\ halves \in BOOLEAN /\ torn \in BOOLEAN
  BY Zenon DEF VideoInit
<1>2. encoder \in Encoders
  BY BooleanValues DEF VideoInit, Encoders, NoWorker
<1>3. /\ asked \in [rtp : BOOLEAN, sink : BOOLEAN]
      /\ reader \in [held : Chunks \cup {None}, stalled : BOOLEAN, open : BOOLEAN]
  BY BooleanValues DEF VideoInit
<1>4. WorkerTypeOK
  BY <1>1, <1>2, <1>3, EmptySeq DEF VideoInit, WorkerTypeOK, Files
<1> QED
  BY <1>4
  DEF VideoInit, WorkerInv, OffIsIdle, CommandsFollowed, Streaming, StreamIsWhole, On,
      Before, PartsAreWaitedFor, PictureIsWhole, NoWorker, None

\* A command is put behind the ones that wait.
LEMMA Told ==
  ASSUME WorkerTypeOK, NEW c \in Commands, Tell(c)
  PROVE  /\ On /\ control' \in Seq(Commands) /\ control' # << >>
         /\ Len(control') = Len(control) + 1 /\ Len(control) \in Nat
         /\ control = << >> => Head(control') = c
         /\ control = << >> <=> Len(control) = 0
BY AppendEnds DEF WorkerTypeOK, Tell

\* What a command changes.
LEMMA DoneFacts ==
  ASSUME encoder \in Encoders, NEW c \in Commands, NEW ok \in BOOLEAN
  PROVE  /\ Done(c, ok) \in Encoders
         /\ Done(c, ok).run = encoder.run /\ Done(c, ok).next = encoder.next
         /\ Done(c, ok).rtp <=> \/ c = "SET_RTP" /\ ok
                                \/ c \notin {"SET_RTP", "CLEAR_RTP"} /\ encoder.rtp
         /\ Done(c, ok).sink <=> c # "CLEAR_RTSP" /\ encoder.sink
<1> USE DEF Done, Encoders
<1>1. CASE c = "SET_RTP"
  BY <1>1
<1>2. CASE c = "CLEAR_RTP"
  BY <1>2, BooleanValues
<1>3. CASE c = "CLEAR_RTSP"
  BY <1>3, BooleanValues
<1>4. CASE c = "SNAPSHOT"
  <2>1. encoder.snap \/ ok \in BOOLEAN
    BY Zenon
  <2> QED
    BY <1>4, BooleanValues
<1>5. CASE c = "FORCE_IDR"
  BY <1>5
<1> QED
  BY <1>1, <1>2, <1>3, <1>4, <1>5 DEF Commands

\* The variables keep their types.
LEMMA EncoderTyped ==
  ASSUME WorkerTypeOK, VideoAssumption, VideoNext
  PROVE  encoder' \in Encoders
<1> USE DEF WorkerTypeOK, Encoders
<1>1. CASE StartWorker
  <2>1. PICK rtp \in BOOLEAN :
          encoder' = [NoWorker EXCEPT !.run = "starting", !.gen = encoder.gen + 1,
                                      !.rtp = rtp, !.sink = reader.open]
    BY <1>1, Zenon DEF StartWorker
  <2>2. FALSE \in BOOLEAN /\ rtp \in BOOLEAN /\ reader.open \in BOOLEAN
    BY Zenon, BooleanValues
  <2>3. encoder' = [run |-> "starting", gen |-> encoder.gen + 1, rtp |-> rtp,
                    sink |-> reader.open, next |-> None, snap |-> FALSE, jpeg |-> FALSE]
    BY <2>1, <2>2 DEF NoWorker
  <2> QED
    BY <2>2, <2>3, BooleanValues
<1>2. CASE StopRtsp
  BY <1>2 DEF StopRtsp
<1>3. CASE Terminate
  BY <1>3 DEF Terminate
<1>4. CASE Kill
  BY <1>4, BooleanValues DEF Kill, Gone, NoWorker
<1>5. CASE SetUp
  BY <1>5 DEF SetUp
<1>6. CASE WorkerEnds
  BY <1>6, BooleanValues DEF WorkerEnds, Gone, NoWorker
<1>7. CASE Poll
  <2>1. Head(control) \in Commands
    BY <1>7, TailEnds DEF Poll
  <2>2. PICK ok \in BOOLEAN : encoder' = Done(Head(control), ok)
    BY <1>7 DEF Poll, Obeys
  <2> HIDE DEF Encoders
  <2> QED
    BY <2>1, <2>2, DoneFacts
<1>8. CASE TakeFrame
  <2>1. [gen |-> encoder.gen, part |-> 1] \in Chunks
    BY DEF Chunks
  <2> QED
    BY <1>8, <2>1 DEF TakeFrame
<1>9. CASE WriteChunk
  <2>1. encoder.next \in Chunks
    BY <1>9 DEF WriteChunk
  <2>2. [encoder.next EXCEPT !.part = 2] \in Chunks
    BY <2>1 DEF Chunks
  <2> QED
    BY <1>9, <2>2 DEF WriteChunk
<1>10. CASE TakeJpeg
  BY <1>10, BooleanValues DEF TakeJpeg
<1>11. CASE WriteJpeg
  BY <1>11, BooleanValues DEF WriteJpeg
<1>12. CASE RenameJpeg
  BY <1>12, BooleanValues DEF RenameJpeg
<1>13. CASE TellTarget \/ ForceIdr \/ ReadChunk \/ SendEnds \/ ShotBegins \/
          ShotAsks \/ ShotWaits \/ OwnOpens \/ OwnEnds
  <2>1. encoder' = encoder
    BY <1>13 DEF TellTarget, ForceIdr, ReadChunk, SendEnds, ShotBegins,
       ShotAsks, ShotWaits, OwnOpens, OwnEnds
  <2> QED
    BY <2>1
<1> QED
  BY <1>1, <1>2, <1>3, <1>4, <1>5, <1>6, <1>7, <1>8, <1>9, <1>10, <1>11, <1>12,
     <1>13
  DEF VideoNext, Daemon, Works, Snapshot

LEMMA ControlTyped ==
  ASSUME WorkerTypeOK, VideoNext
  PROVE  /\ control' \in Seq(Commands) /\ missed' \in BOOLEAN
         /\ asked' \in [rtp : BOOLEAN, sink : BOOLEAN]
<1> USE EmptySeq DEF WorkerTypeOK
<1>1. CASE StartWorker
  BY <1>1, BooleanValues DEF StartWorker
<1>2. CASE TellTarget
  BY <1>2, Told DEF TellTarget, Commands
<1>3. CASE ForceIdr
  BY <1>3, Told DEF ForceIdr, Commands
<1>4. CASE StopRtsp
  BY <1>4, Told, BooleanValues DEF StopRtsp, Commands
<1>5. CASE Kill
  BY <1>5, BooleanValues DEF Kill, Gone
<1>6. CASE WorkerEnds
  BY <1>6, BooleanValues DEF WorkerEnds, Gone
<1>7. CASE Poll
  BY <1>7 DEF Poll
<1>8. CASE ShotAsks
  BY <1>8, Told DEF ShotAsks, Commands
<1>9. CASE Terminate \/ SetUp \/ TakeFrame \/ WriteChunk \/ TakeJpeg \/
          WriteJpeg \/ RenameJpeg \/ ReadChunk \/ SendEnds \/ ShotBegins \/
          ShotWaits \/ OwnOpens \/ OwnEnds
  <2>1. UNCHANGED << control, asked, missed >>
    BY <1>9 DEF Terminate, SetUp, TakeFrame, WriteChunk, TakeJpeg, WriteJpeg,
       RenameJpeg, ReadChunk, SendEnds, ShotBegins, ShotWaits, OwnOpens,
       OwnEnds, commandVars
  <2> QED
    BY <2>1
<1> QED
  BY <1>1, <1>2, <1>3, <1>4, <1>5, <1>6, <1>7, <1>8, <1>9
  DEF VideoNext, Daemon, Works, Snapshot

LEMMA PipeTyped ==
  ASSUME WorkerTypeOK, VideoNext
  PROVE  /\ pipe' \in Seq(Chunks) /\ halves' \in BOOLEAN /\ torn' \in BOOLEAN
         /\ reader' \in [held : Chunks \cup {None}, stalled : BOOLEAN, open : BOOLEAN]
<1> USE EmptySeq DEF WorkerTypeOK
<1>1. CASE StopRtsp
  BY <1>1, BooleanValues DEF StopRtsp
<1>2. CASE Kill
  BY <1>2 DEF Kill
<1>3. CASE WriteChunk
  <2>1. CASE reader.open
    <3>1. pipe' = Append(pipe, encoder.next) /\ encoder.next \in Chunks
      BY <1>3, <2>1 DEF WriteChunk, Encoders
    <3> QED
      BY <1>3, <3>1, AppendEnds DEF WriteChunk
  <2>2. CASE ~reader.open
    BY <1>3, <2>2 DEF WriteChunk
  <2> QED
    BY <2>1, <2>2
<1>4. CASE ReadChunk
  <2>1. Head(pipe) \in Chunks /\ Tail(pipe) \in Seq(Chunks) /\ pipe' = Tail(pipe)
    BY <1>4, TailEnds DEF ReadChunk
  <2>2. CASE reader.held = None
    BY <1>4, <2>1, <2>2 DEF ReadChunk
  <2>3. CASE reader.held # None
    <3>1. /\ reader' \in {[reader EXCEPT !.held = None, !.stalled = b] : b \in BOOLEAN}
          /\ torn' = (torn \/ reader.held # [Head(pipe) EXCEPT !.part = 1]
                            \/ Head(pipe).part = 1)
          /\ UNCHANGED halves
      BY <1>4, <2>3 DEF ReadChunk
    <3>2. torn' \in BOOLEAN
      BY <3>1, Zenon
    <3> QED
      BY <2>1, <3>1, <3>2
  <2> QED
    BY <2>2, <2>3
<1>5. CASE SendEnds
  BY <1>5, BooleanValues DEF SendEnds
<1>6. CASE StartWorker \/ TellTarget \/ ForceIdr \/ Terminate \/ SetUp \/
          WorkerEnds \/ Poll \/ TakeFrame \/ TakeJpeg \/ WriteJpeg \/ RenameJpeg
          \/ ShotBegins \/ ShotAsks \/ ShotWaits \/ OwnOpens \/ OwnEnds
  <2>1. UNCHANGED << pipe, reader, halves, torn >>
    BY <1>6 DEF StartWorker, TellTarget, ForceIdr, Terminate, SetUp, WorkerEnds,
       Poll, TakeFrame, TakeJpeg, WriteJpeg, RenameJpeg, ShotBegins, ShotAsks,
       ShotWaits, OwnOpens, OwnEnds, sinkVars
  <2> QED
    BY <2>1
<1> QED
  BY <1>1, <1>2, <1>3, <1>4, <1>5, <1>6
  DEF VideoNext, Daemon, Works, Snapshot

LEMMA ShotTyped ==
  ASSUME WorkerTypeOK, VideoNext
  PROVE  /\ file' \in Files
         /\ shot' \in [step : {"idle", "ask", "wait", "own", "writing"},
                       published : Files]
<1> USE DEF WorkerTypeOK, Files, Shoot
<1>1. CASE Poll
  BY <1>1 DEF Poll
<1>2. CASE WriteJpeg
  BY <1>2 DEF WriteJpeg, Beside
<1>3. CASE RenameJpeg
  BY <1>3 DEF RenameJpeg
<1>4. CASE ShotBegins
  BY <1>4 DEF ShotBegins
<1>5. CASE ShotAsks
  BY <1>5 DEF ShotAsks
<1>6. CASE ShotWaits
  BY <1>6 DEF ShotWaits
<1>7. CASE OwnOpens
  BY <1>7 DEF OwnOpens
<1>8. CASE OwnEnds
  BY <1>8 DEF OwnEnds
<1>9. CASE StartWorker \/ TellTarget \/ ForceIdr \/ StopRtsp \/ Terminate \/
          Kill \/ SetUp \/ WorkerEnds \/ TakeFrame \/ WriteChunk \/ TakeJpeg \/
          ReadChunk \/ SendEnds
  <2>1. UNCHANGED << file, shot >>
    BY <1>9 DEF StartWorker, TellTarget, ForceIdr, StopRtsp, Terminate, Kill,
       SetUp, WorkerEnds, TakeFrame, WriteChunk, TakeJpeg, ReadChunk, SendEnds,
       shotVars
  <2> QED
    BY <2>1
<1> QED
  BY <1>1, <1>2, <1>3, <1>4, <1>5, <1>6, <1>7, <1>8, <1>9
  DEF VideoNext, Daemon, Works, Snapshot

\* No process is in the middle of a packet when there is none.
LEMMA OffKept ==
  ASSUME WorkerTypeOK, OffIsIdle, VideoNext
  PROVE  OffIsIdle'
<1> USE DEF WorkerTypeOK, Encoders, OffIsIdle
<1>1. CASE StartWorker
  <2>1. encoder'.run = "starting"
    BY <1>1 DEF StartWorker, NoWorker
  <2> QED
    BY <2>1
<1>2. CASE StopRtsp
  BY <1>2 DEF StopRtsp
<1>3. CASE Kill
  BY <1>3 DEF Kill, Gone, NoWorker
<1>4. CASE WorkerEnds
  BY <1>4 DEF WorkerEnds, Gone, NoWorker
<1>5. CASE Poll
  <2>1. encoder.run = "on"
    BY <1>5 DEF Poll, Loops
  <2>2. PICK ok \in BOOLEAN : encoder' = Done(Head(control), ok)
    BY <1>5 DEF Poll, Obeys
  <2>3. encoder'.run = encoder.run
    BY <1>5, <2>2, TailEnds, DoneFacts DEF Poll
  <2> QED
    BY <2>1, <2>3
<1>6. CASE TakeFrame
  BY <1>6 DEF TakeFrame, Loops
<1>7. CASE WriteChunk
  BY <1>7 DEF WriteChunk
<1>8. CASE TellTarget \/ ForceIdr \/ Terminate \/ SetUp \/ TakeJpeg \/ WriteJpeg
          \/ RenameJpeg \/ ReadChunk \/ SendEnds \/ ShotBegins \/ ShotAsks \/
          ShotWaits \/ OwnOpens \/ OwnEnds
  <2>1. encoder'.next = encoder.next /\ (encoder'.run = "off" => encoder.run = "off")
    BY <1>8 DEF TellTarget, ForceIdr, Terminate, SetUp, TakeJpeg, WriteJpeg,
       RenameJpeg, ReadChunk, SendEnds, ShotBegins, ShotAsks, ShotWaits,
       OwnOpens, OwnEnds
  <2> QED
    BY <2>1
<1> QED
  BY <1>1, <1>2, <1>3, <1>4, <1>5, <1>6, <1>7, <1>8
  DEF VideoNext, Daemon, Works, Snapshot

\* A worker is told things one behind the other and reads the first.
LEMMA CommandsKept ==
  ASSUME WorkerTypeOK, CommandsFollowed, VideoNext
  PROVE  CommandsFollowed'
<1> USE DEF WorkerTypeOK, Encoders, CommandsFollowed, HearsRtp, HearsSink, On
<1>1. CASE StartWorker
  <2>1. PICK rtp \in BOOLEAN :
          /\ asked' = [rtp |-> rtp, sink |-> reader.open]
          /\ encoder' = [NoWorker EXCEPT !.run = "starting", !.gen = encoder.gen + 1,
                                         !.rtp = rtp, !.sink = reader.open]
    BY <1>1, Zenon DEF StartWorker
  <2>2. encoder'.rtp = asked'.rtp /\ encoder'.sink = asked'.sink
    BY <2>1 DEF NoWorker
  <2> QED
    BY <1>1, <2>2 DEF StartWorker
<1>2. CASE TellTarget
  <2>1. /\ Tell(IF asked.rtp THEN "CLEAR_RTP" ELSE "SET_RTP")
        /\ asked'.rtp <=> ~asked.rtp
        /\ asked'.sink <=> asked.sink
        /\ UNCHANGED << encoder, missed >>
    BY <1>2 DEF TellTarget
  <2> QED
    BY <2>1, Told DEF Commands
<1>3. CASE ForceIdr
  <2>1. Tell("FORCE_IDR") /\ UNCHANGED << encoder, asked, missed >>
    BY <1>3 DEF ForceIdr
  <2> QED
    BY <2>1, Told DEF Commands
<1>4. CASE StopRtsp
  <2>1. CASE On /\ asked.rtp
    <3>1. /\ Tell("CLEAR_RTSP") /\ UNCHANGED << encoder, missed >>
          /\ asked'.rtp <=> asked.rtp
          /\ ~asked'.sink
      BY <1>4, <2>1 DEF StopRtsp
    <3> QED
      BY <3>1, Told DEF Commands
  <2>2. CASE ~(On /\ asked.rtp)
    BY <1>4, <2>2 DEF StopRtsp
  <2> QED
    BY <2>1, <2>2
<1>5. CASE Kill
  BY <1>5 DEF Kill, Gone, NoWorker
<1>6. CASE WorkerEnds
  BY <1>6 DEF WorkerEnds, Gone, NoWorker
<1>7. CASE Poll
  <2>1. /\ Head(control) \in Commands /\ control' = << >>
        /\ Len(control) \in Nat \ {0}
    BY <1>7, TailEnds DEF Poll
  <2>2. PICK ok \in BOOLEAN : /\ encoder' = Done(Head(control), ok)
                             /\ missed' = (missed \/ Len(control) > 1 \/ ~ok)
    BY <1>7 DEF Poll, Obeys
  <2>3. /\ encoder'.run = encoder.run
        /\ encoder'.rtp <=> \/ Head(control) = "SET_RTP" /\ ok
                            \/ Head(control) \notin {"SET_RTP", "CLEAR_RTP"} /\ encoder.rtp
        /\ encoder'.sink <=> Head(control) # "CLEAR_RTSP" /\ encoder.sink
    BY <2>1, <2>2, DoneFacts DEF Encoders
  <2>4. ~missed' => ~missed /\ ~(Len(control) > 1) /\ ok
    BY <2>2, Zenon
  <2> QED
    BY <1>7, <2>1, <2>3, <2>4 DEF Poll
<1>8. CASE ShotAsks
  <2>1. CASE Tell("SNAPSHOT") /\ UNCHANGED << encoder, asked, missed >>
    BY <2>1, Told DEF Commands
  <2>2. CASE UNCHANGED << control, encoder, asked, missed >>
    BY <2>2
  <2> QED
    BY <1>8, <2>1, <2>2 DEF ShotAsks
<1>9. CASE Terminate \/ SetUp \/ TakeFrame \/ WriteChunk \/ TakeJpeg \/ WriteJpeg
             \/ RenameJpeg
  <2>1. UNCHANGED << control, asked, missed >>
    BY <1>9, Zenon DEF Terminate, SetUp, TakeFrame, WriteChunk, TakeJpeg, WriteJpeg,
       RenameJpeg, commandVars
  <2>2. /\ On' => On
        /\ encoder'.rtp = encoder.rtp /\ encoder'.sink = encoder.sink
    <3>1. CASE Terminate
      BY <3>1 DEF Terminate
    <3>2. CASE SetUp
      BY <3>2 DEF SetUp
    <3>3. CASE TakeFrame \/ WriteChunk
      BY <3>3 DEF TakeFrame, WriteChunk
    <3>4. CASE TakeJpeg \/ WriteJpeg \/ RenameJpeg
      BY <3>4 DEF TakeJpeg, WriteJpeg, RenameJpeg
    <3> QED
      BY <1>9, <3>1, <3>2, <3>3, <3>4
  <2> QED
    BY <2>1, <2>2
<1>10. CASE ReadChunk \/ SendEnds \/ ShotBegins \/ ShotWaits \/ OwnOpens \/ OwnEnds
  <2>1. UNCHANGED << encoder, control, asked, missed >>
    BY <1>10 DEF ReadChunk, SendEnds, ShotBegins, ShotWaits, OwnOpens, OwnEnds,
       commandVars
  <2> QED
    BY <2>1
<1> QED
  BY <1>1, <1>2, <1>3, <1>4, <1>5, <1>6, <1>7, <1>8, <1>9, <1>10
  DEF VideoNext, Daemon, Works, Snapshot

\* No picture in the making is waited for, or published.
LEMMA PicturesKept ==
  ASSUME WorkerTypeOK, PartsAreWaitedFor, PictureIsWhole, VideoNext
  PROVE  PartsAreWaitedFor' /\ PictureIsWhole'
<1> USE DEF WorkerTypeOK, PartsAreWaitedFor, PictureIsWhole, Shoot
<1>1. CASE Poll
  BY <1>1 DEF Poll
<1>2. CASE WriteJpeg
  BY <1>2 DEF WriteJpeg, Beside
<1>3. CASE RenameJpeg
  BY <1>3 DEF RenameJpeg
<1>4. CASE ShotBegins
  BY <1>4 DEF ShotBegins
<1>5. CASE ShotAsks
  BY <1>5 DEF ShotAsks
<1>6. CASE ShotWaits
  BY <1>6 DEF ShotWaits
<1>7. CASE OwnOpens
  BY <1>7 DEF OwnOpens
<1>8. CASE OwnEnds
  BY <1>8 DEF OwnEnds
<1>9. CASE StartWorker \/ TellTarget \/ ForceIdr \/ StopRtsp \/ Terminate \/
          Kill \/ SetUp \/ WorkerEnds \/ TakeFrame \/ WriteChunk \/ TakeJpeg \/
          ReadChunk \/ SendEnds
  <2>1. UNCHANGED << file, shot >>
    BY <1>9 DEF StartWorker, TellTarget, ForceIdr, StopRtsp, Terminate, Kill,
       SetUp, WorkerEnds, TakeFrame, WriteChunk, TakeJpeg, ReadChunk, SendEnds,
       shotVars
  <2> QED
    BY <2>1
<1> QED
  BY <1>1, <1>2, <1>3, <1>4, <1>5, <1>6, <1>7, <1>8, <1>9
  DEF VideoNext, Daemon, Works, Snapshot

\* The worker writes a packet whole unless it is killed, and a pipe that loses
\* its chunks is not read again.
LEMMA StreamKept ==
  ASSUME WorkerTypeOK, OffIsIdle, Streaming, VideoNext
  PROVE  Streaming'
<1> USE DEF Streaming
<1>1. CASE WriteChunk
  <2>1. CASE reader.open
    <3>1. /\ pipe' = Append(pipe, encoder.next) /\ encoder.next \in Chunks
          /\ encoder' = [encoder EXCEPT !.next = IF @.part = 1
                                                 THEN [@ EXCEPT !.part = 2] ELSE None]
          /\ UNCHANGED <<reader, halves, torn>>
      BY <1>1, <2>1 DEF WriteChunk, WorkerTypeOK, Encoders
    <3>2. /\ pipe' # << >> /\ Len(pipe') = Len(pipe) + 1 /\ Len(pipe) \in Nat
          /\ pipe'[Len(pipe) + 1] = encoder.next
          /\ \A i \in 1 .. Len(pipe) : pipe'[i] = pipe[i]
          /\ pipe = << >> <=> Len(pipe) = 0
      BY <3>1, AppendEnds DEF WorkerTypeOK
    <3>3. ASSUME ~halves PROVE StreamIsWhole'
      <4>1. /\ reader.held.part # 2
            /\ pipe # << >> => Joins(reader.held, pipe[1])
            /\ \A i \in 1 .. Len(pipe) - 1 : Joins(pipe[i], pipe[i + 1])
            /\ IF encoder.next.part = 2 THEN Before = [encoder.next EXCEPT !.part = 1]
                                        ELSE Before.part # 1
        BY <2>1, <3>3 DEF StreamIsWhole
      <4>2. Joins(Before, encoder.next)
        BY <3>1, <4>1 DEF Joins, Chunks, Before, WorkerTypeOK, Encoders, None
      <4>3. Joins(reader.held, pipe'[1])
        BY <3>2, <4>1, <4>2 DEF Before
      <4>4. ASSUME NEW i \in 1 .. Len(pipe') - 1
            PROVE  Joins(pipe'[i], pipe'[i + 1])
        <5>1. CASE i = Len(pipe)
          BY <3>2, <4>2, <5>1 DEF Before
        <5>2. CASE i \in 1 .. Len(pipe) - 1
          BY <3>2, <4>1, <5>2
        <5> QED
          BY <3>2, <5>1, <5>2
      <4>5. Before' = encoder.next
        BY <3>2 DEF Before
      <4>6. IF encoder'.next.part = 2 THEN encoder.next = [encoder'.next EXCEPT !.part = 1]
                                      ELSE encoder.next.part # 1
        BY <3>1 DEF WorkerTypeOK, Encoders, Chunks, None
      <4> QED
        BY <3>1, <4>1, <4>3, <4>4, <4>5, <4>6 DEF StreamIsWhole, Joins
    <3> QED
      BY <3>1, <3>3
  <2>2. CASE ~reader.open
    BY <1>1, <2>2 DEF WriteChunk
  <2> QED
    BY <2>1, <2>2
<1>2. CASE ReadChunk
  <2>1. /\ reader.open /\ pipe # << >> /\ pipe' = Tail(pipe)
        /\ UNCHANGED <<encoder, halves>>
    BY <1>2 DEF ReadChunk
  <2>2. /\ Head(pipe) \in Chunks /\ Head(pipe) = pipe[1]
        /\ Len(Tail(pipe)) = Len(pipe) - 1 /\ Len(pipe) \in Nat \ {0}
        /\ \A i \in 1 .. Len(pipe) - 1 : Tail(pipe)[i] = pipe[i + 1]
        /\ Tail(pipe) = << >> <=> Len(pipe) = 1
    BY <2>1, TailEnds DEF WorkerTypeOK
  <2>3. ASSUME ~halves PROVE ~torn' /\ StreamIsWhole'
    <3>1. /\ reader.held.part # 2 /\ ~torn
          /\ Joins(reader.held, pipe[1])
          /\ \A i \in 1 .. Len(pipe) - 1 : Joins(pipe[i], pipe[i + 1])
          /\ IF encoder.next.part = 2 THEN Before = [encoder.next EXCEPT !.part = 1]
                                      ELSE Before.part # 1
      BY <2>1, <2>3 DEF StreamIsWhole
    <3>2. /\ reader'.held = (IF reader.held = None THEN Head(pipe) ELSE None)
          /\ ~torn' /\ reader'.held.part # 2
      <4>1. CASE reader.held = None
        <5>1. Head(pipe).part = 1
          BY <2>2, <3>1, <4>1 DEF Joins, None
        <5>2. reader' = [reader EXCEPT !.held = Head(pipe)] /\ torn' = torn
          BY <1>2, <4>1, <5>1 DEF ReadChunk
        <5> QED
          BY <3>1, <4>1, <5>1, <5>2 DEF WorkerTypeOK
      <4>2. CASE reader.held # None
        <5>1. /\ reader.held.part = 1
              /\ Head(pipe) = [reader.held EXCEPT !.part = 2]
          BY <2>2, <3>1, <4>2 DEF Joins, WorkerTypeOK, Chunks
        <5>2. reader.held = [Head(pipe) EXCEPT !.part = 1] /\ Head(pipe).part # 1
          BY <4>2, <5>1 DEF WorkerTypeOK, Chunks
        <5>3. /\ reader' \in {[reader EXCEPT !.held = None, !.stalled = b] : b \in BOOLEAN}
              /\ torn' = (torn \/ reader.held # [Head(pipe) EXCEPT !.part = 1]
                                \/ Head(pipe).part = 1)
          BY <1>2, <4>2, Zenon DEF ReadChunk
        <5>5. reader'.held = None
          BY <5>3 DEF WorkerTypeOK
        <5>4. ~torn'
          BY <3>1, <5>2, <5>3, Zenon
        <5> QED
          BY <4>2, <5>5, <5>4 DEF None
      <4> QED
        BY <4>1, <4>2
    <3>3. Tail(pipe) # << >> => Joins(reader'.held, Tail(pipe)[1])
      <4>1. CASE reader.held = None
        <5>1. Head(pipe).part = 1
          BY <2>2, <3>1, <4>1 DEF Joins, None
        <5>2. ASSUME Tail(pipe) # << >>
              PROVE  Tail(pipe)[1] = pipe[2] /\ Joins(pipe[1], pipe[2])
          <6>1. 1 \in 1 .. Len(pipe) - 1
            BY <2>2, <5>2
          <6>2. Tail(pipe)[1] = pipe[1 + 1] /\ Joins(pipe[1], pipe[1 + 1])
            BY ONLY <2>2, <3>1, <6>1, Zenon
          <6>3. 1 + 1 = 2
            OBVIOUS
          <6> QED
            BY <6>2, <6>3, Zenon
        <5> QED
          BY <2>2, <3>2, <4>1, <5>2
      <4>2. CASE reader.held # None
        <5>1. Head(pipe).part = 2
          BY <2>2, <3>1, <4>2 DEF Joins, WorkerTypeOK, Chunks
        <5>2. ASSUME Tail(pipe) # << >>
              PROVE  Tail(pipe)[1] = pipe[2] /\ Joins(pipe[1], pipe[2])
          <6>1. 1 \in 1 .. Len(pipe) - 1
            BY <2>2, <5>2
          <6>2. Tail(pipe)[1] = pipe[1 + 1] /\ Joins(pipe[1], pipe[1 + 1])
            BY ONLY <2>2, <3>1, <6>1, Zenon
          <6>3. 1 + 1 = 2
            OBVIOUS
          <6> QED
            BY <6>2, <6>3, Zenon
        <5> QED
          BY <2>2, <3>2, <4>2, <5>1, <5>2 DEF Joins, None
      <4> QED
        BY <4>1, <4>2
    <3>4. \A i \in 1 .. Len(Tail(pipe)) - 1 : Joins(Tail(pipe)[i], Tail(pipe)[i + 1])
      BY <2>2, <3>1
    <3>5. IF encoder.next.part = 2 THEN Before' = [encoder.next EXCEPT !.part = 1]
                                   ELSE Before'.part # 1
      <4>1. CASE Tail(pipe) = << >>
        BY <2>1, <2>2, <3>1, <3>2, <4>1
        DEF Before, Joins, WorkerTypeOK, Encoders, Chunks, None
      <4>2. CASE Tail(pipe) # << >>
        <5>1. Before' = Before
          BY <2>1, <2>2, <4>2 DEF Before
        <5> QED
          BY <3>1, <5>1
      <4> QED
        BY <4>1, <4>2
    <3> QED
      BY <2>1, <3>2, <3>3, <3>4, <3>5 DEF StreamIsWhole
  <2> QED
    BY <2>1, <2>3
<1>3. CASE TakeFrame
  BY <1>3 DEF TakeFrame, WorkerTypeOK, Encoders, Busy, StreamIsWhole, Before, None, Joins,
     sinkVars
<1>4. CASE StartWorker
  <2>1. encoder'.next = None /\ UNCHANGED << pipe, reader, halves, torn >>
    BY <1>4 DEF StartWorker, NoWorker, sinkVars
  <2>2. encoder.next = None
    BY <1>4 DEF StartWorker, OffIsIdle
  <2> QED
    BY <2>1, <2>2 DEF StreamIsWhole, Before, Joins
<1>5. CASE WorkerEnds
  BY <1>5 DEF WorkerEnds, Gone, HeedsStop, Busy, WorkerTypeOK, Encoders, NoWorker, None,
     StreamIsWhole, Before, Joins, sinkVars
<1>6. CASE Kill
  BY <1>6 DEF Kill, Gone, WorkerTypeOK, Encoders, NoWorker, None, StreamIsWhole,
     Before, Joins
<1>7. CASE StopRtsp
  BY <1>7 DEF StopRtsp
<1>8. CASE \/ TellTarget \/ ForceIdr \/ Terminate \/ SetUp \/ Poll \/ TakeJpeg
           \/ WriteJpeg \/ RenameJpeg \/ SendEnds \/ Snapshot
  <2>1. /\ UNCHANGED <<pipe, halves, torn>>
        /\ encoder'.next = encoder.next
        /\ reader'.held = reader.held /\ reader'.open = reader.open
    BY <1>8 DEF TellTarget, ForceIdr, Terminate, SetUp, Poll, TakeJpeg, WriteJpeg,
       RenameJpeg, SendEnds, Snapshot, ShotBegins, ShotAsks, ShotWaits, OwnOpens,
       OwnEnds, Obeys, Done, WorkerTypeOK, Encoders, sinkVars
  <2> QED
    BY <2>1 DEF StreamIsWhole, Before, Joins
<1> QED
  BY <1>1, <1>2, <1>3, <1>4, <1>5, <1>6, <1>7, <1>8 DEF VideoNext, Daemon, Works

LEMMA WorkerStep == WorkerInv /\ [VideoNext]_videoVars => WorkerInv'
<1>1. ASSUME WorkerInv, VideoNext PROVE WorkerInv'
  <2>1. WorkerTypeOK'
    BY <1>1, VideoAssumption, EncoderTyped, ControlTyped, PipeTyped, ShotTyped
    DEF WorkerInv, WorkerTypeOK
  <2>2. /\ OffIsIdle' /\ CommandsFollowed' /\ Streaming'
        /\ PartsAreWaitedFor' /\ PictureIsWhole'
    BY <1>1, OffKept, CommandsKept, StreamKept, PicturesKept DEF WorkerInv
  <2> QED
    BY <2>1, <2>2 DEF WorkerInv
<1>2. ASSUME WorkerInv, UNCHANGED videoVars PROVE WorkerInv'
  <2>1. WorkerTypeOK'
    BY <1>2
    DEF videoVars, commandVars, sinkVars, shotVars, WorkerInv, WorkerTypeOK
  <2> QED
    BY <1>2, <2>1
    DEF videoVars, commandVars, sinkVars, shotVars, WorkerInv,
        OffIsIdle, CommandsFollowed, HearsRtp, HearsSink, On, Streaming,
        StreamIsWhole, Before, PartsAreWaitedFor, PictureIsWhole
<1> QED
  BY <1>1, <1>2

\* The commands in the pipe are those the last one given needs, and each chunk
\* continues the one before it (WorkerInv), at every step of daemon and worker.
THEOREM WorkerInvariant == VideoSpec => []WorkerInv
BY WorkerStart, WorkerStep, PTL DEF VideoSpec

\* A worker that has read its commands sends where it was last told to
\* (SinksFollowCommands), for every size of the pipe and any number of workers,
\* commands and snapshots.
THEOREM WorkerObeys == VideoSpec => []SinksFollowCommands
<1>1. ASSUME WorkerInv, On, control = << >>, ~missed
      PROVE  [rtp |-> encoder.rtp, sink |-> encoder.sink] = asked
  <2>1. (asked.rtp <=> encoder.rtp) /\ (asked.sink <=> encoder.sink)
    BY <1>1, EmptySeq DEF WorkerInv, CommandsFollowed, HearsRtp, HearsSink
  <2>2. /\ asked = [rtp |-> asked.rtp, sink |-> asked.sink]
        /\ asked.rtp \in BOOLEAN /\ asked.sink \in BOOLEAN
        /\ encoder.rtp \in BOOLEAN /\ encoder.sink \in BOOLEAN
    BY <1>1 DEF WorkerInv, WorkerTypeOK, Encoders
  <2>3. asked.rtp = encoder.rtp /\ asked.sink = encoder.sink
    BY <2>1, <2>2, Zenon
  <2> QED
    BY <2>2, <2>3, Zenon
<1>2. WorkerInv => SinksFollowCommands
  BY <1>1, Zenon DEF SinksFollowCommands
<1> QED
  BY <1>2, WorkerInvariant, PTL

\* What leaves the worker is whole packets and whole pictures (OutputIsWhole),
\* wherever a packet is cut in two and however a worker ends.
THEOREM OutputStaysWhole == VideoSpec => []OutputIsWhole
<1>1. WorkerInv => OutputIsWhole
  BY DEF WorkerInv, Streaming, OutputIsWhole, PacketsAreWhole
<1> QED
  BY <1>1, WorkerInvariant, PTL
=============================================================================
