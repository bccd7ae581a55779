-------------------------- MODULE IntercomLine_proofs --------------------------
(***************************************************************************)
(* Proofs about the line to the panel: IntercomLine, who holds it, in any  *)
(* surroundings.                                                           *)
(***************************************************************************)
EXTENDS IntercomLine, SequenceTheorems, TLAPS

\* What the arithmetic prover does not see by itself.
LEMMA BooleanValues == \A b : b = TRUE \/ b = FALSE => b \in BOOLEAN
BY Zenon

\* Where ensure_intercom_call_open and close_intercom_call return to, and what
\* a thread may be at.
Returns == {"idle", "sipActive", "ended", "syncOut", "syncOpened", "unlock",
            "captured", "dingOpened", "tested"}
Commanding == {"start", "started", "stopped"}
LineSteps == Returns \cup Commanding
               \cup {"ensure", "close", "clear", "terminate", "sync", "syncLook",
                     "syncClose", "unlocked", "dingCall", "elapsed"}
SerialSteps == {"idle", "terminate", "close", "stopped", "clear", "ended"}

Threads == [pc : LineSteps, ret : Returns, result : {-1, 0, 1}, seen : BOOLEAN]
LineLocks == {"session", "command", "rtsp"}

LineTypeOK ==
  /\ setting \in Settings
  /\ thread \in [AllActors -> Threads]
  /\ thread["serial"].pc \in SerialSteps /\ thread["serial"].ret \in {"idle", "ended"}
  /\ lock \in [LineLocks -> AllActors \cup {Free}]
  /\ frames \in Seq({"HANG_UP", "START_CALL"})
  /\ viewers \in BOOLEAN

\* A command is sent, and its outcome noted, under the command mutex.
CommandIsHeld ==
  \A a \in AllActors : thread[a].pc \in Commanding => lock["command"] = a

\* A START_CALL that nothing ended is known, or about to be, and nobody who has
\* sent a STOP_CALL is about to forget it.
AskedIsKnown ==
  /\ asked \in {"no", "yes", "lost"}
  /\ asked = "yes" => active \/ \E a \in AllActors : At(a, "started")
  /\ asked = "yes" => \A a \in AllActors : ~At(a, "stopped")

LineInv == LineTypeOK /\ CommandIsHeld /\ AskedIsKnown

\* With an obliging panel and no SIP call that answers, call_active differs
\* from the line only while a command or a HANG_UP is under way.
Agreeing ==
  /\ thread["sip"] = Idle /\ sip # "established"
  /\ \A a \in AllActors : ~At(a, "clear")
  /\ frames # <<>> => frames = <<"HANG_UP">> /\ line = Down /\ At("serial", "idle")
  /\ line # Down => active \/ \E a \in AllActors : At(a, "started")
  /\ active => \/ line # Down \/ frames # <<>>
               \/ \E a \in AllActors : At(a, "stopped")
  /\ \A a \in AllActors : /\ At(a, "started") => line # Down
                          /\ At(a, "stopped") => line = Down
AgreeInv == Obliging /\ "sip" \notin setting.actors => Agreeing

\* With SIP calls alone, a call that is established has its line, is asking for
\* it, or is about to be ended.
OnlySip ==
  setting.actors = {"sip"} /\ ~setting.panelCalls /\ ~setting.sendFailures
Opening == {"ensure", "start", "started", "sipActive"}
Ends == {"close", "stopped", "clear", "ended"}
Answering ==
  /\ \A a \in AllActors \ {"sip", "serial"} : thread[a] = Idle
  /\ thread["sip"].pc \in {"idle"} \cup Opening \cup Ends
  /\ ~simulated
  /\ \A i \in DOMAIN frames : frames[i] = "HANG_UP"
  /\ \A a \in AllActors : /\ thread[a].pc \in Opening \cup Ends => lock["session"] = a
                          /\ thread[a].pc \in {"close", "stopped"} => thread[a].ret = "ended"
                          /\ thread[a].pc \in Ends => sip = "idle"
  /\ thread["sip"].pc \in Opening => sip = "established"
  /\ thread["sip"].pc \in {"ensure", "start", "started"} =>
       thread["sip"].ret = "sipActive" /\ ~active
  /\ active => \/ sip = "established"
               \/ \E a \in AllActors : thread[a].pc \in {"close", "stopped"}
  /\ sip = "established" =>
       \/ line # Down \/ frames # <<>> \/ At("serial", "terminate")
       \/ thread["sip"].pc \in {"ensure", "start"}
AnswerInv == OnlySip => Answering

-----------------------------------------------------------------------------
\* What the helpers of a thread do to it and to the others.
Turned(a) ==
  /\ thread' \in [AllActors -> Threads]
  /\ \A b \in AllActors \ {a} : thread'[b] = thread[b]

LEMMA GoTurns ==
  ASSUME thread \in [AllActors -> Threads], NEW a \in AllActors,
         NEW step \in LineSteps, Go(a, step)
  PROVE  /\ Turned(a) /\ thread'[a].pc = step
         /\ thread'[a].ret = thread[a].ret
BY DEF Go, Turned, Threads

LEMMA StopTurns ==
  ASSUME thread \in [AllActors -> Threads], NEW a \in AllActors, Stop(a)
  PROVE  Turned(a) /\ thread'[a] = Idle /\ thread'[a].pc = "idle"
         /\ thread'[a].ret = "idle"
BY DEF Stop, Turned, Threads, Idle, LineSteps, Returns

LEMMA CallTurns ==
  ASSUME thread \in [AllActors -> Threads], NEW a \in AllActors,
         NEW proc \in LineSteps, NEW back \in Returns, Call(a, proc, back)
  PROVE  Turned(a) /\ thread'[a].pc = proc /\ thread'[a].ret = back
BY DEF Call, Turned, Threads

LEMMA ReturnTurns ==
  ASSUME thread \in [AllActors -> Threads], NEW a \in AllActors,
         NEW value \in {-1, 0, 1}, Return(a, value)
  PROVE  /\ Turned(a) /\ thread'[a].pc = thread[a].ret
         /\ thread'[a].ret = "idle"
         /\ thread[a].ret = "idle" => thread'[a] = Idle
<1>1. thread[a] \in Threads /\ Idle \in Threads
  BY DEF Idle, Threads, LineSteps, Returns
<1> DEFINE back == [pc |-> thread[a].ret, ret |-> "idle", result |-> value,
                    seen |-> thread[a].seen]
<1>2. back \in Threads
  BY <1>1 DEF Threads, LineSteps, Returns
<1>3. /\ thread' = [thread EXCEPT ![a] = thread'[a]]
      /\ thread'[a] = IF thread[a].ret = "idle" THEN Idle ELSE back
  BY DEF Return
<1>4. Idle.pc = "idle" /\ Idle.ret = "idle"
      /\ back.pc = thread[a].ret /\ back.ret = "idle"
  BY DEF Idle
<1> HIDE DEF back
<1>5. thread'[a] \in Threads /\ thread'[a].pc = thread[a].ret
      /\ thread'[a].ret = "idle" /\ (thread[a].ret = "idle" => thread'[a] = Idle)
  BY <1>1, <1>2, <1>3, <1>4
<1>6. Turned(a)
  BY <1>3, <1>5 DEF Turned
<1> QED
  BY <1>5, <1>6

LEMMA SyncTurns ==
  ASSUME thread \in [AllActors -> Threads], NEW a \in AllActors,
         NEW present \in BOOLEAN, StartSync(a, present)
  PROVE  Turned(a) /\ thread'[a].pc = "sync"
BY DEF StartSync, Turned, Threads, LineSteps

\* A step of thread a that neither commands the line nor looks at a frame.
Passes(a) ==
  /\ Turned(a)
  /\ UNCHANGED <<setting, active, asked, mcu>>
  /\ lock' \in [LineLocks -> AllActors \cup {Free}]
  /\ lock'["command"] = lock["command"] /\ viewers' \in BOOLEAN
  /\ thread[a].pc \notin Commanding /\ thread'[a].pc \notin Commanding
  /\ a = "serial" => /\ thread[a].pc # "idle" /\ thread'[a].pc \in SerialSteps
                     /\ thread'[a].ret \in {"idle", "ended"}
  /\ a = "sip" /\ thread[a].pc = "idle" => "sip" \in setting.actors
  /\ thread'[a].pc = "clear" => sip = "established"
  /\ sip' = "established" => sip = "established" \/ "sip" \in setting.actors

LEMMA EndPasses ==
  ASSUME LineTypeOK, NEW a \in {"sip", "serial", "door"}, End(a),
         thread[a].pc \in {"idle", "terminate", "unlock"},
         a = "serial" => thread[a].pc # "idle",
         a = "sip" => "sip" \in setting.actors
  PROVE  Passes(a)
<1>1. a \in AllActors /\ thread \in [AllActors -> Threads]
  BY DEF AllActors, LineTypeOK
<1>2. /\ UNCHANGED <<setting, state, mcu, rtsp, viewers>> /\ sip' = "idle"
      /\ lock' = [lock EXCEPT !["session"] = a]
  BY DEF End, Acquire
<1>3. \/ Call(a, "close", "ended")
      \/ sip = "established" /\ Go(a, "clear")
      \/ Go(a, "ended")
  BY Zenon DEF End
<1>4. /\ Turned(a) /\ thread'[a].pc \in {"close", "clear", "ended"}
      /\ thread'[a].pc = "clear" => sip = "established"
      /\ thread'[a].ret \in {"ended", thread[a].ret}
  BY <1>1, <1>3, GoTurns, CallTurns DEF LineSteps, Returns
<1> QED
  BY <1>1, <1>2, <1>4 DEF Passes, LineTypeOK, state, LineLocks, Commanding, SerialSteps

\* Every other step of a thread but those that have to do with the line.
LEMMA SyncPasses ==
  ASSUME LineTypeOK, NEW a \in Rtsp, Sync(a)
  PROVE  Passes(a)
<1>1. /\ a \in AllActors /\ a # "serial" /\ a # "sip"
      /\ thread \in [AllActors -> Threads] /\ viewers \in BOOLEAN
  BY DEF Rtsp, AllActors, LineTypeOK
<1>2. /\ UNCHANGED <<setting, state, mcu, sip, viewers>>
      /\ lock' \in [LineLocks -> AllActors \cup {Free}]
      /\ lock'["command"] = lock["command"]
      /\ thread[a].pc \in {"sync", "syncLook", "syncOpened", "syncClose", "syncOut"}
  BY <1>1 DEF Sync, SyncEnter, SyncLook, SyncOpened, SyncClose, SyncOut, At, Acquire,
     Release, others, LineTypeOK, LineLocks
<1>3. \/ \E step \in {"syncClose", "syncOut", "syncLook"} : Go(a, step)
      \/ \E proc \in {"ensure", "close"}, back \in {"syncOpened", "syncOut"} :
           Call(a, proc, back)
      \/ Stop(a)
  BY Zenon DEF Sync, SyncEnter, SyncLook, SyncOpened, SyncClose, SyncOut
<1>4. Turned(a) /\ thread'[a].pc \notin Commanding \cup {"clear"}
  BY <1>1, <1>3, GoTurns, CallTurns, StopTurns DEF LineSteps, Returns, Commanding
<1> QED
  BY <1>1, <1>2, <1>4 DEF Passes, state, Commanding

LEMMA UserPasses ==
  ASSUME LineTypeOK
  PROVE  /\ DoorPressed \/ DoorUnlock \/ DoorUnlocked => Passes("door")
         /\ SnapshotStart \/ SnapshotDone => Passes("snapshot")
         /\ DingStart \/ DingCall \/ TestStart \/ TestDone => Passes("ding")
         /\ TimeoutElapses \/ TimeoutCloses => Passes("timeout")
         /\ ViewersChange => Passes("client")
         /\ Reconcile => Passes("main")
<1> USE DEF At, state, others
<1>1. /\ thread \in [AllActors -> Threads] /\ viewers \in BOOLEAN
      /\ lock \in [LineLocks -> AllActors \cup {Free}]
      /\ {"door", "snapshot", "ding", "client", "main", "timeout"} \subseteq AllActors
  BY DEF LineTypeOK, AllActors
<1>2. {"idle", "unlock", "unlocked", "captured", "dingOpened", "ensure", "close", "sync",
       "elapsed", "tested"}
        \subseteq LineSteps \ (Commanding \cup {"clear"})
  BY DEF LineSteps, Commanding, Returns
<1>3. {"idle", "unlock", "captured", "dingOpened", "tested"} \subseteq Returns
  BY DEF Returns
<1>4. ASSUME DoorPressed
      PROVE  Passes("door")
  <2>1. Go("door", "unlock") \/ Call("door", "ensure", "unlock")
    BY <1>4, Zenon DEF DoorPressed
  <2>2. Turned("door") /\ thread'["door"].pc \in {"unlock", "ensure"}
    BY <1>1, <1>2, <1>3, <2>1, GoTurns, CallTurns
  <2> QED
    BY <1>1, <1>4, <2>2 DEF DoorPressed, Passes, Commanding
<1>5. ASSUME DoorUnlock
      PROVE  Passes("door")
  <2>1. CASE End("door")
    BY <1>5, <2>1, EndPasses DEF DoorUnlock
  <2>2. CASE ~End("door")
    <3>1. Go("door", "unlocked") \/ Stop("door")
      BY <1>5, <2>2 DEF DoorUnlock
    <3>2. Turned("door") /\ thread'["door"].pc \in {"unlocked", "idle"}
      BY <1>1, <1>2, <3>1, GoTurns, StopTurns
    <3> QED
      BY <1>1, <1>5, <2>2, <3>2 DEF DoorUnlock, Passes, Commanding
  <2> QED
    BY <2>1, <2>2
<1>6. ASSUME DoorUnlocked
      PROVE  Passes("door")
  <2>1. Stop("door") \/ Call("door", "close", "idle")
    BY <1>6, Zenon DEF DoorUnlocked
  <2>2. Turned("door") /\ thread'["door"].pc \in {"idle", "close"}
    BY <1>1, <1>2, <1>3, <2>1, StopTurns, CallTurns
  <2> QED
    BY <1>1, <1>6, <2>2 DEF DoorUnlocked, Passes, Commanding
<1>7. ASSUME SnapshotStart
      PROVE  Passes("snapshot")
  <2>1. Call("snapshot", "ensure", "captured")
    BY <1>7, Zenon DEF SnapshotStart
  <2>2. Turned("snapshot") /\ thread'["snapshot"].pc = "ensure"
    BY <1>1, <1>2, <1>3, <2>1, CallTurns
  <2> QED
    BY <1>1, <1>7, <2>2 DEF SnapshotStart, Passes, Commanding
<1>8. ASSUME SnapshotDone
      PROVE  Passes("snapshot")
  <2>1. Stop("snapshot") \/ Call("snapshot", "close", "idle")
    BY <1>8, Zenon DEF SnapshotDone
  <2>2. Turned("snapshot") /\ thread'["snapshot"].pc \in {"idle", "close"}
    BY <1>1, <1>2, <1>3, <2>1, StopTurns, CallTurns
  <2> QED
    BY <1>1, <1>8, <2>2 DEF SnapshotDone, Passes, Commanding
<1>9. ASSUME DingStart
      PROVE  Passes("ding")
  <2>1. Call("ding", "ensure", "dingOpened")
    BY <1>9, Zenon DEF DingStart
  <2>2. Turned("ding") /\ thread'["ding"].pc = "ensure"
    BY <1>1, <1>2, <1>3, <2>1, CallTurns
  <2> QED
    BY <1>1, <1>9, <2>2 DEF DingStart, Passes, Commanding
<1>10. ASSUME DingCall
       PROVE  Passes("ding")
  <2>1. Stop("ding") \/ Call("ding", "close", "idle")
    BY <1>10, Zenon DEF DingCall
  <2>2. Turned("ding") /\ thread'["ding"].pc \in {"idle", "close"}
    BY <1>1, <1>2, <1>3, <2>1, StopTurns, CallTurns
  <2> QED
    BY <1>1, <1>10, <2>2 DEF DingCall, Passes, Commanding
<1>11. ASSUME ViewersChange
       PROVE  Passes("client")
  <2>1. StartSync("client", ~viewers)
    BY <1>11, Zenon DEF ViewersChange
  <2>2. Turned("client") /\ thread'["client"].pc = "sync"
    BY <1>1, <1>2, <2>1, SyncTurns
  <2> QED
    BY <1>1, <1>11, <2>2 DEF ViewersChange, Passes, Commanding
<1>12. ASSUME Reconcile
       PROVE  Passes("main")
  <2>1. StartSync("main", viewers)
    BY <1>12, Zenon DEF Reconcile
  <2>2. Turned("main") /\ thread'["main"].pc = "sync"
    BY <1>1, <1>2, <2>1, SyncTurns
  <2> QED
    BY <1>1, <1>12, <2>2 DEF Reconcile, Passes, Commanding
<1>13. ASSUME TimeoutElapses \/ TimeoutCloses
       PROVE  Passes("timeout")
  <2>1. Go("timeout", "elapsed") \/ Stop("timeout") \/ Call("timeout", "close", "idle")
    BY <1>13, Zenon DEF TimeoutElapses, TimeoutCloses
  <2>2. Turned("timeout") /\ thread'["timeout"].pc \in {"elapsed", "idle", "close"}
    BY <1>1, <1>2, <1>3, <2>1, GoTurns, StopTurns, CallTurns
  <2> QED
    BY <1>1, <1>13, <2>2 DEF TimeoutElapses, TimeoutCloses, Passes, Commanding
<1>14. ASSUME TestStart \/ TestDone
       PROVE  Passes("ding")
  <2>1. Call("ding", "ensure", "tested") \/ Stop("ding") \/ Call("ding", "close", "idle")
    BY <1>14, Zenon DEF TestStart, TestDone
  <2>2. Turned("ding") /\ thread'["ding"].pc \in {"ensure", "idle", "close"}
    BY <1>1, <1>2, <1>3, <2>1, StopTurns, CallTurns
  <2> QED
    BY <1>1, <1>14, <2>2 DEF TestStart, TestDone, Passes, Commanding
<1> QED
  BY <1>4, <1>5, <1>6, <1>7, <1>8, <1>9, <1>10, <1>11, <1>12, <1>13, <1>14

LEMMA CallPasses ==
  ASSUME LineTypeOK
  PROVE  /\ SerialTerminate => Passes("serial")
         /\ SipEnd /\ "sip" \in setting.actors => Passes("sip")
         /\ SipEstablish /\ "sip" \in setting.actors => Passes("sip")
         /\ \A a \in AllActors : Ended(a) => Passes(a)
<1> USE DEF At, state, others
<1>1. /\ thread \in [AllActors -> Threads] /\ viewers \in BOOLEAN
      /\ lock \in [LineLocks -> AllActors \cup {Free}]
      /\ {"sip", "serial"} \subseteq AllActors
      /\ thread["serial"].ret \in {"idle", "ended"}
  BY DEF LineTypeOK, AllActors
<1>2. ASSUME SerialTerminate
      PROVE  Passes("serial")
  <2>1. CASE End("serial")
    BY <1>2, <2>1, EndPasses DEF SerialTerminate
  <2>2. CASE ~End("serial")
    <3>1. Turned("serial") /\ thread'["serial"] = Idle
      BY <1>1, <1>2, <2>2, StopTurns DEF SerialTerminate
    <3> QED
      BY <1>1, <1>2, <2>2, <3>1
      DEF SerialTerminate, Passes, Commanding, Idle, SerialSteps
  <2> QED
    BY <2>1, <2>2
<1>3. ASSUME SipEnd, "sip" \in setting.actors
      PROVE  Passes("sip")
  BY <1>3, EndPasses DEF SipEnd
<1>4. ASSUME SipEstablish, "sip" \in setting.actors
      PROVE  Passes("sip")
  <2>1. Go("sip", "sipActive") \/ Call("sip", "ensure", "sipActive")
    BY <1>4, Zenon DEF SipEstablish
  <2>2. Turned("sip") /\ thread'["sip"].pc \in {"sipActive", "ensure"}
    BY <1>1, <2>1, GoTurns, CallTurns DEF LineSteps, Returns
  <2> QED
    BY <1>1, <1>4, <2>2
    DEF SipEstablish, Passes, Commanding, Acquire, LineLocks
<1>5. ASSUME NEW a \in AllActors, Ended(a)
      PROVE  Passes(a)
  <2>1. (Go(a, "unlocked") /\ a # "serial") \/ Go(a, "idle")
    BY <1>5, Zenon DEF Ended
  <2>2. /\ Turned(a) /\ thread'[a].pc \in {"unlocked", "idle"}
        /\ a = "serial" => thread'[a].pc = "idle" /\ thread'[a].ret \in {"idle", "ended"}
    BY <1>1, <2>1, GoTurns DEF LineSteps, Returns
  <2> QED
    BY <1>1, <1>5, <2>2
    DEF Ended, Passes, Commanding, Release, LineLocks, SerialSteps
<1> QED
  BY <1>2, <1>3, <1>4, <1>5

LEMMA NextCases ==
  ASSUME LineTypeOK, Next
  PROVE  \/ \E a \in AllActors :
              \/ Passes(a)
              \/ EnsureLock(a) \/ EnsureStart(a) \/ EnsureActive(a)
              \/ CloseStop(a) \/ CloseClear(a) \/ EndClear(a)
         \/ SipActive \/ SerialFrame \/ DingOpened \/ SipCall
         \/ BackoffElapses \/ McuTimeout \/ PanelOpens
<1>1. {"sip", "serial", "door", "snapshot", "ding", "client", "main", "timeout"}
        \subseteq AllActors
  BY DEF AllActors
<1>2. CASE \E a \in AllActors : Progress(a)
  BY <1>1, <1>2, SyncPasses, UserPasses, CallPasses, Zenon
  DEF Progress, Ensure, Close, Ending
<1>3. CASE Trigger \/ MainLoop
  BY <1>1, <1>3, UserPasses, CallPasses, Zenon DEF Trigger, MainLoop
<1> QED
  BY <1>2, <1>3, Zenon DEF Next

LEMMA LineStart == Init => LineInv
<1> SUFFICES ASSUME Init PROVE LineInv
  OBVIOUS
<1>1. Idle \in Threads
  BY DEF Idle, Threads, LineSteps, Returns
<1>2. LineTypeOK
  BY <1>1, BooleanValues DEF Init, LineTypeOK, AllActors, LineLocks, Idle, SerialSteps
<1>3. CommandIsHeld /\ AskedIsKnown
  BY DEF Init, CommandIsHeld, AskedIsKnown, Idle, Commanding
<1> QED
  BY <1>2, <1>3 DEF LineInv

\* What a step of ensure or close does to the thread and to the command mutex.
LEMMA EnsureTurns ==
  ASSUME LineInv, NEW a \in AllActors,
         EnsureLock(a) \/ EnsureStart(a) \/ EnsureActive(a) \/ CloseStop(a) \/ CloseClear(a)
  PROVE  /\ Turned(a)
         /\ lock' \in [LineLocks -> AllActors \cup {Free}]
         /\ lock["command"] \in {Free, a}
         /\ \/ thread'[a].pc = thread[a].ret /\ thread'[a].ret = "idle"
            \/ /\ thread'[a].pc \in Commanding /\ thread'[a].ret = thread[a].ret
               /\ lock'["command"] = a
<1>1. /\ thread \in [AllActors -> Threads] /\ CommandIsHeld
      /\ lock \in [LineLocks -> AllActors \cup {Free}]
      /\ "command" \in LineLocks
  BY DEF LineInv, LineTypeOK, LineLocks
<1>2. /\ lock["command"] \in {Free, a}
      /\ lock' \in [LineLocks -> AllActors \cup {Free}]
  BY <1>1 DEF EnsureLock, EnsureStart, EnsureActive, CloseStop, CloseClear, Acquire,
     Release, CommandIsHeld, At, Commanding
<1>3. CASE \E value \in {-1, 0, 1} : Return(a, value)
  BY <1>1, <1>2, <1>3, ReturnTurns
<1>4. CASE \E step \in Commanding : Go(a, step) /\ lock'["command"] = a
  BY <1>1, <1>2, <1>4, GoTurns DEF LineSteps
<1>5. CloseClear(a) => thread[a].result \in {-1, 0, 1}
  BY <1>1 DEF Threads
<1>6. CASE EnsureLock(a)
  BY <1>1, <1>3, <1>4, <1>6 DEF EnsureLock, Acquire, Commanding
<1>7. CASE EnsureStart(a)
  <2>1. (\E value \in {0, -1} : Return(a, value)) \/ (Go(a, "started") /\ lock' = lock)
    BY <1>7, Zenon DEF EnsureStart
  <2>2. lock["command"] = a
    BY <1>1, <1>7 DEF EnsureStart, CommandIsHeld, At, Commanding
  <2> QED
    BY <1>3, <1>4, <2>1, <2>2 DEF Commanding
<1>8. CASE EnsureActive(a) \/ CloseClear(a)
  BY <1>3, <1>5, <1>8, Zenon DEF EnsureActive, CloseClear
<1>9. CASE CloseStop(a)
  BY <1>1, <1>4, <1>9 DEF CloseStop, Acquire, Commanding
<1> QED
  BY <1>6, <1>7, <1>8, <1>9

LEMMA CloseTurns ==
  ASSUME LineInv, NEW a \in AllActors
  PROVE  /\ CloseStop(a) => thread'[a].pc = "stopped"
         /\ CloseClear(a) => thread'[a].pc = thread[a].ret
<1>1. thread \in [AllActors -> Threads] /\ thread[a].result \in {-1, 0, 1}
  BY DEF LineInv, LineTypeOK, Threads
<1>2. ASSUME CloseStop(a) PROVE thread'[a].pc = "stopped"
  BY <1>1, <1>2, GoTurns DEF CloseStop, LineSteps, Commanding
<1>3. ASSUME CloseClear(a) PROVE thread'[a].pc = thread[a].ret
  BY <1>1, <1>3, ReturnTurns DEF CloseClear
<1> QED
  BY <1>2, <1>3

\* What the frames in the UART may be after a step.
LEMMA FramesTyped ==
  ASSUME NEW F, NEW q \in Seq(F)
  PROVE  /\ \A x \in F : Append(q, x) \in Seq(F)
         /\ q # <<>> => Tail(q) \in Seq(F) /\ Head(q) \in F
BY HeadTailProperties

LEMMA LineStep == LineInv /\ [Next]_vars => LineInv'
<1> SUFFICES ASSUME LineInv, [Next]_vars PROVE LineInv'
  OBVIOUS
<1> USE DEF LineInv
<1>1. LineTypeOK /\ thread \in [AllActors -> Threads] /\ CommandIsHeld /\ AskedIsKnown
      /\ frames \in Seq({"HANG_UP", "START_CALL"})
      /\ "serial" \in AllActors /\ "sip" \in AllActors /\ "ding" \in AllActors
  BY DEF LineTypeOK, AllActors
<1>2. ASSUME NEW a \in AllActors, Passes(a)
      PROVE  LineInv'
  <2>1. LineTypeOK'
    BY <1>1, <1>2 DEF Passes, Turned, LineTypeOK, mcu
  <2>2. CommandIsHeld'
    BY <1>1, <1>2 DEF Passes, Turned, CommandIsHeld
  <2>3. AskedIsKnown'
    BY <1>1, <1>2 DEF Passes, Turned, AskedIsKnown, At, Commanding
  <2> QED
    BY <2>1, <2>2, <2>3
<1>3. ASSUME NEW a \in AllActors,
             \/ EnsureLock(a) \/ EnsureStart(a) \/ EnsureActive(a)
             \/ CloseStop(a) \/ CloseClear(a)
      PROVE  LineInv'
  <2>1. /\ Turned(a)
        /\ lock' \in [LineLocks -> AllActors \cup {Free}]
        /\ lock["command"] \in {Free, a}
        /\ \/ thread'[a].pc = thread[a].ret /\ thread'[a].ret = "idle"
           \/ /\ thread'[a].pc \in Commanding /\ thread'[a].ret = thread[a].ret
              /\ lock'["command"] = a
    BY <1>1, <1>3, EnsureTurns
  <2>2. a = "serial" => CloseStop(a) \/ CloseClear(a)
    BY <1>1, <1>3 DEF LineTypeOK, SerialSteps, EnsureLock, EnsureStart, EnsureActive, At
  <2>3. a = "serial" => thread'[a].pc \in SerialSteps
    BY <1>1, <2>1, <2>2, CloseTurns DEF LineTypeOK, SerialSteps
  <2>4. LineTypeOK'
    <3>1. UNCHANGED <<setting, viewers>> /\ frames' \in Seq({"HANG_UP", "START_CALL"})
      BY <1>1, <1>3, FramesTyped
      DEF EnsureLock, EnsureStart, EnsureActive, CloseStop, CloseClear, mcu, McuStart
    <3> QED
      BY <1>1, <2>1, <2>3, <3>1 DEF LineTypeOK, Turned
  <2>5. CommandIsHeld'
    <3>1. \A b \in AllActors \ {a} : thread[b].pc \notin Commanding
      BY <1>1, <2>1 DEF CommandIsHeld, Free, AllActors
    <3>2. thread[a].ret \notin Commanding
      BY <1>1 DEF Threads, Returns, Commanding
    <3> QED
      BY <2>1, <3>1, <3>2 DEF CommandIsHeld, Turned
  <2>6. AskedIsKnown'
    <3> USE DEF AskedIsKnown
    <3>1. CASE EnsureLock(a)
      <4>1. active' = active /\ asked' = asked /\ thread[a].pc = "ensure"
            /\ thread'[a].pc \in {thread[a].ret, "start"}
        BY <1>1, <3>1, GoTurns, ReturnTurns DEF EnsureLock, state, At, LineSteps, Commanding
      <4>2. thread[a].ret # "stopped"
        BY <1>1 DEF Threads, Returns
      <4> QED
        BY <1>1, <2>1, <4>1, <4>2 DEF Turned, At
    <3>2. CASE EnsureStart(a)
      <4>1. /\ active' = active
            /\ \/ active /\ asked' = asked
               \/ ~active /\ asked' = asked
               \/ thread'[a].pc = "started" /\ asked' = "yes"
        BY <1>1, <3>2, GoTurns DEF EnsureStart, LineSteps, Commanding
      <4>4. \A b \in AllActors : ~At(b, "started")
        BY <1>1, <3>2 DEF EnsureStart, CommandIsHeld, At, Commanding
      <4>2. \A b \in AllActors : b # a => ~At(b, "stopped")
        BY <1>1, <3>2 DEF EnsureStart, CommandIsHeld, At, Commanding
      <4>3. thread'[a].pc # "stopped"
        <5>1. thread'[a].pc \in {thread[a].ret, "started"} /\ thread[a].ret # "stopped"
          BY <1>1, <3>2, GoTurns, ReturnTurns DEF EnsureStart, LineSteps, Commanding, Threads, Returns
        <5> QED
          BY <5>1
      <4> QED
        BY <1>1, <2>1, <4>1, <4>2, <4>3, <4>4 DEF Turned, At
    <3>3. CASE EnsureActive(a)
      <4>1. active' /\ asked' = asked /\ thread'[a].pc = thread[a].ret /\ thread[a].ret # "stopped"
        BY <1>1, <3>3, ReturnTurns DEF EnsureActive, Threads, Returns
      <4> QED
        BY <1>1, <2>1, <4>1 DEF Turned, At
    <3>4. CASE CloseStop(a) \/ CloseClear(a)
      <4>1. CloseStop(a) => asked' \in {"no", "lost"}
        BY <1>1 DEF CloseStop, Forgotten
      <4>2. CloseClear(a) => asked' = asked /\ asked # "yes"
        BY <1>1 DEF CloseClear
      <4> QED
        BY <1>1, <3>4, <4>1, <4>2
    <3> QED
      BY <1>3, <3>1, <3>2, <3>3, <3>4
  <2> QED
    BY <2>4, <2>5, <2>6
<1>4. ASSUME NEW a \in AllActors, NEW step \in LineSteps \ Commanding, Turned(a),
             thread[a].pc \notin Commanding,
             thread'[a].pc = step, thread'[a].ret \in {thread[a].ret, "idle"},
             a = "serial" => step \in SerialSteps,
             UNCHANGED <<setting, viewers>>,
             lock' \in [LineLocks -> AllActors \cup {Free}],
             lock'["command"] = lock["command"],
             frames' \in Seq({"HANG_UP", "START_CALL"}),
             \/ asked' \in {"no", "lost"}
             \/ asked' = asked /\ (active => active')
      PROVE  LineInv'
  <2>1. LineTypeOK'
    BY <1>1, <1>4 DEF LineTypeOK, Turned
  <2>2. CommandIsHeld'
    BY <1>1, <1>4 DEF CommandIsHeld, Turned
  <2>3. AskedIsKnown'
    BY <1>1, <1>4 DEF AskedIsKnown, Turned, At, Commanding
  <2> QED
    BY <2>1, <2>2, <2>3
<1>5. ASSUME NEW a \in AllActors, EndClear(a)
      PROVE  LineInv'
  <2>1. /\ Turned(a) /\ thread'[a].pc = "ended" /\ thread'[a].ret = thread[a].ret
        /\ "ended" \in LineSteps \ Commanding
    BY <1>1, <1>5, GoTurns DEF EndClear, LineSteps, Returns, Commanding
  <2> QED
    BY <1>1, <1>4, <1>5, <2>1
    DEF EndClear, ClearState, Forgotten, AskedIsKnown, At, Commanding, SerialSteps, mcu, others, LineTypeOK
<1>6. CASE SipActive
  <2>1. /\ Turned("sip") /\ thread'["sip"].pc = "idle" /\ thread'["sip"].ret = "idle"
        /\ "idle" \in LineSteps \ Commanding
    BY <1>1, <1>6, StopTurns DEF SipActive, LineSteps, Returns, Commanding
  <2> QED
    BY <1>1, <1>4, <1>6, <2>1
    DEF SipActive, At, Commanding, mcu, LineTypeOK, Release, LineLocks
<1>7. CASE DingOpened
  <2>1. /\ Turned("ding") /\ thread'["ding"].pc \in {"idle", "dingCall"}
        /\ thread'["ding"].ret = thread["ding"].ret
        /\ {"idle", "dingCall"} \subseteq LineSteps \ Commanding
    BY <1>1, <1>7, GoTurns DEF DingOpened, LineSteps, Returns, Commanding
  <2> QED
    BY <1>1, <1>4, <1>7, <2>1
    DEF DingOpened, At, Commanding, mcu, others, LineTypeOK
<1>8. CASE SerialFrame
  <2>1. frames' \in Seq({"HANG_UP", "START_CALL"})
    BY <1>1, <1>8, FramesTyped DEF SerialFrame
  <2>2. CASE Head(frames) = "START_CALL"
    <3>1. UNCHANGED <<setting, thread, asked, others>> /\ active'
      BY <1>8, <2>2 DEF SerialFrame
    <3> QED
      BY <1>1, <2>1, <3>1
      DEF LineTypeOK, CommandIsHeld, AskedIsKnown, At, others
  <2>3. CASE Head(frames) # "START_CALL"
    <3>1. Go("serial", "terminate") /\ asked' = "no" /\ UNCHANGED <<setting, others>>
      BY <1>8, <2>3 DEF SerialFrame, ClearState
    <3>2. /\ Turned("serial") /\ thread'["serial"].pc = "terminate"
          /\ thread'["serial"].ret = thread["serial"].ret
          /\ "terminate" \in LineSteps \ Commanding
      BY <1>1, <3>1, GoTurns DEF LineSteps, Returns, Commanding
    <3> QED
      BY <1>1, <1>4, <1>8, <2>1, <3>1, <3>2
      DEF SerialFrame, At, Commanding, SerialSteps, others, LineTypeOK
  <2> QED
    BY <2>2, <2>3
<1>9. CASE SipCall \/ BackoffElapses \/ McuTimeout \/ PanelOpens \/ UNCHANGED vars
  <2>1. UNCHANGED <<setting, thread, state, lock, viewers>>
    BY <1>9 DEF SipCall, BackoffElapses, McuTimeout, PanelOpens, vars, others
  <2>2. frames' \in Seq({"HANG_UP", "START_CALL"})
    BY <1>1, <1>9, FramesTyped
    DEF SipCall, BackoffElapses, McuTimeout, PanelOpens, vars, mcu
  <2> QED
    BY <1>1, <2>1, <2>2 DEF LineTypeOK, CommandIsHeld, AskedIsKnown, At, state
<1> QED
  BY <1>1, <1>2, <1>3, <1>5, <1>6, <1>7, <1>8, <1>9, NextCases

\* Commands are sent under their mutex, and a START_CALL that nothing ended is
\* known to all or about to be (LineInv), in any surroundings.
THEOREM LineInvariant == Spec => []LineInv
BY LineStart, LineStep, PTL DEF Spec

LEMMA OtherStepsSendNothing ==
  ASSUME LineInv, Next, NEW a \in AllActors, Sends(a)
  PROVE  EnsureStart(a)
<1>1. /\ thread \in [AllActors -> Threads] /\ LineTypeOK
      /\ "serial" \in AllActors /\ "sip" \in AllActors /\ "ding" \in AllActors
  BY DEF LineInv, LineTypeOK, AllActors
<1>2. thread[a].pc = "start" /\ thread'[a].pc = "started"
  BY DEF Sends, At
<1>3. ASSUME NEW b \in AllActors, Turned(b), thread[b].pc # "start" \/ thread'[b].pc # "started"
      PROVE  FALSE
  BY <1>2, <1>3 DEF Turned
<1>4. ASSUME NEW b \in AllActors, Passes(b)
      PROVE  FALSE
  BY <1>3, <1>4 DEF Passes, Commanding
<1>5. ASSUME NEW b \in AllActors,
             EnsureLock(b) \/ EnsureActive(b) \/ CloseStop(b) \/ CloseClear(b)
      PROVE  FALSE
  BY <1>3, <1>5, EnsureTurns DEF EnsureLock, EnsureActive, CloseStop, CloseClear, At
<1>6. ASSUME NEW b \in AllActors, EndClear(b)
      PROVE  FALSE
  BY <1>1, <1>3, <1>6, GoTurns DEF EndClear, LineSteps, Returns
<1>7. ASSUME NEW b \in AllActors, EnsureStart(b), b # a
      PROVE  FALSE
  BY <1>2, <1>7, EnsureTurns DEF Turned
<1>8. ~SipActive /\ ~DingOpened
  BY <1>1, <1>3, StopTurns, GoTurns DEF SipActive, DingOpened, LineSteps, Returns
<1>9. ~SerialFrame
  <2>1. SUFFICES ASSUME SerialFrame PROVE FALSE
    OBVIOUS
  <2>2. thread' = thread \/ Go("serial", "terminate")
    BY <2>1, Zenon DEF SerialFrame
  <2> QED
    BY <1>1, <1>2, <1>3, <2>2, GoTurns DEF LineSteps
<1>10. ~SipCall /\ ~BackoffElapses /\ ~McuTimeout /\ ~PanelOpens
  BY <1>2 DEF SipCall, BackoffElapses, McuTimeout, PanelOpens
<1> QED
  BY <1>1, <1>4, <1>5, <1>6, <1>7, <1>8, <1>9, <1>10, NextCases

\* The daemon does not ask for a line it already asked for (NoRepeatedStart):
\* however many threads want it at once, and whatever the panel refuses, drops
\* or opens by itself, unless it has forgotten the line: a STOP_CALL could not
\* be written, or the end of a SIP call cleared a line opened meanwhile.
THEOREM StartsAreNotRepeated == Spec => NoRepeatedStart
<1>1. ASSUME LineInv, Next, NEW a \in AllActors, Sends(a)
      PROVE  asked # "yes"
  <2>1. thread \in [AllActors -> Threads] /\ CommandIsHeld /\ AskedIsKnown
    BY <1>1 DEF LineInv, LineTypeOK
  <2>2. EnsureStart(a) /\ thread[a].pc = "start" /\ thread'[a].pc = "started"
    BY <1>1, OtherStepsSendNothing DEF Sends, At
  <2>3. thread[a].ret # "started"
    BY <2>1 DEF Threads, Returns
  <2>4. ~active
    BY <2>1, <2>2, <2>3, ReturnTurns DEF EnsureStart
  <2>5. \A b \in AllActors : ~At(b, "started")
    BY <2>1, <2>2 DEF CommandIsHeld, At, Commanding
  <2> QED
    BY <2>1, <2>4, <2>5 DEF AskedIsKnown
<1>2. LineInv /\ [Next]_vars => [\A a \in AllActors : Sends(a) => asked # "yes"]_vars
  BY <1>1
<1> QED
  BY <1>2, LineInvariant, PTL DEF Spec, NoRepeatedStart

-----------------------------------------------------------------------------
LEMMA SettingStays == Next => setting' = setting
BY Zenon DEF Next, Progress, Trigger, MainLoop, Ensure, Close, Ending, Sync, EnsureLock,
   EnsureStart, EnsureActive, CloseStop, CloseClear, EndClear, Ended, SyncEnter,
   SyncLook, SyncOpened, SyncClose, SyncOut, SipActive, SerialFrame,
   SerialTerminate, End, DoorUnlock, DoorUnlocked, SnapshotDone, DingOpened, DingCall,
   SipCall, SipEstablish, SipEnd, ViewersChange, DoorPressed, SnapshotStart,
   DingStart, TestStart, TestDone, TimeoutElapses, TimeoutCloses, Reconcile, BackoffElapses, McuTimeout, PanelOpens

LEMMA AgreeStart == Init => AgreeInv
BY DEF Init, AgreeInv, Agreeing, Idle, At, AllActors

LEMMA AgreeStep == LineInv /\ AgreeInv /\ [Next]_vars => AgreeInv'
<1> SUFFICES ASSUME LineInv, AgreeInv, Next, Obliging', "sip" \notin setting'.actors
             PROVE  Agreeing'
  <2>1. UNCHANGED vars /\ AgreeInv => AgreeInv'
    BY DEF vars, mcu, state, others, AgreeInv, Agreeing, Obliging, At
  <2> QED
    BY <2>1 DEF AgreeInv
<1>1. /\ thread \in [AllActors -> Threads] /\ LineTypeOK /\ CommandIsHeld
      /\ "serial" \in AllActors /\ "sip" \in AllActors /\ "ding" \in AllActors
      /\ Down \notin AllActors
  BY DEF LineInv, LineTypeOK, AllActors, Down
<1>2. Obliging /\ "sip" \notin setting.actors /\ Agreeing
  BY SettingStays DEF AgreeInv, Obliging
<1>3. /\ thread["sip"] = Idle /\ thread["sip"].pc = "idle" /\ sip # "established"
      /\ thread["serial"].pc \in SerialSteps
      /\ \A a \in AllActors : thread[a].pc # "clear"
  BY <1>1, <1>2 DEF Agreeing, At, Idle, LineTypeOK
<1>4. ASSUME NEW a \in AllActors, Passes(a)
      PROVE  Agreeing'
  <2>1. a # "sip"
    BY <1>2, <1>3, <1>4 DEF Passes
  <2>2. frames # <<>> => a # "serial"
    BY <1>2, <1>4 DEF Passes, Agreeing, At
  <2> QED
    BY <1>1, <1>2, <1>3, <1>4, <2>1, <2>2
    DEF Passes, Turned, Agreeing, At, Commanding, mcu
<1>5. ASSUME NEW a \in AllActors,
             \/ EnsureLock(a) \/ EnsureStart(a) \/ EnsureActive(a)
             \/ CloseStop(a) \/ CloseClear(a)
      PROVE  Agreeing'
  <2>1. /\ Turned(a) /\ lock["command"] \in {Free, a}
        /\ thread'[a].pc # "clear" /\ a # "sip"
        /\ \A b \in AllActors \ {a} : thread[b].pc \notin Commanding
        /\ thread[a].ret \notin Commanding
    <3>1. a # "sip"
      BY <1>3, <1>5 DEF EnsureLock, EnsureStart, EnsureActive, CloseStop, CloseClear, At
    <3>2. thread[a].ret \notin Commanding \cup {"clear"}
      BY <1>1 DEF Threads, Returns, Commanding
    <3>3. /\ Turned(a) /\ lock["command"] \in {Free, a}
          /\ thread'[a].pc = thread[a].ret \/ thread'[a].pc \in Commanding
      BY <1>5, EnsureTurns
    <3>4. \A b \in AllActors \ {a} : thread[b].pc \notin Commanding
      BY <1>1, <3>3 DEF CommandIsHeld, Free, AllActors
    <3> QED
      BY <3>1, <3>2, <3>3, <3>4 DEF Commanding
  <2>2. sip' = sip /\ thread'["sip"] = Idle
    BY <1>1, <1>3, <1>5, <2>1
    DEF EnsureLock, EnsureStart, EnsureActive, CloseStop, CloseClear, Turned
  <2>3. frames # <<>> => a # "serial"
    BY <1>2, <1>5 DEF EnsureLock, EnsureStart, EnsureActive, CloseStop, CloseClear,
       Agreeing, At
  <2>4. CASE EnsureLock(a)
    <3>1. thread'[a].pc \notin {"started", "stopped"}
      BY <1>1, <2>1, <2>4, GoTurns, ReturnTurns
      DEF EnsureLock, LineSteps, Commanding
    <3> QED
      BY <1>1, <1>2, <1>3, <2>1, <2>2, <2>3, <2>4, <3>1
      DEF EnsureLock, Agreeing, Turned, At, state, mcu
  <2>5. CASE EnsureStart(a)
    <3>1. frames = <<>>
      BY <1>2, <2>5 DEF EnsureStart, SerialCaughtUp, Obliging, Agreeing
    <3>2. CASE active
      <4>1. Return(a, 0) /\ UNCHANGED <<mcu, active>>
        BY <2>5, <3>2 DEF EnsureStart
      <4>2. thread'[a].pc \notin Commanding
        BY <1>1, <2>1, <4>1, ReturnTurns
      <4> QED
        BY <1>1, <1>2, <1>3, <2>1, <2>2, <2>3, <2>5, <3>1, <3>2, <4>1, <4>2
        DEF Agreeing, Turned, At, mcu, EnsureStart, Commanding
    <3>3. CASE ~active
      <4>1. Go(a, "started") /\ McuStart(a) /\ ~active'
        BY <1>2, <2>5, <3>3 DEF EnsureStart, Obliging
      <4>2. line' # Down /\ frames' = <<>>
        BY <1>1, <1>2, <3>1, <4>1 DEF McuStart, Obliging, mcu
      <4>3. thread'[a].pc = "started"
        BY <1>1, <4>1, GoTurns DEF LineSteps, Commanding
      <4> QED
        BY <1>1, <1>2, <1>3, <2>1, <2>2, <4>1, <4>2, <4>3
        DEF Agreeing, Turned, At, Commanding
    <3> QED
      BY <3>2, <3>3
  <2>6. CASE EnsureActive(a)
    <3>1. thread'[a].pc \notin Commanding
      BY <1>1, <2>1, <2>6, ReturnTurns DEF EnsureActive
    <3>2. line # Down
      BY <1>2, <2>6 DEF EnsureActive, Agreeing
    <3> QED
      BY <1>1, <1>2, <1>3, <2>1, <2>2, <2>3, <2>6, <3>1, <3>2
      DEF EnsureActive, Agreeing, Turned, At, mcu, Commanding
  <2>7. CASE CloseStop(a)
    <3>1. thread'[a].pc = "stopped" /\ line' = Down /\ UNCHANGED <<active, frames>>
      BY <1>1, <1>2, <2>7, CloseTurns DEF CloseStop, McuStop, Obliging
    <3>2. frames # <<>> => At("serial", "idle")'
      BY <1>1, <1>2, <2>1, <2>3 DEF Agreeing, Turned, At
    <3> QED
      BY <1>1, <1>2, <1>3, <2>1, <2>2, <3>1, <3>2
      DEF Agreeing, Turned, At, Commanding
  <2>8. CASE CloseClear(a)
    <3>1. thread'[a].pc \notin Commanding
      BY <1>1, <2>1, <2>8, CloseTurns
    <3>2. line = Down
      BY <1>2, <2>8 DEF CloseClear, Agreeing
    <3> QED
      BY <1>1, <1>2, <1>3, <2>1, <2>2, <2>3, <2>8, <3>1, <3>2
      DEF CloseClear, ClearState, Agreeing, Turned, At, mcu, Commanding
  <2> QED
    BY <1>5, <2>4, <2>5, <2>6, <2>7, <2>8
<1>6. ~SipActive /\ ~PanelOpens /\ \A a \in AllActors : ~EndClear(a)
  BY <1>2, <1>3 DEF SipActive, EndClear, At, PanelOpens, Obliging
<1>7. CASE DingOpened
  <2>1. Turned("ding") /\ thread'["ding"].pc \in {"idle", "dingCall"}
    BY <1>1, <1>7, GoTurns DEF DingOpened, LineSteps, Returns
  <2> QED
    BY <1>1, <1>2, <1>3, <1>7, <2>1
    DEF DingOpened, Agreeing, Turned, At, mcu, others
<1>8. CASE SerialFrame
  <2>1. frames = <<"HANG_UP">> /\ line = Down /\ Tail(frames) = <<>>
    BY <1>2, <1>8 DEF SerialFrame, Agreeing
  <2>2. Go("serial", "terminate") /\ frames' = <<>> /\ ~active' /\ line' = line /\ sip' = sip
    BY <1>8, <2>1 DEF SerialFrame, ClearState, others
  <2>3. Turned("serial") /\ thread'["serial"].pc = "terminate"
    BY <1>1, <2>2, GoTurns DEF LineSteps
  <2> QED
    BY <1>1, <1>2, <1>3, <2>1, <2>2, <2>3 DEF Agreeing, Turned, At
<1>9. CASE SipCall \/ BackoffElapses
  BY <1>2, <1>3, <1>9 DEF SipCall, BackoffElapses, Agreeing, At, state, mcu
<1>10. CASE McuTimeout
  <2>1. line # Down /\ Unhurried /\ line' = Down /\ frames = <<>>
    BY <1>2, <1>10 DEF McuTimeout, Agreeing, Obliging
  <2>2. frames' = <<"HANG_UP">> /\ UNCHANGED <<thread, state, sip>>
    BY <1>10, <2>1 DEF McuTimeout, others
  <2>3. thread["serial"].pc = "idle" /\ \A a \in AllActors : thread[a].pc \notin Commanding
    BY <1>1, <1>3, <2>1 DEF Unhurried, SerialSteps, Commanding
  <2> QED
    BY <1>3, <2>1, <2>2, <2>3 DEF Agreeing, At, Commanding
<1> QED
  BY <1>1, <1>4, <1>5, <1>6, <1>7, <1>8, <1>9, <1>10, NextCases

-----------------------------------------------------------------------------
LEMMA AnswerStart == Init => AnswerInv
BY BooleanValues DEF Init, AnswerInv, Answering, Idle, At, AllActors, Opening, Ends

\* Only SIP's own steps, the serial thread's and the MCU's are left.
LEMMA OnlySipSteps ==
  ASSUME LineTypeOK, OnlySip, Answering, Next
  PROVE  \/ \E a \in {"sip", "serial"} :
              \/ EnsureLock(a) \/ EnsureStart(a) \/ EnsureActive(a)
              \/ CloseStop(a) \/ CloseClear(a) \/ EndClear(a) \/ Ended(a)
         \/ SipActive \/ SerialFrame \/ SerialTerminate
         \/ SipCall \/ SipEstablish \/ SipEnd \/ BackoffElapses \/ McuTimeout
<1>1. \A a \in AllActors : a # "sip" /\ a # "serial" => thread[a].pc = "idle"
  BY DEF Answering, Idle
<1>2. ASSUME NEW a \in AllActors, a # "sip", a # "serial"
      PROVE  ~Progress(a)
  BY <1>1, <1>2
  DEF Progress, Ensure, Close, Ending, Sync, EnsureLock, EnsureStart, EnsureActive,
      CloseStop, CloseClear, EndClear, Ended, SyncEnter, SyncLook, SyncOpened,
      SyncClose, SyncOut, DoorUnlock, DoorUnlocked, SnapshotDone, DingOpened,
      DingCall, TestDone, TimeoutCloses, At
<1>3. CASE \E a \in AllActors : Progress(a)
  <2>1. PICK a \in {"sip", "serial"} : Progress(a)
    BY <1>2, <1>3
  <2>2. a \notin Rtsp /\ a # "door" /\ a # "snapshot" /\ a # "ding" /\ a # "timeout"
    BY DEF Rtsp
  <2> QED
    BY <2>1, <2>2, Zenon DEF Progress, Ensure, Close, Ending
<1>4. CASE Trigger \/ MainLoop
  BY <1>4 DEF Trigger, MainLoop, OnlySip
<1>5. ~PanelOpens
  BY DEF PanelOpens, OnlySip
<1> QED
  BY <1>3, <1>4, <1>5 DEF Next

LEMMA AnswerStep == LineInv /\ AnswerInv /\ [Next]_vars => AnswerInv'
<1> SUFFICES ASSUME LineInv, AnswerInv, Next, OnlySip'
             PROVE  Answering'
  <2>1. UNCHANGED vars /\ AnswerInv => AnswerInv'
    BY DEF vars, mcu, state, others, AnswerInv, Answering, OnlySip, At
  <2> QED
    BY <2>1 DEF AnswerInv
<1>1. /\ thread \in [AllActors -> Threads] /\ LineTypeOK /\ CommandIsHeld
      /\ lock \in [LineLocks -> AllActors \cup {Free}]
      /\ frames \in Seq({"HANG_UP", "START_CALL"})
      /\ "serial" \in AllActors /\ "sip" \in AllActors
      /\ Down \notin AllActors /\ Free \notin AllActors
      /\ {"session", "command"} \subseteq LineLocks
  BY DEF LineInv, LineTypeOK, AllActors, Down, Free, LineLocks
<1>2. OnlySip /\ Answering
  BY SettingStays DEF AnswerInv, OnlySip
<1>3. /\ \A a \in AllActors : a # "sip" /\ a # "serial" => thread[a].pc = "idle"
      /\ thread["serial"].pc \in SerialSteps
  BY <1>1, <1>2 DEF Answering, Idle, LineTypeOK
<1>4. ASSUME NEW a \in AllActors, EnsureLock(a) \/ EnsureStart(a) \/ EnsureActive(a)
      PROVE  Answering'
  <2>1. a = "sip" /\ thread["sip"].ret = "sipActive" /\ ~active /\ sip = "established"
    BY <1>1, <1>2, <1>3, <1>4
    DEF EnsureLock, EnsureStart, EnsureActive, At, Answering, LineTypeOK, SerialSteps,
        Opening
  <2>2. /\ UNCHANGED <<sip, simulated>>
        /\ lock'["session"] = lock["session"] /\ Turned("sip")
    BY <1>1, <1>4, <2>1, EnsureTurns
    DEF EnsureLock, EnsureStart, EnsureActive, Acquire, Release, state
  <2>3. CASE EnsureLock(a)
    <3>1. Go("sip", "start")
      BY <2>1, <2>3 DEF EnsureLock
    <3>2. thread'["sip"].pc = "start" /\ thread'["sip"].ret = "sipActive"
      BY <1>1, <2>1, <3>1, GoTurns DEF LineSteps, Commanding
    <3> QED
      BY <1>1, <1>2, <2>1, <2>2, <2>3, <3>2
      DEF EnsureLock, Answering, Turned, At, Opening, Ends, state, mcu
  <2>4. CASE EnsureStart(a)
    <3>1. Go("sip", "started") /\ McuStart("sip") /\ active' = active
      BY <1>2, <2>1, <2>4 DEF EnsureStart, OnlySip
    <3>2. thread'["sip"].pc = "started" /\ thread'["sip"].ret = "sipActive"
      BY <1>1, <2>1, <3>1, GoTurns DEF LineSteps, Commanding
    <3>3. /\ \A i \in DOMAIN frames' : frames'[i] = "HANG_UP"
          /\ line' # Down \/ frames' # <<>>
      BY <1>1, <1>2, <3>1 DEF McuStart, mcu, Answering
    <3>4. \A b \in AllActors \ {"sip"} :
            thread'[b] = thread[b] /\ thread[b].pc \notin Opening \cup Ends
      BY <1>1, <1>2, <2>1, <2>2, <2>4
      DEF Answering, Turned, EnsureStart, At, Opening
    <3>5. lock["session"] = "sip"
      BY <1>1, <1>2, <2>1, <2>4 DEF Answering, EnsureStart, At, Opening
    <3> QED
      BY <1>1, <1>2, <2>1, <2>2, <3>1, <3>2, <3>3, <3>4, <3>5
      DEF Answering, At, Opening, Ends
  <2>5. CASE EnsureActive(a)
    <3>1. Return("sip", 1) /\ UNCHANGED mcu
      BY <2>1, <2>5 DEF EnsureActive
    <3>2. thread'["sip"].pc = "sipActive" /\ thread["sip"].pc = "started"
      BY <1>1, <2>1, <2>5, <3>1, ReturnTurns DEF EnsureActive, At
    <3> QED
      BY <1>1, <1>2, <2>1, <2>2, <3>1, <3>2
      DEF Answering, Turned, At, Opening, Ends, mcu
  <2> QED
    BY <1>4, <2>3, <2>4, <2>5

\* While nobody has the session lock no call is being opened or ended, and
\* call_active is that of the call.
<1>5. ASSUME lock["session"] = Free
      PROVE  /\ \A a \in AllActors : thread[a].pc \notin Opening \cup Ends
             /\ active => sip = "established"
  BY <1>1, <1>2, <1>5 DEF Answering, Ends
<1>6. ASSUME NEW a \in {"sip", "serial"}, thread[a].pc \in Ends
      PROVE  /\ \A b \in AllActors \ {a} : thread[b].pc \notin Opening \cup Ends
             /\ lock["session"] = a /\ sip = "idle"
             /\ active => thread[a].pc \in {"close", "stopped"}
  BY <1>1, <1>2, <1>6 DEF Answering, Ends
<1>7. ASSUME NEW a \in {"sip", "serial"}, CloseStop(a) \/ CloseClear(a) \/ EndClear(a)
      PROVE  Answering'
  <2>1. thread[a].pc \in Ends /\ (~EndClear(a) => thread[a].ret = "ended")
    BY <1>1, <1>2, <1>7 DEF CloseStop, CloseClear, EndClear, At, Ends, Answering
  <2>2. /\ Turned(a) /\ UNCHANGED <<sip, frames>>
        /\ lock'["session"] = lock["session"] /\ (~simulated => ~simulated')
        /\ \/ thread'[a].pc = "stopped" /\ thread'[a].ret = "ended"
           \/ thread'[a].pc = "ended" /\ ~active'
    <3>1. CASE CloseStop(a)
      <4>1. Go(a, "stopped") /\ lock' = [lock EXCEPT !["command"] = a]
        BY <3>1 DEF CloseStop, Acquire
      <4>2. thread[a].ret = "ended"
        BY <2>1, <3>1 DEF CloseStop, EndClear, At
      <4> QED
        BY <1>1, <3>1, <4>1, <4>2, GoTurns
        DEF CloseStop, state, LineSteps, Commanding
    <3>2. CASE CloseClear(a)
      <4>1. /\ Return(a, thread[a].result) /\ thread[a].result \in {-1, 0, 1}
            /\ lock' = [lock EXCEPT !["command"] = Free] /\ ClearState
        BY <1>1, <3>2 DEF CloseClear, Release, Threads
      <4>2. thread[a].ret = "ended"
        BY <2>1, <3>2 DEF CloseClear, EndClear, At
      <4> QED
        BY <1>1, <3>2, <4>1, <4>2, ReturnTurns DEF CloseClear, ClearState, mcu
    <3>3. CASE EndClear(a)
      BY <1>1, <3>3, GoTurns
      DEF EndClear, ClearState, LineSteps, Returns, mcu, others
    <3> QED
      BY <1>7, <3>1, <3>2, <3>3
  <2>3. /\ \A b \in AllActors \ {a} : thread[b].pc \notin Opening \cup Ends
        /\ lock["session"] = a /\ sip = "idle"
    BY <1>6, <2>1
  <2> QED
    BY <1>1, <1>2, <1>3, <2>2, <2>3 DEF Answering, Turned, At, Opening, Ends
<1>8. ASSUME NEW a \in {"sip", "serial"}, Ended(a)
      PROVE  Answering'
  <2>1. /\ thread[a].pc = "ended" /\ Go(a, "idle") /\ UNCHANGED <<state, mcu, sip>>
        /\ lock' = [lock EXCEPT !["session"] = Free]
    BY <1>8 DEF Ended, At, Release
  <2>2. Turned(a) /\ thread'[a].pc = "idle"
    BY <1>1, <2>1, GoTurns DEF LineSteps, Returns
  <2>3. /\ \A b \in AllActors \ {a} : thread[b].pc \notin Opening \cup Ends
        /\ sip = "idle" /\ ~active
    BY <1>6, <2>1 DEF Ends
  <2> QED
    BY <1>1, <1>2, <1>3, <2>1, <2>2, <2>3
    DEF Answering, Turned, At, Opening, Ends, state, mcu
<1>9. CASE SipCall
  BY <1>1, <1>2, <1>5, <1>9 DEF SipCall, Answering, At, state, mcu, Ends, Opening
<1>10. CASE SipEstablish
  <2>1. /\ lock["session"] = Free /\ lock' = [lock EXCEPT !["session"] = "sip"]
        /\ sip' = "established" /\ sip = "calling" /\ UNCHANGED <<state, mcu>>
        /\ thread["sip"].pc = "idle"
    BY <1>10 DEF SipEstablish, Acquire, At
  <2>2. ~active /\ ~simulated
    BY <1>2, <1>5, <2>1 DEF Answering
  <2>3. Call("sip", "ensure", "sipActive")
    BY <1>10, <2>2 DEF SipEstablish
  <2>4. Turned("sip") /\ thread'["sip"].pc = "ensure" /\ thread'["sip"].ret = "sipActive"
    BY <1>1, <2>3, CallTurns DEF LineSteps, Returns
  <2> QED
    BY <1>1, <1>2, <1>3, <1>5, <2>1, <2>2, <2>4
    DEF Answering, Turned, At, Opening, Ends, state, mcu
<1>11. CASE SipActive
  <2>1. /\ thread["sip"].pc = "sipActive" /\ active' /\ Stop("sip")
        /\ lock' = [lock EXCEPT !["session"] = Free]
        /\ UNCHANGED <<simulated, mcu, sip>>
    BY <1>11 DEF SipActive, At, Release
  <2>2. Turned("sip") /\ thread'["sip"].pc = "idle"
    BY <1>1, <2>1, StopTurns
  <2>3. /\ sip = "established" /\ lock["session"] = "sip"
        /\ \A b \in AllActors \ {"sip"} : thread[b].pc \notin Opening \cup Ends
    BY <1>1, <1>2, <2>1 DEF Answering, Opening
  <2> QED
    BY <1>1, <1>2, <1>3, <2>1, <2>2, <2>3
    DEF Answering, Turned, At, Opening, Ends, mcu
<1>12. ASSUME NEW a \in {"sip", "serial"}, End(a), thread[a].pc \in {"idle", "terminate"}
       PROVE  Answering'
  <2>1. /\ sip' = "idle" /\ lock["session"] = Free
        /\ lock' = [lock EXCEPT !["session"] = a]
        /\ UNCHANGED <<state, mcu>>
    BY <1>12 DEF End, Acquire
  <2>2. \/ Call(a, "close", "ended")
        \/ ~active /\ (Go(a, "clear") \/ Go(a, "ended"))
    BY <1>5, <1>12, <2>1, Zenon DEF End
  <2>3. /\ Turned(a)
        /\ \/ thread'[a].pc = "close" /\ thread'[a].ret = "ended"
           \/ thread'[a].pc \in {"clear", "ended"} /\ ~active
    BY <1>1, <2>2, CallTurns, GoTurns DEF LineSteps, Returns
  <2> QED
    BY <1>1, <1>2, <1>3, <1>5, <2>1, <2>3
    DEF Answering, Turned, At, Opening, Ends, state, mcu
<1>13. CASE SipEnd
  BY <1>12, <1>13 DEF SipEnd, At
<1>14. CASE SerialTerminate
  <2>1. CASE End("serial")
    BY <1>12, <1>14, <2>1 DEF SerialTerminate, At
  <2>2. CASE ~End("serial")
    <3>1. /\ sip = "idle" /\ Stop("serial") /\ UNCHANGED <<state, mcu, others>>
          /\ thread["serial"].pc = "terminate"
      BY <1>14, <2>2 DEF SerialTerminate, At
    <3>2. Turned("serial") /\ thread'["serial"].pc = "idle"
      BY <1>1, <3>1, StopTurns
    <3> QED
      BY <1>1, <1>2, <1>3, <3>1, <3>2
      DEF Answering, Turned, At, Opening, Ends, state, mcu, others
  <2> QED
    BY <2>1, <2>2
<1>15. CASE SerialFrame
  <2>1. frames # <<>> /\ frames' = Tail(frames) /\ Head(frames) = "HANG_UP"
    BY <1>1, <1>2, <1>15 DEF SerialFrame, Answering
  <2>2. /\ Go("serial", "terminate") /\ ~active' /\ ~simulated'
        /\ thread["serial"].pc = "idle" /\ UNCHANGED others
    BY <1>15, <2>1 DEF SerialFrame, ClearState, At
  <2>3. Turned("serial") /\ thread'["serial"].pc = "terminate"
    BY <1>1, <2>2, GoTurns DEF LineSteps
  <2>4. \A i \in DOMAIN frames' : frames'[i] = "HANG_UP"
    BY <1>1, <1>2, <2>1 DEF Answering
  <2> QED
    BY <1>1, <1>2, <1>3, <2>2, <2>3, <2>4
    DEF Answering, Turned, At, Opening, Ends, others
<1>16. CASE BackoffElapses
  BY <1>2, <1>16 DEF BackoffElapses, Answering, At, state, mcu
<1>17. CASE McuTimeout
  <2>1. /\ frames' = Append(frames, "HANG_UP") /\ UNCHANGED <<thread, state, others>>
    BY <1>17 DEF McuTimeout
  <2>2. frames' # <<>> /\ \A i \in DOMAIN frames' : frames'[i] = "HANG_UP"
    BY <1>1, <1>2, <2>1 DEF Answering
  <2> QED
    BY <1>2, <2>1, <2>2 DEF Answering, At, state, others
<1> QED
  BY <1>1, <1>2, <1>4, <1>7, <1>8, <1>9, <1>10, <1>11, <1>13, <1>14, <1>15, <1>16,
     <1>17, OnlySipSteps

\* Daemon and panel agree once things are quiet (LineAgrees): call_active is the
\* line when the panel obliges, and a call that is established has its line
\* when only SIP calls use it, whatever the panel refuses or drops.
THEOREM DaemonAndPanelAgree == Spec => []LineAgrees
<1>1. AgreeInv => QuietAgreement
  BY DEF AgreeInv, Agreeing, QuietAgreement, Quiet, At
<1>2. AnswerInv => EstablishedHasLine
  <2>1. "sip" \in AllActors /\ "serial" \in AllActors
    BY DEF AllActors
  <2> QED
    BY <2>1 DEF AnswerInv, Answering, EstablishedHasLine, OnlySip, Quiet, At
<1>3. Init => AgreeInv /\ AnswerInv
  BY AgreeStart, AnswerStart
<1>4. LineInv /\ AgreeInv /\ AnswerInv /\ [Next]_vars => AgreeInv' /\ AnswerInv'
  BY AgreeStep, AnswerStep
<1> QED
  BY <1>1, <1>2, <1>3, <1>4, LineInvariant, PTL DEF Spec, LineAgrees
=============================================================================
