----------------------------- MODULE Board_proofs ------------------------------
(***************************************************************************)
(* Proofs about what resets, reboots or rewrites the board:                *)
(* HardwareWatchdog, for every timeout and feed interval; AudioHealth, for *)
(* every fault time and number of retries; DailyReboot, for every length   *)
(* of day and hour; OtaGuard, for any set of updaters; FirmwareRelease,    *)
(* for any releases.                                                       *)
(***************************************************************************)
EXTENDS HardwareWatchdog, AudioHealth, DailyReboot, OtaGuard, FirmwareRelease,
        TLAPS

-----------------------------------------------------------------------------
(* Both bounds of HardwareWatchdog for every timeout and feed interval.    *)
(* The inductive invariant relates the ages: the driver's count, which     *)
(* only a keepalive resets, bounds the age of the heartbeat from above     *)
(* (Hang); the age of the last feed bounds the count, and is itself        *)
(* bounded by the feed interval for as long as no look was stale (Feeding).*)

Alive == thread.pc \in {"read", "judge", "gone"}

Configured ==
  service # "off" =>
    /\ device.limit = 2 * timeout
    /\ feed >= 1 /\ timeout > 2 * feed

Hang ==
  service = "on" =>
    /\ beat < timeout + device.count
    /\ machine = "up" => device.count < device.limit
    /\ ThreadIs("judge") => beat <= thread.seen

Feeding ==
  service # "off" /\ missed = 0 =>
    /\ ~Alive => device.count <= thread.looked
    /\ Alive => device.count <= thread.fed + Poll
    /\ Alive /\ reported # 1 => thread.fed < 2 * feed + thread.looked

WatchdogInv ==
  /\ WatchdogTypeOK
  /\ Configured
  /\ Hang
  /\ Feeding
  /\ ResetIsReported

LEMMA WatchdogStart == WatchdogInit => WatchdogInv
<1> SUFFICES ASSUME WatchdogInit PROVE WatchdogInv
  OBVIOUS
<1> USE DEF WatchdogInit, ThreadAt, Disarmed
<1>1. thread \in ThreadType
  BY PollAssumption DEF ThreadType
<1>2. WatchdogTypeOK
  BY <1>1 DEF WatchdogTypeOK, DeviceType, ThreadIs
<1>3. Configured /\ Hang /\ Feeding /\ ResetIsReported
  BY DEF Configured, Hang, Feeding, ResetIsReported
<1>. QED
  BY <1>2, <1>3 DEF WatchdogInv

LEMMA AgesTyped ==
  ASSUME thread \in ThreadType, NEW s \in Nat, NEW f \in Nat, NEW l \in 0 .. Poll
  PROVE  [thread EXCEPT !.seen = s, !.fed = f, !.looked = l] \in ThreadType
BY DEF ThreadType

\* The thread's and the driver's records keep their types
LEMMA WatchdogTypesKept == WatchdogTypeOK /\ [WatchdogNext]_watchdogVars => WatchdogTypeOK'
<1> SUFFICES ASSUME WatchdogTypeOK, [WatchdogNext]_watchdogVars
             PROVE  WatchdogTypeOK'
  OBVIOUS
<1>1. thread \in ThreadType /\ device \in DeviceType /\ 0 \in 0 .. Poll
  BY PollAssumption DEF WatchdogTypeOK
<1>2. thread' \in ThreadType
  <2> USE PollAssumption, <1>1 DEF ThreadType, WatchdogTypeOK
  <2>1. CASE StartRefused
    BY <2>1 DEF StartRefused, Disarmed, periods
  <2>2. CASE Start
    BY <2>2 DEF Start, ThreadAt, periods
  <2>3. CASE StartUndone
    BY <2>3 DEF StartUndone, DisarmOrNot, Disarmed, ThreadAt, periods
  <2>4. CASE Created
    BY <2>4 DEF Created, periods
  <2>5. CASE Heartbeat
    BY <2>5 DEF Heartbeat, periods
  <2>6. CASE Begin
    BY <2>6 DEF Begin, ThreadAt, periods
  <2>7. CASE Read
    BY <2>7 DEF Read, periods
  <2>8. CASE JudgeStale
    BY <2>8 DEF JudgeStale, Looked, periods
  <2>9. CASE JudgeFresh
    BY <2>9 DEF JudgeFresh, Looked, periods
  <2>10. CASE Keepalive
    BY <2>10 DEF Keepalive, Looked, periods
  <2>11. CASE Stop
    BY <2>11 DEF Stop, periods
  <2>12. CASE Disarm
    BY <2>12 DEF Disarm, DisarmOrNot, Disarmed, ThreadAt, periods
  <2>13. CASE Crash
    BY <2>13 DEF Crash, ThreadAt, periods
  <2>14. CASE HalfSecond
    <3>1. thread.looked + 1 \in 0 .. Poll
      BY <2>14 DEF HalfSecond
    <3>2. Aged \in ThreadType
      <4>1. thread.seen + 1 \in Nat /\ thread.fed + 1 \in Nat
        BY <1>1
      <4>. QED
        BY <4>1, <3>1, <1>1, AgesTyped DEF Aged
    <3>. QED
      BY <2>14, <3>2 DEF HalfSecond, periods
  <2>15. CASE MachineBoots
    BY <2>15 DEF MachineBoots, Disarmed, ThreadAt, periods
  <2>16. CASE UNCHANGED watchdogVars
    BY <2>16 DEF watchdogVars, periods
  <2>. QED
    BY <2>1, <2>2, <2>3, <2>4, <2>5, <2>6, <2>7, <2>8, <2>9, <2>10, <2>11, <2>12,
       <2>13, <2>14, <2>15, <2>16 DEF WatchdogNext, Thread
<1>3. device' \in DeviceType
  <2> USE TimeoutAssumption, FeedAssumption, <1>1 DEF DeviceType
  <2>1. CASE StartRefused
    <3>1. PICK actual \in Timeouts :
            device' \in {Disarmed, [limit |-> 2 * actual, count |-> 0]}
      BY <2>1 DEF StartRefused
    <3>2. actual \in Nat
      OBVIOUS
    <3>3. Disarmed \in DeviceType /\ [limit |-> 2 * actual, count |-> 0] \in DeviceType
      BY <3>2 DEF Disarmed
    <3>. QED
      BY <3>1, <3>3
  <2>2. CASE Start
    BY <2>2 DEF Start, ThreadAt, periods
  <2>3. CASE StartUndone
    BY <2>3 DEF StartUndone, DisarmOrNot, Disarmed, ThreadAt, periods
  <2>4. CASE Created
    BY <2>4 DEF Created, periods
  <2>5. CASE Heartbeat
    BY <2>5 DEF Heartbeat, periods
  <2>6. CASE Begin
    BY <2>6 DEF Begin, ThreadAt, periods
  <2>7. CASE Read
    BY <2>7 DEF Read, periods
  <2>8. CASE JudgeStale
    BY <2>8 DEF JudgeStale, Looked, periods
  <2>9. CASE JudgeFresh
    BY <2>9 DEF JudgeFresh, Looked, periods
  <2>10. CASE Keepalive
    BY <2>10 DEF Keepalive, Looked, periods
  <2>11. CASE Stop
    BY <2>11 DEF Stop, periods
  <2>12. CASE Disarm
    BY <2>12 DEF Disarm, DisarmOrNot, Disarmed, ThreadAt, periods
  <2>13. CASE Crash
    BY <2>13 DEF Crash, ThreadAt, periods
  <2>14. CASE HalfSecond
    BY <2>14 DEF HalfSecond, Aged, periods
  <2>15. CASE MachineBoots
    BY <2>15 DEF MachineBoots, Disarmed, ThreadAt, periods
  <2>16. CASE UNCHANGED watchdogVars
    BY <2>16 DEF watchdogVars, periods
  <2>. QED
    BY <2>1, <2>2, <2>3, <2>4, <2>5, <2>6, <2>7, <2>8, <2>9, <2>10, <2>11, <2>12,
       <2>13, <2>14, <2>15, <2>16 DEF WatchdogNext, Thread
<1>4. /\ timeout' \in Nat /\ feed' \in Nat /\ beat' \in Nat
     /\ machine' \in {"up", "reset"} /\ {reported, missed}' \subseteq {0, 1}
     /\ service' \in {"off", "on", "stopping"}
  <2> USE TimeoutAssumption, FeedAssumption DEF WatchdogTypeOK
  <2>1. CASE StartRefused
    BY <2>1 DEF StartRefused, Disarmed, periods
  <2>2. CASE Start
    BY <2>2 DEF Start, ThreadAt, periods
  <2>3. CASE StartUndone
    BY <2>3 DEF StartUndone, DisarmOrNot, Disarmed, ThreadAt, periods
  <2>4. CASE Created
    BY <2>4 DEF Created, periods
  <2>5. CASE Heartbeat
    BY <2>5 DEF Heartbeat, periods
  <2>6. CASE Begin
    BY <2>6 DEF Begin, ThreadAt, periods
  <2>7. CASE Read
    BY <2>7 DEF Read, periods
  <2>8. CASE JudgeStale
    BY <2>8 DEF JudgeStale, Looked, periods
  <2>9. CASE JudgeFresh
    BY <2>9 DEF JudgeFresh, Looked, periods
  <2>10. CASE Keepalive
    BY <2>10 DEF Keepalive, Looked, periods
  <2>11. CASE Stop
    BY <2>11 DEF Stop, periods
  <2>12. CASE Disarm
    BY <2>12 DEF Disarm, DisarmOrNot, Disarmed, ThreadAt, periods
  <2>13. CASE Crash
    BY <2>13 DEF Crash, ThreadAt, periods
  <2>14. CASE HalfSecond
    BY <2>14 DEF HalfSecond, Aged, periods
  <2>15. CASE MachineBoots
    BY <2>15 DEF MachineBoots, Disarmed, ThreadAt, periods
  <2>16. CASE UNCHANGED watchdogVars
    BY <2>16 DEF watchdogVars, periods
  <2>. QED
    BY <2>1, <2>2, <2>3, <2>4, <2>5, <2>6, <2>7, <2>8, <2>9, <2>10, <2>11, <2>12,
       <2>13, <2>14, <2>15, <2>16 DEF WatchdogNext, Thread
<1>5. (service' = "off" => ThreadIs("none")') /\ (service' # "off" => ~ThreadIs("none")')
  <2> USE <1>1 DEF WatchdogTypeOK, ThreadType, ThreadIs
  <2>1. CASE StartRefused
    BY <2>1 DEF StartRefused, Disarmed, periods
  <2>2. CASE Start
    BY <2>2 DEF Start, ThreadAt, periods
  <2>3. CASE StartUndone
    BY <2>3 DEF StartUndone, DisarmOrNot, Disarmed, ThreadAt, periods
  <2>4. CASE Created
    BY <2>4 DEF Created, periods
  <2>5. CASE Heartbeat
    BY <2>5 DEF Heartbeat, periods
  <2>6. CASE Begin
    BY <2>6 DEF Begin, ThreadAt, periods
  <2>7. CASE Read
    BY <2>7 DEF Read, periods
  <2>8. CASE JudgeStale
    BY <2>8 DEF JudgeStale, Looked, periods
  <2>9. CASE JudgeFresh
    BY <2>9 DEF JudgeFresh, Looked, periods
  <2>10. CASE Keepalive
    BY <2>10 DEF Keepalive, Looked, periods
  <2>11. CASE Stop
    BY <2>11 DEF Stop, periods
  <2>12. CASE Disarm
    BY <2>12 DEF Disarm, DisarmOrNot, Disarmed, ThreadAt, periods
  <2>13. CASE Crash
    BY <2>13 DEF Crash, ThreadAt, periods
  <2>14. CASE HalfSecond
    BY <2>14 DEF HalfSecond, Aged, periods
  <2>15. CASE MachineBoots
    BY <2>15 DEF MachineBoots, Disarmed, ThreadAt, periods
  <2>16. CASE UNCHANGED watchdogVars
    BY <2>16 DEF watchdogVars, periods
  <2>. QED
    BY <2>1, <2>2, <2>3, <2>4, <2>5, <2>6, <2>7, <2>8, <2>9, <2>10, <2>11, <2>12,
       <2>13, <2>14, <2>15, <2>16 DEF WatchdogNext, Thread
<1>. QED
  BY <1>2, <1>3, <1>4, <1>5 DEF WatchdogTypeOK

LEMMA NextConfigured == WatchdogTypeOK /\ Configured /\ [WatchdogNext]_watchdogVars => Configured'
<1> SUFFICES ASSUME WatchdogTypeOK, Configured, [WatchdogNext]_watchdogVars
             PROVE  Configured'
  OBVIOUS
<1> USE DEF ThreadType, DeviceType, WatchdogTypeOK, Configured, ThreadIs
<1>1. CASE StartRefused
  BY <1>1 DEF StartRefused, Disarmed, periods
<1>2. CASE Start
  <2>1. PICK asked, actual \in Timeouts, interval \in Feeds :
          /\ actual > interval * 2
          /\ device' = [limit |-> 2 * actual, count |-> 0]
          /\ timeout' = actual /\ feed' = interval
    BY <1>2 DEF Start
  <2>2. actual \in Nat /\ interval \in Nat /\ interval >= 1
    BY TimeoutAssumption, FeedAssumption
  <2>3. service' = "on" /\ beat' = 0 /\ machine' = machine /\ machine = "up"
        /\ thread' = ThreadAt("new")
    BY <1>2 DEF Start
  <2>. QED
    BY <2>1, <2>2, <2>3 DEF ThreadAt
<1>3. CASE StartUndone
  BY <1>3 DEF StartUndone, DisarmOrNot, Disarmed, ThreadAt, periods
<1>4. CASE Created
  BY <1>4 DEF Created, periods
<1>5. CASE Heartbeat
  BY <1>5 DEF Heartbeat, periods
<1>6. CASE Begin
  BY <1>6 DEF Begin, ThreadAt, periods
<1>7. CASE Read
  BY <1>7 DEF Read, periods
<1>8. CASE JudgeStale
  BY <1>8 DEF JudgeStale, Looked, Stale, periods
<1>9. CASE JudgeFresh
  BY <1>9 DEF JudgeFresh, Looked, Stale, Due, periods
<1>10. CASE Keepalive
  BY <1>10 DEF Keepalive, Looked, Stale, Due, periods
<1>11. CASE Stop
  BY <1>11 DEF Stop, periods
<1>12. CASE Disarm
  BY <1>12 DEF Disarm, DisarmOrNot, Disarmed, ThreadAt, periods
<1>13. CASE Crash
  BY <1>13 DEF Crash, ThreadAt, periods
<1>14. CASE HalfSecond
  <2>1. CASE service = "off"
    BY <1>14, <2>1 DEF HalfSecond, periods
  <2>2. CASE service # "off"
    <3>1. /\ thread'.pc = thread.pc /\ thread'.seen = thread.seen + 1
          /\ thread'.fed = thread.fed + 1 /\ thread'.looked = thread.looked + 1
      BY <1>14, <2>2 DEF HalfSecond, Aged
    <3>2. device'.limit = device.limit /\ device'.count = device.count + 1
      BY <1>14 DEF HalfSecond
    <3>. QED
      BY <1>14, <2>2, <3>1, <3>2 DEF HalfSecond, periods
  <2>. QED
    BY <2>1, <2>2
<1>15. CASE MachineBoots
  BY <1>15 DEF MachineBoots, Disarmed, ThreadAt, periods
<1>16. CASE UNCHANGED watchdogVars
  BY <1>16 DEF watchdogVars, periods
<1>. QED
  BY <1>1, <1>2, <1>3, <1>4, <1>5, <1>6, <1>7, <1>8, <1>9, <1>10, <1>11, <1>12,
     <1>13, <1>14, <1>15, <1>16 DEF WatchdogNext, Thread

LEMMA NextHang == WatchdogTypeOK /\ Configured /\ Hang /\ [WatchdogNext]_watchdogVars => Hang'
<1> SUFFICES ASSUME WatchdogTypeOK, Configured, Hang, [WatchdogNext]_watchdogVars
             PROVE  Hang'
  OBVIOUS
<1> USE DEF ThreadType, DeviceType, WatchdogTypeOK, Configured, Hang, ThreadIs
<1>1. CASE StartRefused
  BY <1>1 DEF StartRefused, Disarmed, periods
<1>2. CASE Start
  <2>1. PICK asked, actual \in Timeouts, interval \in Feeds :
          /\ actual > interval * 2
          /\ device' = [limit |-> 2 * actual, count |-> 0]
          /\ timeout' = actual /\ feed' = interval
    BY <1>2 DEF Start
  <2>2. actual \in Nat /\ interval \in Nat /\ interval >= 1
    BY TimeoutAssumption, FeedAssumption
  <2>3. service' = "on" /\ beat' = 0 /\ machine' = machine /\ machine = "up"
        /\ thread' = ThreadAt("new")
    BY <1>2 DEF Start
  <2>. QED
    BY <2>1, <2>2, <2>3 DEF ThreadAt
<1>3. CASE StartUndone
  BY <1>3 DEF StartUndone, DisarmOrNot, Disarmed, ThreadAt, periods
<1>4. CASE Created
  BY <1>4 DEF Created, periods
<1>5. CASE Heartbeat
  BY <1>5 DEF Heartbeat, periods
<1>6. CASE Begin
  BY <1>6 DEF Begin, ThreadAt, periods
<1>7. CASE Read
  BY <1>7 DEF Read, periods
<1>8. CASE JudgeStale
  BY <1>8 DEF JudgeStale, Looked, Stale, periods
<1>9. CASE JudgeFresh
  BY <1>9 DEF JudgeFresh, Looked, Stale, Due, periods
<1>10. CASE Keepalive
  BY <1>10 DEF Keepalive, Looked, Stale, Due, periods
<1>11. CASE Stop
  BY <1>11 DEF Stop, periods
<1>12. CASE Disarm
  BY <1>12 DEF Disarm, DisarmOrNot, Disarmed, ThreadAt, periods
<1>13. CASE Crash
  BY <1>13 DEF Crash, ThreadAt, periods
<1>14. CASE HalfSecond
  <2>1. CASE service = "off"
    BY <1>14, <2>1 DEF HalfSecond, periods
  <2>2. CASE service # "off"
    <3>1. /\ thread'.pc = thread.pc /\ thread'.seen = thread.seen + 1
          /\ thread'.fed = thread.fed + 1 /\ thread'.looked = thread.looked + 1
      BY <1>14, <2>2 DEF HalfSecond, Aged
    <3>2. device'.limit = device.limit /\ device'.count = device.count + 1
      BY <1>14 DEF HalfSecond
    <3>. QED
      BY <1>14, <2>2, <3>1, <3>2 DEF HalfSecond, periods
  <2>. QED
    BY <2>1, <2>2
<1>15. CASE MachineBoots
  BY <1>15 DEF MachineBoots, Disarmed, ThreadAt, periods
<1>16. CASE UNCHANGED watchdogVars
  BY <1>16 DEF watchdogVars, periods
<1>. QED
  BY <1>1, <1>2, <1>3, <1>4, <1>5, <1>6, <1>7, <1>8, <1>9, <1>10, <1>11, <1>12,
     <1>13, <1>14, <1>15, <1>16 DEF WatchdogNext, Thread

LEMMA NextFeeding == WatchdogTypeOK /\ Configured /\ Feeding /\ [WatchdogNext]_watchdogVars => Feeding'
<1> SUFFICES ASSUME WatchdogTypeOK, Configured, Feeding, [WatchdogNext]_watchdogVars
             PROVE  Feeding'
  OBVIOUS
<1> USE PollAssumption
<1> USE DEF ThreadType, DeviceType, WatchdogTypeOK, Configured, Feeding, Alive, ThreadIs
<1>1. CASE StartRefused
  BY <1>1 DEF StartRefused, Disarmed, periods
<1>2. CASE Start
  <2>1. PICK asked, actual \in Timeouts, interval \in Feeds :
          /\ actual > interval * 2
          /\ device' = [limit |-> 2 * actual, count |-> 0]
          /\ timeout' = actual /\ feed' = interval
    BY <1>2 DEF Start
  <2>2. actual \in Nat /\ interval \in Nat /\ interval >= 1
    BY TimeoutAssumption, FeedAssumption
  <2>3. service' = "on" /\ beat' = 0 /\ machine' = machine /\ machine = "up"
        /\ thread' = ThreadAt("new")
    BY <1>2 DEF Start
  <2>. QED
    BY <2>1, <2>2, <2>3 DEF ThreadAt
<1>3. CASE StartUndone
  BY <1>3 DEF StartUndone, DisarmOrNot, Disarmed, ThreadAt, periods
<1>4. CASE Created
  BY <1>4 DEF Created, periods
<1>5. CASE Heartbeat
  BY <1>5 DEF Heartbeat, periods
<1>6. CASE Begin
  BY <1>6 DEF Begin, ThreadAt, periods
<1>7. CASE Read
  BY <1>7 DEF Read, periods
<1>8. CASE JudgeStale
  BY <1>8 DEF JudgeStale, Looked, Stale, periods
<1>9. CASE JudgeFresh
  BY <1>9 DEF JudgeFresh, Looked, Stale, Due, periods
<1>10. CASE Keepalive
  BY <1>10 DEF Keepalive, Looked, Stale, Due, periods
<1>11. CASE Stop
  BY <1>11 DEF Stop, periods
<1>12. CASE Disarm
  BY <1>12 DEF Disarm, DisarmOrNot, Disarmed, ThreadAt, periods
<1>13. CASE Crash
  BY <1>13 DEF Crash, ThreadAt, periods
<1>14. CASE HalfSecond
  <2>1. CASE service = "off"
    BY <1>14, <2>1 DEF HalfSecond, periods
  <2>2. CASE service # "off"
    <3>1. /\ thread'.pc = thread.pc /\ thread'.seen = thread.seen + 1
          /\ thread'.fed = thread.fed + 1 /\ thread'.looked = thread.looked + 1
      BY <1>14, <2>2 DEF HalfSecond, Aged
    <3>2. device'.limit = device.limit /\ device'.count = device.count + 1
      BY <1>14 DEF HalfSecond
    <3>. QED
      BY <1>14, <2>2, <3>1, <3>2 DEF HalfSecond, periods
  <2>. QED
    BY <2>1, <2>2
<1>15. CASE MachineBoots
  BY <1>15 DEF MachineBoots, Disarmed, ThreadAt, periods
<1>16. CASE UNCHANGED watchdogVars
  BY <1>16 DEF watchdogVars, periods
<1>. QED
  BY <1>1, <1>2, <1>3, <1>4, <1>5, <1>6, <1>7, <1>8, <1>9, <1>10, <1>11, <1>12,
     <1>13, <1>14, <1>15, <1>16 DEF WatchdogNext, Thread

\* Only a tick resets the device
LEMMA NextReported ==
  /\ WatchdogTypeOK /\ Configured /\ Feeding /\ ResetIsReported
  /\ [WatchdogNext]_watchdogVars
  => ResetIsReported'
<1> SUFFICES ASSUME WatchdogTypeOK, Configured, Feeding, ResetIsReported,
                    [WatchdogNext]_watchdogVars
             PROVE  ResetIsReported'
  OBVIOUS
<1> USE DEF ThreadType, DeviceType, WatchdogTypeOK, ResetIsReported, ThreadIs
<1>1. CASE HalfSecond
  <2>1. SUFFICES ASSUME machine' = "reset", service # "off", missed = 0, reported # 1
                 PROVE  FALSE
    BY <1>1 DEF HalfSecond, Aged
  <2>2. device.count + 1 >= 2 * timeout /\ thread.looked < Poll
    BY <1>1, <2>1 DEF HalfSecond, Configured
  <2>3. timeout >= 3 /\ timeout > 2 * feed
    BY <2>1 DEF Configured
  <2>4. CASE Alive
    <3>1. device.count <= thread.fed + Poll /\ thread.fed < 2 * feed + thread.looked
      BY <2>1, <2>4 DEF Feeding
    <3>. QED
      BY <3>1, <2>2, <2>3, PollAssumption
  <2>5. CASE ~Alive
    <3>1. device.count <= thread.looked
      BY <2>1, <2>5 DEF Feeding
    <3>. QED
      BY <3>1, <2>2, <2>3, PollAssumption
  <2>. QED
    BY <2>4, <2>5
<1>2. CASE UNCHANGED watchdogVars
  BY <1>2 DEF watchdogVars
<1>3. CASE machine' = "up"
  BY <1>3
<1>. QED
  BY <1>1, <1>2, <1>3 DEF WatchdogNext, Thread, StartRefused, Start, StartUndone, Created,
     Heartbeat, Begin, Read, JudgeStale, JudgeFresh, Keepalive, Stop, Disarm, Crash, MachineBoots

LEMMA WatchdogStep == WatchdogInv /\ [WatchdogNext]_watchdogVars => WatchdogInv'
<1> SUFFICES ASSUME WatchdogInv, [WatchdogNext]_watchdogVars PROVE WatchdogInv'
  OBVIOUS
<1>1. WatchdogTypeOK' /\ Configured' /\ Hang'
  BY WatchdogTypesKept, NextConfigured, NextHang DEF WatchdogInv
<1>2. Feeding' /\ ResetIsReported'
  BY NextFeeding, NextReported DEF WatchdogInv
<1>. QED
  BY <1>1, <1>2 DEF WatchdogInv

\* The inductive invariant holds of every behaviour.
THEOREM WatchdogInvariant == WatchdogSpec => []WatchdogInv
<1>. QED
  BY WatchdogStart, WatchdogStep, PTL DEF WatchdogSpec

\* The state of hardware_watchdog.c is well formed, and its thread is gone
\* before the descriptor it feeds is closed.
THEOREM WatchdogTyped == WatchdogSpec => []WatchdogTypeOK
<1>1. WatchdogInv => WatchdogTypeOK
  BY DEF WatchdogInv
<1>. QED
  BY WatchdogInvariant, <1>1, PTL

\* A hung main loop is reset within one and a half timeouts, whichever timeout
\* is configured and whether or not keepalives fail.
THEOREM HangIsBounded == WatchdogSpec => []HungLoopIsReset
<1>1. WatchdogInv => HungLoopIsReset
  BY DEF ThreadType, DeviceType, WatchdogInv, Hang, Configured, HungLoopIsReset, WatchdogTypeOK
<1>. QED
  BY WatchdogInvariant, <1>1, PTL

\* As long as no keepalive has failed, no daemon is reset before its thread
\* has reported the stale heartbeat.
THEOREM NoUnreportedReset == WatchdogSpec => []ResetIsReported
<1>1. WatchdogInv => ResetIsReported
  BY DEF WatchdogInv
<1>. QED
  BY WatchdogInvariant, <1>1, PTL

-----------------------------------------------------------------------------
(* The board is never rebooted for a silence shorter than the fault time   *)
(* times the retries, for every fault time and number of retries.  What    *)
(* has to be strengthened is the account of the silence: while no frame    *)
(* has been heard since the last check, and no check was masked, the       *)
(* checks counted are at least those the attempts and the age of the       *)
(* silence stand for (Accounted).                                          *)

Accounted ==
  /\ peak = 0 /\ masked = "no" => flatFor >= Fault * attempts + silent + 1
  /\ system = "up" => attempts < Retries
  /\ RebootNeedsSilence

AudioInv == AudioTypeOK /\ Accounted

LEMMA AudioStart == AudioInit => AudioInv
<1> SUFFICES ASSUME AudioInit PROVE AudioInv
  OBVIOUS
<1> USE FaultAssumption, RetriesAssumption, MaxQuietAssumption DEF AudioInit, BetweenChecks
<1>1. MaxQuiet \in Nat /\ Fault * attempts = 0
  OBVIOUS
<1>2. AudioTypeOK
  BY <1>1 DEF AudioTypeOK
<1>3. Accounted
  BY <1>1 DEF Accounted, RebootNeedsSilence
<1>. QED
  BY <1>2, <1>3 DEF AudioInv

\* What the nonlinear arithmetic comes down to
LEMMA Products ==
  ASSUME NEW a \in Nat
  PROVE  /\ Fault * a \in Nat /\ Fault * (a + 1) = Fault * a + Fault
         /\ a < Retries => Fault * a + Fault <= Fault * Retries
<1>1. Fault \in Nat /\ Retries \in Nat
  BY FaultAssumption, RetriesAssumption
<1>2. Fault * a \in Nat /\ Fault * (a + 1) = Fault * a + Fault
  BY <1>1
<1>3. ASSUME a < Retries PROVE Fault * a + Fault <= Fault * Retries
  <2>1. PICK b \in Nat : Retries = a + 1 + b
    <3>1. Retries - (a + 1) \in Nat /\ Retries = a + 1 + (Retries - (a + 1))
      BY <1>1, <1>3
    <3>. QED
      BY <3>1
  <2>2. Fault * Retries = Fault * a + Fault + Fault * b /\ Fault * b \in Nat
    BY <1>1, <2>1
  <2>. QED
    BY <1>1, <1>2, <2>2
<1>. QED
  BY <1>2, <1>3

LEMMA AudioTypesKept == AudioTypeOK /\ Accounted /\ [AudioNext]_audioVars => AudioTypeOK'
<1> SUFFICES ASSUME AudioTypeOK, Accounted, [AudioNext]_audioVars PROVE AudioTypeOK'
  OBVIOUS
<1> USE FaultAssumption, RetriesAssumption, MaxQuietAssumption DEF AudioTypeOK, Accounted
<1>1. CASE CaptureChanges
  BY <1>1 DEF CaptureChanges, HealthAt, audioUsers, judged, account
<1>2. CASE Frame
  BY <1>2 DEF Frame, Muted, HealthAt, audioUsers, judged, account
<1>3. CASE Listen
  BY <1>3 DEF Listen, Ensured, HealthAt, audioUsers, judged, account
<1>4. CASE Leave
  BY <1>4 DEF Leave, AliveStill, MaybeStopped, HealthAt, audioUsers, judged, account
<1>5. CASE SipAttaches
  BY <1>5 DEF SipAttaches, Ensured, HealthAt, audioUsers, judged, account
<1>6. CASE SipDetaches
  BY <1>6 DEF SipDetaches, AliveStill, MaybeStopped, HealthAt, audioUsers, judged, account
<1>7. CASE HealthLook
  BY <1>7 DEF HealthLook, HealthAt, audioUsers, judged, account
<1>8. CASE Calm
  BY <1>8 DEF Calm, Taken, Counted, BetweenChecks, HealthAt, audioUsers, judged, account
<1>9. CASE Silent
  BY <1>9 DEF Silent, Taken, Counted, BetweenChecks, HealthAt, audioUsers, judged, account
<1>10. CASE Restart
  BY <1>10 DEF Restart, AliveStill, Faulted, Taken, Counted, HealthAt, audioUsers, judged, account
<1>11. CASE Restarted
  BY <1>11 DEF Restarted, Ensured, BetweenChecks, HealthAt, audioUsers, judged, account
<1>12. CASE Wait
  BY <1>12 DEF Wait, Faulted, Taken, Counted, BetweenChecks, HealthAt, audioUsers, judged, account
<1>13. CASE RebootForAudio
  BY <1>13 DEF RebootForAudio, Faulted, Taken, Counted, HealthAt, audioUsers, judged, account
<1>14. CASE AudioBoots
  BY <1>14 DEF AudioBoots, BetweenChecks, HealthAt, audioUsers, judged, account
<1>16. CASE MuteFor \/ MuteLasts \/ MuteEnds
  BY <1>16 DEF MuteFor, MuteLasts, MuteEnds, Muted, MuteBecomes, audioUsers, judged, account
<1>15. CASE UNCHANGED audioVars
  BY <1>15 DEF audioVars, audioUsers, judged, account
<1>. QED
  BY <1>1, <1>2, <1>3, <1>4, <1>5, <1>6, <1>7, <1>8, <1>9, <1>10,
     <1>11, <1>12, <1>13, <1>14, <1>15, <1>16 DEF AudioNext, HealthCheck

LEMMA NextAccounted == AudioTypeOK /\ Accounted /\ [AudioNext]_audioVars => Accounted'
<1> SUFFICES ASSUME AudioTypeOK, Accounted, [AudioNext]_audioVars PROVE Accounted'
  OBVIOUS
<1> USE FaultAssumption, RetriesAssumption, MaxQuietAssumption
<1> USE DEF AudioTypeOK, Accounted, RebootNeedsSilence
<1>1. CASE CaptureChanges
  BY <1>1 DEF CaptureChanges, HealthAt, audioUsers, judged, account
<1>2. CASE Frame
  BY <1>2 DEF Frame, Muted, HealthAt, audioUsers, judged, account
<1>3. CASE Listen
  BY <1>3 DEF Listen, Ensured, HealthAt, audioUsers, judged, account
<1>4. CASE Leave
  BY <1>4 DEF Leave, AliveStill, MaybeStopped, HealthAt, audioUsers, judged, account
<1>5. CASE SipAttaches
  BY <1>5 DEF SipAttaches, Ensured, HealthAt, audioUsers, judged, account
<1>6. CASE SipDetaches
  BY <1>6 DEF SipDetaches, AliveStill, MaybeStopped, HealthAt, audioUsers, judged, account
<1>7. CASE HealthLook
  BY <1>7 DEF HealthLook, HealthAt, audioUsers, judged, account
<1>8. CASE Calm
  BY <1>8 DEF Calm, Taken, Counted, BetweenChecks, HealthAt, audioUsers, judged, account
<1>9. CASE Silent
  <2>1. peak = 0 /\ checker.active # "no" /\ silent + 1 < Fault /\ system = "up"
    BY <1>9 DEF Silent, Sound, HealthAt
  <2>2. silent' = silent + 1 /\ attempts' = attempts /\ flatFor' = Counted
        /\ system' = system /\ peak' = 0 /\ masked' = masked
    BY <1>9 DEF Silent, Taken
  <2>3. Fault * attempts \in Nat /\ Fault * attempts + Fault <= Fault * Retries
        /\ Fault * Retries \in Nat
    BY <2>1, Products
  <2>4. masked = "no" => flatFor' >= Fault * attempts + silent + 2
    BY <2>1, <2>2, <2>3 DEF Counted
  <2>. QED
    BY <2>1, <2>2, <2>3, <2>4
<1>10. CASE Restart
  <2>1. peak = 0 /\ checker.active # "no" /\ silent + 1 >= Fault /\ system = "up"
    BY <1>10 DEF Restart, Faulted, Sound, HealthAt
  <2>2. silent' = 0 /\ attempts' = attempts + 1 /\ flatFor' = Counted /\ masked' = masked
    BY <1>10 DEF Restart, AliveStill, Faulted, Taken
  <2>3. masked = "no" => flatFor' >= Fault * attempts' + 1
    BY <2>1, <2>2, Products DEF Counted
  <2>. QED
    BY <2>1, <2>2, <2>3, <1>10, Products DEF Restart, HealthAt, audioUsers
<1>11. CASE Restarted
  BY <1>11 DEF Restarted, Ensured, BetweenChecks, HealthAt, audioUsers, judged, account
<1>12. CASE Wait
  <2>1. peak = 0 /\ checker.active # "no" /\ silent + 1 >= Fault /\ system = "up"
    BY <1>12 DEF Wait, Faulted, Sound, HealthAt
  <2>2. silent' = 0 /\ attempts' = attempts + 1 /\ flatFor' = Counted /\ masked' = masked
    BY <1>12 DEF Wait, Faulted, Taken
  <2>3. masked = "no" => flatFor' >= Fault * attempts' + 1
    BY <2>1, <2>2, Products DEF Counted
  <2>. QED
    BY <2>1, <2>2, <2>3, <1>12, Products DEF Wait, HealthAt, audioUsers
<1>13. CASE RebootForAudio
  <2>1. peak = 0 /\ checker.active # "no" /\ silent + 1 >= Fault /\ system = "up"
    BY <1>13 DEF RebootForAudio, Faulted, Sound, HealthAt
  <2>2. silent' = 0 /\ attempts' = attempts + 1 /\ flatFor' = Counted /\ masked' = masked
    BY <1>13 DEF RebootForAudio, Faulted, Taken
  <2>3. masked = "no" => flatFor' >= Fault * attempts' + 1
    BY <2>1, <2>2, Products DEF Counted
  <2>4. attempts' = Retries /\ system' = "reset" /\ peak' = 0
    BY <2>1, <2>2, <1>13 DEF RebootForAudio, Faulted, Taken
  <2>5. masked = "no" => flatFor' >= Fault * Retries + 1
    BY <2>3, <2>4
  <2>6. flatFor' \in Nat /\ Fault * Retries \in Nat
    BY <2>2 DEF Counted
  <2>7. masked = "no" => flatFor' > Fault * Retries
    BY <2>5, <2>6
  <2>8. masked = "no" => flatFor' >= Fault * attempts' + silent' + 1
    BY <2>2, <2>3
  <2>. QED
    BY <2>2, <2>4, <2>7, <2>8
<1>14. CASE AudioBoots
  BY <1>14 DEF AudioBoots, BetweenChecks, HealthAt, audioUsers, judged, account
<1>16. CASE MuteFor \/ MuteLasts \/ MuteEnds
  BY <1>16 DEF MuteFor, MuteLasts, MuteEnds, Muted, MuteBecomes, audioUsers, judged, account
<1>15. CASE UNCHANGED audioVars
  BY <1>15 DEF audioVars, audioUsers, judged, account
<1>. QED
  BY <1>1, <1>2, <1>3, <1>4, <1>5, <1>6, <1>7, <1>8, <1>9, <1>10,
     <1>11, <1>12, <1>13, <1>14, <1>15, <1>16 DEF AudioNext, HealthCheck

\* The account holds of every behaviour.
THEOREM AudioInvariant == AudioSpec => []AudioInv
<1>1. AudioInv /\ [AudioNext]_audioVars => AudioInv'
  BY AudioTypesKept, NextAccounted DEF AudioInv
<1>. QED
  BY AudioStart, <1>1, PTL DEF AudioSpec

\* The check keeps its attempts, its silence and the health it reports in step.
THEOREM AudioTyped == AudioSpec => []AudioTypeOK
<1>1. AudioInv => AudioTypeOK
  BY DEF AudioInv
<1>. QED
  BY AudioInvariant, <1>1, PTL

\* No board is rebooted whose capture was heard, or alive for a whole check,
\* within Retries fault periods, unless a mute hid it for a whole check.
THEOREM NoEarlyReboot == AudioSpec => []RebootNeedsSilence
<1>1. AudioInv => RebootNeedsSilence
  BY DEF AudioInv, Accounted
<1>. QED
  BY AudioInvariant, <1>1, PTL

-----------------------------------------------------------------------------
(* The scheduled reboot happens in its hour and spares who stayed, for     *)
(* every length of day and hour and every time that may be configured.     *)

\* A minute after the configured one by less than an hour is in the hour that
\* follows it: the comparison of main() within one day is sound.
LEMMA WindowIsInHour ==
  ASSUME NEW now \in Int, NEW from \in Int, Window(now, from)
  PROVE  InHour(now, from)
<1>1. now - from \in 0..(Day - 1)
  BY DayAssumption DEF Window
<1>2. (now - from) % Day = now - from
  BY <1>1, DayAssumption
<1> QED
  BY <1>2, DayAssumption DEF Window, InHour

\* Nobody is remembered as having stayed who has gone
Present == main.stayed \subseteq users

\* A check under way has found the clock set and the time in the window, and
\* neither changes before it is over
Timely ==
  main.step # "poll" => /\ board = "up" /\ clock = "set"
                        /\ main.due \in Dues /\ Window(minute, main.due)

\* Whoever has been asked for was not there
Spared ==
  /\ main.step \in {"video", "audio", "reboot"} => "call" \notin main.stayed
  /\ main.step \in {"audio", "reboot"} => "video" \notin main.stayed
  /\ main.step = "reboot" => "audio" \notin main.stayed

RebootInv == RebootTypeOK /\ Present /\ Timely /\ Spared

LEMMA Wraps ==
  ASSUME NEW n \in Nat \ {0}, NEW m \in 0..(n - 1)
  PROVE  (m + 1) % n \in 0..(n - 1)
  OBVIOUS

LEMMA DailyStart == DailyInit => RebootInv
  BY DuesAssumption, DayAssumption, YearAssumption
  DEF DailyInit, Users, RebootInv, RebootTypeOK, Present, Timely, Spared, Polling

LEMMA DailyStep == RebootInv /\ [DailyNext]_dailyVars => RebootInv'
<1> SUFFICES ASSUME RebootInv, [DailyNext]_dailyVars PROVE RebootInv'
  OBVIOUS
<1> USE DuesAssumption, DayAssumption, YearAssumption
    DEF Users, RebootInv, RebootTypeOK, Present, Timely, Spared, MainAt, config, Polling
<1>1. CASE CheckTime
  <2>1. CASE UNCHANGED main
    BY <1>1, <2>1 DEF CheckTime
  <2>2. CASE clock = "set" /\ Window(minute, due) /\ main' =
               [step |-> "call", yday |-> yday, due |-> due, stayed |-> users]
    BY <1>1, <2>2 DEF CheckTime
  <2> QED
    BY <1>1, <2>1, <2>2 DEF CheckTime
<1>2. ASSUME NEW user \in Users, NEW next \in Users \cup {"reboot"}, Look(user, next),
             <<user, next>> \in {<<"call", "video">>, <<"video", "audio">>,
                                <<"audio", "reboot">>}
      PROVE  RebootInv'
  BY <1>2 DEF Look, MainGoes, Users
<1>3. CASE LookAll
  BY <1>2, <1>3 DEF LookAll, Users
<1>4. CASE RebootBoard
  BY <1>4 DEF RebootBoard
<1>5. CASE BootBoard
  BY <1>5 DEF BootBoard
<1>6. CASE ClockIsSet
  BY <1>6 DEF ClockIsSet
<1>7. CASE Tick
  <2>1. minute' \in 0..(Day - 1)
    BY <1>7, Wraps DEF Tick
  <2>2. yday' \in 0..(Year - 1)
    BY <1>7, Wraps DEF Tick
  <2> QED
    BY <1>7, <2>1, <2>2 DEF Tick
<1>8. ASSUME NEW user \in Users, Come(user) PROVE RebootInv'
  BY <1>8 DEF Come
<1>9. ASSUME NEW user \in Users, Go(user) PROVE RebootInv'
  BY <1>9 DEF Go
<1>10. CASE Configure
  BY <1>10 DEF Configure
<1>11. CASE UNCHANGED dailyVars
  BY <1>11 DEF dailyVars
<1> QED
  BY <1>1, <1>3, <1>4, <1>5, <1>6, <1>7, <1>8, <1>9, <1>10, <1>11 DEF DailyNext

LEMMA DailyInvariant == DailySpec => []RebootInv
  BY DailyStart, DailyStep, PTL DEF DailySpec

\* The board reboots only by a clock that is set and inside the hour that
\* follows the configured time, for every such time and length of the day
\* (main(): minutes_now against minutes_due).
THEOREM RebootsInItsHour == DailySpec => []RebootIsDue
<1>1. ASSUME RebootInv, MainAt("reboot") PROVE clock = "set" /\ InHour(minute, main.due)
  <2>1. clock = "set" /\ main.due \in Dues /\ Window(minute, main.due)
    BY <1>1 DEF RebootInv, Timely, MainAt
  <2>2. minute \in Int
    BY <1>1, DayAssumption DEF RebootInv, RebootTypeOK
  <2>3. \A d \in Dues : d \in Int
    BY <2>1, DuesAssumption, DayAssumption
  <2> QED
    BY <2>1, <2>2, <2>3, WindowIsInHour
<1>2. RebootInv => RebootIsDue
  BY <1>1 DEF RebootIsDue
<1> QED
  BY <1>2, DailyInvariant, PTL

\* Whoever used the intercom from the first of main()'s three questions to the
\* reboot would have been found by one of them.
THEOREM RebootSpares == DailySpec => []SparesWhoStayed
<1>1. RebootInv => SparesWhoStayed
  BY DEF RebootInv, RebootTypeOK, Spared, SparesWhoStayed, MainAt, Users
<1> QED
  BY <1>1, DailyInvariant, PTL

\* The two together: main() reboots on schedule neither at a wrong time nor upon
\* a user who was there all along.
THEOREM RebootsLawfully == DailySpec => []RebootIsLawful
  BY RebootsInItsHour, RebootSpares, PTL DEF RebootIsLawful
-----------------------------------------------------------------------------

\* A quiet minute that has been checked and in which no check is under way is
\* outside the window: the check gives up only for somebody who is there.
Quiet ==
  /\ board = "up" => last = -1
  /\ quiet = "yes" => /\ board = "up" /\ clock = "set" /\ enabled = "yes"
                      /\ users = {}
                      /\ checked = "yes" /\ main.step = "poll" => ~Window(minute, due)

LEMMA QuietStep == RebootInv /\ Quiet /\ [DailyNext]_dailyVars => Quiet'
<1> SUFFICES ASSUME RebootInv, Quiet, [DailyNext]_dailyVars PROVE Quiet'
  OBVIOUS
<1> USE DEF RebootInv, Quiet, MainAt, config, Polling, Users
<1>1. CASE CheckTime
  <2>1. yday # -1
    BY YearAssumption DEF RebootTypeOK
  <2>2. CASE main'.step = "call"
    BY <1>1, <2>2 DEF CheckTime, RebootTypeOK
  <2>3. CASE UNCHANGED main /\ ~(clock = "set" /\ Window(minute, due) /\ yday # last)
    BY <1>1, <2>1, <2>3 DEF CheckTime, RebootTypeOK
  <2> QED
    BY <1>1, <2>2, <2>3 DEF CheckTime
<1>2. ASSUME NEW user \in Users, NEW next \in Users \cup {"reboot"}, Look(user, next)
      PROVE  Quiet'
  BY <1>2 DEF Look, MainGoes, RebootTypeOK
<1>3. CASE LookAll
  BY <1>2, <1>3 DEF LookAll
<1>4. CASE RebootBoard
  BY <1>4 DEF RebootBoard
<1>5. CASE BootBoard
  BY <1>5 DEF BootBoard, RebootTypeOK
<1>6. CASE ClockIsSet
  BY <1>6 DEF ClockIsSet
<1>7. CASE Tick
  BY <1>7 DEF Tick
<1>8. ASSUME NEW user \in Users, Come(user) PROVE Quiet'
  BY <1>8 DEF Come
<1>9. ASSUME NEW user \in Users, Go(user) PROVE Quiet'
  BY <1>9 DEF Go
<1>10. CASE Configure
  BY <1>10 DEF Configure
<1>11. CASE UNCHANGED dailyVars
  BY <1>11 DEF dailyVars
<1> QED
  BY <1>1, <1>3, <1>4, <1>5, <1>6, <1>7, <1>8, <1>9, <1>10, <1>11 DEF DailyNext

\* Before the hour of a time that leaves room for it the clock is not in it
LEMMA OutsideWindow ==
  ASSUME NEW now \in 0..(Day - 1), NEW from \in 0..(Day - 1),
         from + Hour <= Day, ~Window(now, from)
  PROVE  ~InHour(now, from)
<1>1. CASE now < from
  <2>1. now - from + Day \in 0..(Day - 1)
    BY <1>1, DayAssumption
  <2>2. (now - from) % Day = now - from + Day
    BY <2>1, DayAssumption
  <2> QED
    BY <2>2, DayAssumption DEF InHour
<1>2. CASE now >= from + Hour
  <2>1. now - from \in 0..(Day - 1)
    BY <1>2, DayAssumption
  <2>2. (now - from) % Day = now - from
    BY <2>1, DayAssumption
  <2> QED
    BY <1>2, <2>2, DayAssumption DEF InHour
<1> QED
  BY <1>1, <1>2, DayAssumption DEF Window

\* No quiet minute of the hour passes without the reboot, for every time whose
\* hour ends before midnight (main()'s check, its day last fired and its three
\* questions together).
THEOREM QuietHourReboots ==
  ASSUME \A d \in Dues : d + Hour <= Day
  PROVE  DailySpec => DueIsDone
<1>1. DailyInit => Quiet
  BY DEF DailyInit, Quiet, Polling
<1>2. ASSUME RebootInv, Quiet, Tick, quiet = "yes" PROVE ~InHour(minute, due)
  <2>1. ~Window(minute, due)
    BY <1>2 DEF Quiet, Tick
  <2>2. minute \in 0..(Day - 1) /\ due \in Dues
    BY <1>2 DEF RebootInv, RebootTypeOK
  <2>3. due \in 0..(Day - 1) /\ due + Hour <= Day
    BY <2>2, DuesAssumption
  <2> QED
    BY <2>1, <2>2, <2>3, OutsideWindow
<1>3. RebootInv /\ Quiet /\ [DailyNext]_dailyVars
        => [Tick => ~(quiet = "yes" /\ InHour(minute, due))]_dailyVars
  BY <1>2
<1> QED
  BY <1>1, <1>3, DailyInvariant, QuietStep, PTL DEF DailySpec, DueIsDone

-----------------------------------------------------------------------------
(* Proofs about OtaGuard for any set of updaters: as long as the           *)
(* supervisor's pass over the guard is not overtaken, the flash is written *)
(* by one updater at a time, with no daemon and no watchdog, and once it   *)
(* is partly written it stays guarded and the device is not rebooted.      *)

Steps == {"off", "download", "create", "fetch", "check", "guard", "visit", "wait", "kill",
          "disarm", "open", "flashing", "umount", "erase", "write", "verify",
          "compare", "complete", "reboot", "cancel", "ended"}

GuardStates == {"", "PREPARE", "FLASHING", "VERIFYING", "COMPLETE"}

\* What the supervisor's copy of the guard and its next step may be
OtaTypes ==
  /\ up \in [Updater -> Steps]
  /\ guard \in [state : GuardStates, pid : Updater \cup {NoPid}]
  /\ sup \in [pc : {"check", "readState", "readPid", "judge", "remove", "start", "wait"},
              state : GuardStates, pid : Updater \cup {NoPid}]
  /\ (guard.state = "") <=> (guard.pid = NoPid)

Marked == guard.state \notin {"", "PREPARE"}

\* An updater past the guard owns it ...
OwnsGuard == \A u \in Updater : Critical(u) => guard.pid = u

\* ... and what the supervisor has read in this pass is still so
PassIsCurrent ==
  /\ sup.pc \in {"readPid", "judge"} => sup.state = guard.state
  /\ sup.pc = "judge" => sup.pid = guard.pid
  /\ sup.pc = "remove" =>
       ~Marked /\ \A u \in Updater : Critical(u) => guard.pid # u

Launching == sup.pc \in {"remove", "start"}

\* From the end of the stop phase on no daemon is there or about to be started
Alone(u) == up[u] \in {"disarm", "open", "flashing", "umount"} \/ Touching(u)
AloneInv == \A u \in Updater : Alone(u) => daemon = "down" /\ ~Launching
DisarmedInv ==
  \A u \in Updater :
    Alone(u) /\ up[u] # "disarm" => ~armed

\* The state of the guard follows the updater through the flashing
MarkedInv ==
  \A u \in Updater : up[u] = "umount" \/ Touching(u) => Marked

\* What a partly written flash excludes
BeforeErase(u) ==
  up[u] \in {"visit", "wait", "kill", "disarm", "open", "flashing", "umount",
             "erase", "cancel", "complete", "reboot"}
PartialInv ==
  flash = "partial" =>
    /\ Marked
    /\ daemon = "down" /\ ~armed /\ ~Launching
    /\ \A u \in Updater : ~BeforeErase(u)

GuardInv == /\ OtaTypes /\ OwnsGuard /\ PassIsCurrent /\ AloneInv /\ DisarmedInv
        /\ MarkedInv /\ PartialInv

-----------------------------------------------------------------------------

LEMMA GuardStart == Init => GuardInv
<1> SUFFICES ASSUME Init PROVE GuardInv
  OBVIOUS
<1>1. OtaTypes
  BY UpdaterAssumption DEF Init, OtaTypes, Steps, GuardStates, NoGuard, SupStart
<1>2. OwnsGuard /\ AloneInv /\ DisarmedInv /\ MarkedInv
  BY DEF Init, OwnsGuard, AloneInv, DisarmedInv, MarkedInv, Alone, Critical, Touching
<1>3. PassIsCurrent /\ PartialInv
  BY DEF Init, PassIsCurrent, PartialInv, SupStart
<1> QED BY <1>1, <1>2, <1>3 DEF GuardInv

LEMMA NoGuardFields == ~Guarded => guard.state = "" /\ guard.pid = NoPid
<1>1. NoGuard.state = "" /\ NoGuard.pid = NoPid
  BY DEF NoGuard
<1>2. ~Guarded => guard = NoGuard
  BY DEF Guarded
<1> QED BY <1>1, <1>2

\* The updater's steps: by MayMove none of them overtakes the supervisor
LEMMA UpdaterPreserves ==
  ASSUME PromptPass, GuardInv, NEW u \in Updater,
         Install(u) \/ UpdaterStep(u) \/ Die(u)
  PROVE  GuardInv'
<1> USE UpdaterAssumption
    DEF GuardInv, OtaTypes, Steps, OwnsGuard, PassIsCurrent, AloneInv, DisarmedInv,
        MarkedInv, PartialInv, Alone, Critical, Touching, Marked, BeforeErase,
        Launching, Step, Goto, MayMove, InPass
<1>1. CASE Install(u) BY <1>1 DEF Install
<1>2. CASE Download(u) \/ CreateImage(u)
  <2>1. PICK to \in {"create", "fetch", "ended"} : up' = [up EXCEPT ![u] = to]
    <3>1. CASE Download(u) BY <3>1 DEF Download
    <3>2. CASE CreateImage(u) BY <3>2 DEF CreateImage
    <3> QED BY <1>2, <3>1, <3>2
  <2>2. /\ ~Critical(u) /\ MayMove
        /\ UNCHANGED <<guard, flash, daemon, armed, sup>>
    BY <1>2 DEF Download, CreateImage
  <2> QED BY <2>1, <2>2
<1>3. CASE Fetch(u)
  <2>1. PICK to \in {"check", "ended"} : up' = [up EXCEPT ![u] = to]
    BY <1>3 DEF Fetch
  <2> QED BY <1>3, <2>1 DEF Fetch
<1>4. CASE CheckImage(u) BY <1>4 DEF CheckImage
<1>5. CASE GuardBegin(u)
  <2>1. CASE Guarded BY <1>5, <2>1 DEF GuardBegin
  <2>2. CASE ~Guarded
    <3>1. guard.state = "" /\ guard.pid = NoPid
      BY <2>2, NoGuardFields
    <3>2. /\ up[u] = "guard"
          /\ up' = [up EXCEPT ![u] = "visit"]
          /\ guard' = [state |-> "PREPARE", pid |-> u]
          /\ sup.pc \in {"check", "wait"}
          /\ UNCHANGED <<source, image, flash, daemon, installing, armed, sup>>
      BY <1>5, <2>2 DEF GuardBegin
    <3>3. guard'.state = "PREPARE" /\ guard'.pid = u
      BY <3>2
    <3>4. \A v \in Updater : ~Critical(v)
      BY <3>1
    <3>5. OtaTypes' BY <3>2, <3>3 DEF GuardStates
    <3>6. OwnsGuard' BY <3>2, <3>3, <3>4
    <3>7. (PassIsCurrent /\ AloneInv /\ DisarmedInv /\ MarkedInv)'
      BY <3>2, <3>3, <3>4
    <3>8. PartialInv' BY <3>1, <3>2
    <3> QED BY <3>5, <3>6, <3>7, <3>8
  <2> QED BY <2>1, <2>2
<1>6. CASE VisitDaemons(u)
  <2>1. PICK to \in {"disarm", "wait", "cancel"} : up' = [up EXCEPT ![u] = to]
    BY <1>6 DEF VisitDaemons
  <2> QED BY <1>6, <2>1 DEF VisitDaemons
<1>7. CASE WaitDaemons(u)
  <2>1. PICK to \in {"disarm", "kill", "cancel"} : up' = [up EXCEPT ![u] = to]
    BY <1>7 DEF WaitDaemons
  <2> QED BY <1>7, <2>1 DEF WaitDaemons
<1>8. CASE DisarmWatchdog(u)
  <2>1. PICK to \in {"open", "cancel"} : up' = [up EXCEPT ![u] = to]
    BY <1>8 DEF DisarmWatchdog
  <2> QED BY <1>8, <2>1 DEF DisarmWatchdog
<1>9. CASE OpenImage(u) BY <1>9 DEF OpenImage
<1>10. CASE MarkFlashing(u)
  <2>1. CASE guard' = guard /\ up' = [up EXCEPT ![u] = "cancel"]
    BY <1>10, <2>1 DEF MarkFlashing
  <2>2. CASE /\ guard' = [state |-> "FLASHING", pid |-> u]
             /\ up' = [up EXCEPT ![u] = "umount"]
    <3>1. guard'.state = "FLASHING" /\ guard'.pid = u
      BY ONLY <2>2
    <3> QED BY <1>10, <2>2, <3>1 DEF MarkFlashing, GuardStates
  <2> QED BY <1>10, <2>1, <2>2 DEF MarkFlashing
<1>11. CASE Umount(u) BY <1>11 DEF Umount
<1>12. CASE Cancel(u)
  <2>1. guard'.state = "" /\ guard'.pid = NoPid
    BY <1>12 DEF Cancel, NoGuard
  <2> QED BY <1>12, <2>1 DEF Cancel, GuardStates, NoGuard
<1>13. CASE Erase(u)
  <2>1. PICK to \in {"write", "ended"} : up' = [up EXCEPT ![u] = to]
    BY <1>13 DEF Erase
  <2>2. \A v \in Updater \ {u} : ~Critical(v)
    BY <1>13 DEF Erase
  <2>3. PartialInv' BY <1>13, <2>1, <2>2 DEF Erase
  <2> QED BY <1>13, <2>1, <2>3 DEF Erase
<1>14. CASE Write(u)
  <2>1. PICK to \in {"verify", "ended"} : up' = [up EXCEPT ![u] = to]
    BY <1>14 DEF Write
  <2>2. \A v \in Updater \ {u} : ~Critical(v)
    BY <1>14 DEF Write
  <2>3. PartialInv' BY <1>14, <2>1, <2>2 DEF Write
  <2> QED BY <1>14, <2>1, <2>3 DEF Write
<1>15. CASE MarkVerifying(u)
  <2>1. CASE guard' = guard BY <1>15, <2>1 DEF MarkVerifying
  <2>2. CASE guard' = [state |-> "VERIFYING", pid |-> u]
    <3>1. guard'.state = "VERIFYING" /\ guard'.pid = u
      BY ONLY <2>2
    <3> QED BY <1>15, <2>2, <3>1 DEF MarkVerifying, GuardStates
  <2> QED BY <1>15, <2>1, <2>2 DEF MarkVerifying
<1>16. CASE Compare(u) BY <1>16 DEF Compare
<1>17. CASE MarkComplete(u)
  <2>1. CASE guard' = guard BY <1>17, <2>1 DEF MarkComplete
  <2>2. CASE guard' = [state |-> "COMPLETE", pid |-> u]
    <3>1. guard'.state = "COMPLETE" /\ guard'.pid = u
      BY ONLY <2>2
    <3> QED BY <1>17, <2>2, <3>1 DEF MarkComplete, GuardStates
  <2> QED BY <1>17, <2>1, <2>2 DEF MarkComplete
<1>18. CASE Reboot(u)
  <2>1. CASE Boot
    BY <1>18, <2>1 DEF Reboot, Boot, SupStart, NoGuard, GuardStates
  <2>2. CASE ~Boot
    BY <1>18, <2>2 DEF Reboot
  <2> QED BY <2>1, <2>2
<1>19. CASE Die(u) BY <1>19 DEF Die, Running
<1> QED
  BY <1>1, <1>2, <1>3, <1>4, <1>5, <1>6, <1>7, <1>8, <1>9, <1>10, <1>11, <1>12,
     <1>13, <1>14, <1>15, <1>16, <1>17, <1>18, <1>19
  DEF UpdaterStep, Prepare, Flash

LEMMA DaemonPreserves ==
  ASSUME GuardInv,
         \/ DaemonLook \/ DaemonArm \/ DaemonTerm \/ DaemonExit \/ DaemonCrash
         \/ WatchdogFires
  PROVE  GuardInv'
<1> USE UpdaterAssumption
    DEF GuardInv, OtaTypes, Steps, OwnsGuard, PassIsCurrent, AloneInv, DisarmedInv,
        MarkedInv, PartialInv, Alone, Critical, Touching, Marked, BeforeErase,
        Launching, others
<1>1. CASE DaemonLook BY <1>1 DEF DaemonLook
<1>2. CASE DaemonArm BY <1>2 DEF DaemonArm
<1>3. CASE DaemonTerm BY <1>3 DEF DaemonTerm
<1>4. CASE DaemonExit BY <1>4 DEF DaemonExit
<1>5. CASE DaemonCrash BY <1>5 DEF DaemonCrash
<1>6. CASE WatchdogFires
  BY <1>6 DEF WatchdogFires, Boot, SupStart, NoGuard, GuardStates
<1> QED BY <1>1, <1>2, <1>3, <1>4, <1>5, <1>6

LEMMA SupervisorPreserves ==
  ASSUME GuardInv, Supervise
  PROVE  GuardInv'
<1> USE UpdaterAssumption
    DEF GuardInv, OtaTypes, Steps, OwnsGuard, PassIsCurrent, AloneInv, DisarmedInv,
        MarkedInv, PartialInv, Alone, Critical, Touching, Marked, BeforeErase,
        Launching, SupGoes, nonSup
<1>1. CASE SupCheck
  <2>1. CASE Guarded BY <1>1, <2>1 DEF SupCheck
  <2>2. CASE ~Guarded
    <3>1. guard.state = "" /\ guard.pid = NoPid
      BY <2>2, NoGuardFields
    <3> QED BY <1>1, <2>2, <3>1 DEF SupCheck
  <2> QED BY <2>1, <2>2
<1>2. CASE SupRead BY <1>2 DEF SupRead
<1>3. CASE SupJudge BY <1>3 DEF SupJudge, GuardIsStale, Running
<1>4. CASE SupRemove
  <2>1. guard'.state = "" /\ guard'.pid = NoPid
    BY <1>4 DEF SupRemove, NoGuard
  <2> QED BY <1>4, <2>1 DEF SupRemove, GuardStates, NoGuard
<1>5. CASE SupLaunch BY <1>5 DEF SupLaunch
<1>6. CASE SupWait BY <1>6 DEF SupWait, SupStart, GuardStates
<1> QED BY <1>1, <1>2, <1>3, <1>4, <1>5, <1>6 DEF Supervise

LEMMA StutterPreserves == ASSUME GuardInv, UNCHANGED vars PROVE GuardInv'
<1>1. /\ up' = up /\ guard' = guard /\ flash' = flash
      /\ daemon' = daemon /\ armed' = armed /\ sup' = sup
  BY DEF vars
<1>2. (OtaTypes /\ OwnsGuard /\ PassIsCurrent)'
  BY <1>1 DEF GuardInv, OtaTypes, OwnsGuard, PassIsCurrent, Critical, Touching, Marked
<1>3. (AloneInv /\ DisarmedInv /\ MarkedInv /\ PartialInv)'
  BY <1>1 DEF GuardInv, AloneInv, DisarmedInv, MarkedInv, PartialInv, Alone,
              Touching, Marked, BeforeErase, Launching
<1> QED BY <1>2, <1>3 DEF GuardInv

LEMMA Inductive == ASSUME PromptPass PROVE Spec => []GuardInv
<1>1. GuardInv /\ [Next]_vars => GuardInv'
  BY UpdaterPreserves, DaemonPreserves, SupervisorPreserves, StutterPreserves
  DEF Next
<1> QED BY <1>1, GuardStart, PTL DEF Spec

-----------------------------------------------------------------------------

\* Two updaters are never both past the guard, however many the daemon and
\* its users start and wherever they die.
THEOREM UpdatersExclude == ASSUME PromptPass PROVE Spec => []CriticalExclusive
<1>1. GuardInv => CriticalExclusive
  BY DEF GuardInv, OwnsGuard, CriticalExclusive
<1> QED BY <1>1, Inductive, PTL

\* While the flash is written no daemon runs and no watchdog is armed.
THEOREM FlashIsUndisturbed == ASSUME PromptPass PROVE Spec => []FlashUndisturbed
<1>1. GuardInv => FlashUndisturbed
  BY DEF GuardInv, AloneInv, DisarmedInv, Alone, FlashUndisturbed, Touching
<1> QED BY <1>1, Inductive, PTL

\* A partly written flash stays guarded against the supervisor, and is not
\* booted into by an updater or the watchdog, as a boot takes the guard away.
THEOREM PartialFlashIsGuarded == ASSUME PromptPass PROVE Spec => []PartialFlashGuarded
<1>1. GuardInv => PartialFlashGuarded
  BY DEF GuardInv, PartialInv, Marked, PartialFlashGuarded
<1> QED BY <1>1, Inductive, PTL

-----------------------------------------------------------------------------
(* Every run of firmware_update, of any options, over any repositories and *)
(* any network, implements TrustedUpdate.                                  *)

JobKnown == job \in Runs
TagKnown ==
  stage \in {"compare", "sums", "create", "image", "check", "flash"} =>
    tag \in Releases \/ job.mode = "image"

\* A run that asks for a release was told to, and goes on only with one allowed.
RunWanted ==
  /\ stage = "query" => Enabled
  /\ stage \in {"query", "compare"} => job.mode \in {"online", "status"} /\ Enabled
  /\ stage \in {"sums", "create", "image", "check"} =>
       job.mode = "online" /\ Allowed(Release(ChosenRepo, tag))

SumsKnown ==
  /\ summed \in [Repo -> [Tag -> Build \cup {Nothing}]]
  /\ built \in [Repo -> [Tag -> Build]]
  /\ latest \in [Repo -> Tag]

\* What was vouched for stays so, and it is the file once that is checked.
VouchedInOrder ==
  /\ stage \in {"start", "query", "compare", "sums"} => expected = Nothing
  /\ stage \in {"create", "image", "check", "flash"} => expected \in Images
  /\ stage = "flash" => file = expected
  /\ stage # "ended" => given = Nothing
  /\ stage = "start" /\ job.mode = "image" => file = job.image

ReleaseInv == JobKnown /\ TagKnown /\ RunWanted /\ SumsKnown /\ VouchedInOrder

LEMMA RepoIsRepo ==
  ASSUME JobKnown PROVE ChosenRepo \in Repo /\ job \in RunType
<1>1. job \in RunType
  BY ReleaseAssumption DEF JobKnown
<1>2. /\ job.cli \in Repo
      /\ job.conf["repo"] \in Repo \cup {Nothing}
      /\ job.fallback["repo"] \in Repo \cup {Nothing}
  BY <1>1 DEF RunType, FileType
<1>3. FirstOf("repo", job.cli) \in Repo
  BY <1>2 DEF FirstOf
<1> QED
  BY <1>1, <1>3 DEF ChosenRepo, Repo, DefaultRepo

LEMMA ReleaseInvInit == ReleaseInit => ReleaseInv
<1> SUFFICES ASSUME ReleaseInit PROVE ReleaseInv
  OBVIOUS
<1>1. 0 \in Build
  BY ReleaseAssumption DEF Build
<1> QED
  BY <1>1 DEF ReleaseInit, ReleaseInv, JobKnown, TagKnown, RunWanted, SumsKnown,
     VouchedInOrder

LEMMA ReleaseInvStep == ReleaseInv /\ [ReleaseNext]_releaseVars => ReleaseInv'
<1> SUFFICES ASSUME ReleaseInv, [ReleaseNext]_releaseVars PROVE ReleaseInv'
  OBVIOUS
<1>0. ChosenRepo \in Repo /\ job \in RunType
  BY RepoIsRepo DEF ReleaseInv
<1> USE DEF ReleaseInv, JobKnown, TagKnown, SumsKnown, VouchedInOrder
<1>1. CASE job' = job /\ UNCHANGED << stage, tag, expected, file, given >>
           /\ UNCHANGED hubVars
  BY <1>1 DEF RunWanted, hubVars, Enabled, FirstOf, Allowed, Release, ChosenRepo, Newer, Valid
<1>2. CASE Hub
  <2>1. UNCHANGED << job, stage, tag, expected, file, given >>
    BY <1>2 DEF Hub, Publish, ReplaceImage, ReplaceSums, Edit
  <2>2. RunWanted'
    BY <2>1 DEF RunWanted, Enabled, FirstOf, Allowed, Release, ChosenRepo, Newer, Valid
  <2>3. SumsKnown'
    <3>1. CASE Publish
      BY <3>1 DEF Publish
    <3>2. CASE ReplaceImage
      BY <3>2, ReleaseAssumption DEF ReplaceImage, Build
    <3>3. CASE ReplaceSums
      BY <3>3 DEF ReplaceSums
    <3> QED
      BY <1>2, <3>1, <3>2, <3>3 DEF Hub
  <2> QED
    BY <2>1, <2>2, <2>3
<1>3. ASSUME UNCHANGED << job, hubVars >>, stage' = "ended",
             expected' = expected
      PROVE ReleaseInv'
  BY <1>3 DEF RunWanted, hubVars
<1>4. CASE GuardTest
  BY <1>3, <1>4 DEF GuardTest, End
<1>5. CASE LocalImage
  <2>1. CASE stage' = "ended"
    BY <1>5, <2>1 DEF LocalImage, Proceed, End, RunWanted, hubVars
  <2>2. CASE stage' = "flash"
    <3>1. job.image \in Images
      BY <1>0 DEF RunType
    <3> QED
      BY <1>5, <2>2, <3>1 DEF LocalImage, Proceed, End, At, OperatorVouches, RunWanted, hubVars
  <2> QED
    BY <1>5, <2>1, <2>2 DEF LocalImage, Proceed, End
<1>6. CASE ReadConfig
  BY <1>6 DEF ReadConfig, Proceed, End, At, RunWanted, hubVars, Enabled, FirstOf
<1>7. CASE Redirected
  <2>1. CASE stage' = "ended"
    BY <1>3, <1>7, <2>1 DEF Redirected
  <2>2. CASE stage' = stage /\ file' = file
    BY <1>7, <2>2 DEF Redirected, RunWanted, hubVars, Enabled, FirstOf, Allowed, Release,
       ChosenRepo, Newer, Valid
  <2> QED
    BY <1>7, <2>1, <2>2 DEF Redirected, End
<1>8. CASE FetchFails
  BY <1>3, <1>8 DEF FetchFails, End
<1>9. CASE LatestFetched
  <2>1. latest[ChosenRepo] \in Tag
    BY <1>0
  <2> QED
    BY <1>9, <2>1 DEF LatestFetched, Valid, Tag, Proceed, End, At, RunWanted, hubVars,
       Enabled, FirstOf
<1>10. CASE Status
  BY <1>3, <1>10 DEF Status, End
<1>11. CASE CompareVersions
  <2>1. CASE stage' = "ended"
    BY <1>3, <1>11, <2>1 DEF CompareVersions
  <2>2. CASE stage' = "sums"
    <3>1. GoesOn(tag)
      BY <1>11, <2>2 DEF CompareVersions, Proceed, End
    <3>2. Allowed(Release(ChosenRepo, tag))
      BY <1>11, <3>1 DEF CompareVersions, At, RunWanted, GoesOn, Allowed, Release
    <3> QED
      BY <1>11, <2>2, <3>2 DEF CompareVersions, Proceed, End, At, RunWanted, hubVars, Allowed, Release,
         Enabled, FirstOf, ChosenRepo, Newer, Valid
  <2> QED
    BY <1>11, <2>1, <2>2 DEF CompareVersions, Proceed, End
<1>12. CASE SumsFetched
  <2>1. CASE stage' = "ended"
    BY <1>12, <2>1 DEF SumsFetched, End, Proceed, RunWanted, hubVars
  <2>2. CASE stage' = "create"
    <3>1. tag \in Tag
      BY <1>12 DEF SumsFetched, At, Tag, RunWanted
    <3>2. summed[ChosenRepo][tag] \in Build \cup {Nothing}
      BY <1>0, <3>1
    <3>3. expected' \in Images
      BY <1>0, <1>12, <2>2, <3>1, <3>2 DEF SumsFetched, Images, End
    <3> QED
      BY <1>12, <2>2, <3>3 DEF SumsFetched, Proceed, End, At, RunWanted, hubVars, Allowed, Release,
         Enabled, FirstOf, ChosenRepo, Newer, Valid
  <2> QED
    BY <1>12, <2>1, <2>2 DEF SumsFetched, Proceed, End
<1>13. CASE Create
  BY <1>13 DEF Create, Proceed, End, At, RunWanted, hubVars, Allowed, Release, Enabled, FirstOf,
     ChosenRepo, Newer, Valid
<1>14. CASE ImageFetched
  BY <1>14 DEF ImageFetched, Proceed, End, At, RunWanted, hubVars, Allowed, Release, Enabled,
     FirstOf, ChosenRepo, Newer, Valid
<1>15. CASE Check
  BY <1>15 DEF Check, Proceed, End, At, RunWanted, hubVars, FileIsExpected
<1>16. CASE HandOverFile
  BY <1>3, <1>16 DEF HandOverFile, End
<1> QED
  BY <1>1, <1>2, <1>4, <1>5, <1>6, <1>7, <1>8, <1>9, <1>10, <1>11, <1>12, <1>13,
     <1>14, <1>15, <1>16 DEF ReleaseNext, Main, Answer, releaseVars

\* A run, whatever it meets, keeps to what it was asked for and to what was
\* vouched for: main of firmware_update.c and what it downloads.
THEOREM ReleaseKept == ReleaseSpec => []ReleaseInv
<1>1. ReleaseInit => ReleaseInv
  BY ReleaseInvInit
<1>2. ReleaseInv /\ [ReleaseNext]_releaseVars => ReleaseInv'
  BY ReleaseInvStep
<1> QED
  BY <1>1, <1>2, PTL DEF ReleaseSpec

\* The wishes of a run are its options and its configuration: they stay.
LEMMA WishesStay ==
  ASSUME job' = job
  PROVE  /\ { c \in Choices : Allowed(c) }' = { c \in Choices : Allowed(c) }
         /\ ChosenRepo' = ChosenRepo
BY DEF Allowed, Enabled, FirstOf, ChosenRepo, Newer, Valid, Choices, Release, Operator

LEMMA StartIsTrusted == ReleaseInit => Trusted!UpdateInit
<1> SUFFICES ASSUME ReleaseInit PROVE Trusted!UpdateInit
  OBVIOUS
<1>1. expected = Nothing /\ given = Nothing
  BY DEF ReleaseInit
<1>2. Chosen = Nothing
  BY <1>1 DEF Chosen
<1> QED
  BY <1>1, <1>2 DEF Trusted!UpdateInit

\* Every step vouches for an allowed choice, hands it over, or changes nothing
\* that TrustedUpdate speaks of.
LEMMA StepIsTrusted ==
  ReleaseInv /\ [ReleaseNext]_releaseVars
    => [Trusted!Vouch \/ Trusted!HandOver]_Trusted!updateVars
<1> SUFFICES ASSUME ReleaseInv, [ReleaseNext]_releaseVars
             PROVE  [Trusted!Vouch \/ Trusted!HandOver]_Trusted!updateVars
  OBVIOUS
<1>0. ChosenRepo \in Repo /\ job \in RunType
  BY RepoIsRepo DEF ReleaseInv
<1>1. Nothing \notin Images
  BY ReleaseAssumption
<1>2. ASSUME job' = job, given' = given, expected' = expected,
             expected = Nothing \/ tag' = tag \/ job.mode = "image"
      PROVE  UNCHANGED Trusted!updateVars
  <2>1. Chosen' = Chosen
    BY <1>2, WishesStay DEF Chosen
  <2> QED
    BY <1>2, <2>1, WishesStay DEF Trusted!updateVars
<1>3. CASE UNCHANGED releaseVars
  BY <1>2, <1>3 DEF releaseVars
<1>4. CASE Hub
  BY <1>2, <1>4 DEF Hub, Publish, ReplaceImage, ReplaceSums, Edit
<1>5. CASE LocalImage
  <2>1. CASE expected' = expected
    BY <1>2, <1>5, <2>1 DEF LocalImage
  <2>2. CASE expected' # expected
    <3>1. /\ expected = Nothing /\ expected' = job.image /\ given' = given
          /\ job' = job /\ job.mode = "image" /\ At("start")
      BY <1>5, <2>2 DEF LocalImage, OperatorVouches, ReleaseInv, VouchedInOrder, At
    <3>2. job.image \in Images
      BY <1>0 DEF RunType
    <3>3. Chosen = Nothing /\ Chosen' = Operator
      BY <1>1, <3>1, <3>2 DEF Chosen
    <3>4. Operator \in { c \in Choices : Allowed(c) }
      BY <3>1 DEF Choices, Allowed, Operator
    <3>5. Trusted!Vouch
      BY <3>1, <3>2, <3>3, <3>4, WishesStay DEF Trusted!Vouch
    <3> QED
      BY <3>5
  <2> QED
    BY <2>1, <2>2
<1>6. CASE SumsFetched
  <2>1. CASE expected' = expected
    BY <1>2, <1>6, <2>1 DEF SumsFetched
  <2>2. CASE expected' # expected
    <3>1. /\ expected = Nothing /\ given' = given /\ job' = job /\ tag' = tag
          /\ job.mode = "online" /\ tag \in Releases
          /\ Allowed(Release(ChosenRepo, tag))
      BY <1>6 DEF SumsFetched, At, ReleaseInv, VouchedInOrder, TagKnown, RunWanted
    <3>2. expected' \in Images
      <4>1. ReleaseInv'
        BY ReleaseInvStep
      <4>2. stage' = "create"
        BY <1>6, <2>2 DEF SumsFetched, Proceed
      <4> QED
        BY <4>1, <4>2 DEF ReleaseInv, VouchedInOrder
    <3>3. Chosen = Nothing /\ Chosen' = Release(ChosenRepo, tag)
      BY <1>1, <3>1, <3>2, WishesStay DEF Chosen, Release
    <3>4. Release(ChosenRepo, tag) \in { c \in Choices : Allowed(c) }
      BY <1>0, <3>1 DEF Choices
    <3>5. Trusted!Vouch
      BY <3>1, <3>2, <3>3, <3>4, WishesStay DEF Trusted!Vouch
    <3> QED
      BY <3>5
  <2> QED
    BY <2>1, <2>2
<1>7. CASE HandOverFile
  <2>1. /\ expected \in Images /\ given = Nothing /\ given' = expected
        /\ expected' = expected /\ job' = job /\ tag' = tag
    BY <1>7 DEF HandOverFile, At, ReleaseInv, VouchedInOrder
  <2>2. Chosen # Nothing
    <3>1. Operator \in Choices /\ Nothing \notin Choices
      BY ReleaseAssumption DEF Choices
    <3>2. CASE job.mode = "image"
      BY <1>1, <2>1, <3>1, <3>2 DEF Chosen
    <3>3. CASE job.mode # "image"
      <4>1. tag \in Releases
        BY <1>7, <3>3 DEF HandOverFile, At, ReleaseInv, RunWanted, TagKnown
      <4>2. Release(ChosenRepo, tag) \in Choices
        BY <1>0, <4>1 DEF Choices
      <4> QED
        BY <1>1, <2>1, <3>1, <3>3, <4>2 DEF Chosen
    <3> QED
      BY <3>2, <3>3
  <2>3. Chosen' = Chosen
    BY <2>1, WishesStay DEF Chosen
  <2>4. Trusted!HandOver
    BY <2>1, <2>2, <2>3, WishesStay DEF Trusted!HandOver
  <2> QED
    BY <2>4
<1>8. CASE LatestFetched
  <2>1. expected = Nothing
    BY <1>8 DEF LatestFetched, At, ReleaseInv, VouchedInOrder
  <2> QED
    BY <1>2, <1>8, <2>1 DEF LatestFetched
<1>9. CASE GuardTest \/ ReadConfig \/ Status \/ CompareVersions \/ Create \/ Check
             \/ Redirected \/ FetchFails \/ ImageFetched
  BY <1>2, <1>9 DEF GuardTest, ReadConfig, Status, CompareVersions, Create, Check,
     Redirected, FetchFails, ImageFetched
<1> QED
  BY <1>3, <1>4, <1>5, <1>6, <1>7, <1>8, <1>9 DEF ReleaseNext, Main, Answer

\* The updater implements TrustedUpdate: the flash is handed only an image of
\* an allowed choice that was vouched for.
THEOREM UpdaterIsTrusted == ReleaseSpec => HandsOverTrusted
<1>1. ReleaseInit => Trusted!UpdateInit
  BY StartIsTrusted
<1>2. ReleaseInv /\ [ReleaseNext]_releaseVars
        => [Trusted!Vouch \/ Trusted!HandOver]_Trusted!updateVars
  BY StepIsTrusted
<1> QED
  BY <1>1, <1>2, ReleaseKept, PTL DEF ReleaseSpec, HandsOverTrusted, Trusted!UpdateSpec
=============================================================================
