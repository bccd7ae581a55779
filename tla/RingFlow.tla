------------------------------ MODULE RingFlow ------------------------------
(***************************************************************************)
(* A ring and what the outside is told of it: the retained media_state,    *)
(* the ringing gauge of the metrics (mqtt_publish_ringing does nothing)    *)
(* and the call session (sip_media.c: handle_ding_trigger,                 *)
(* handle_uart_frame, ringing_timeout_thread_func, on_call_state_change).  *)
(*                                                                         *)
(* A handler publishes one thing after another with no lock held, so each  *)
(* is a program: the sequence of what it has still to do.  Only the        *)
(* callbacks of sip_calling.c run under a lock, session_mutex, which they  *)
(* keep to their end.  The panel line of these handlers is in              *)
(* IntercomLine, their SIP messages are in SipCalling, the media in        *)
(* MediaSinks and the broker in CallTrace.                                 *)
(***************************************************************************)
EXTENDS Naturals, Sequences

CONSTANTS
  Rings,     \* bound: how often somebody rings
  Settings   \* what may happen in a run, one of these records:
             \*   outgoing     what sip_outgoing_call_enabled may be switched to
             \*   incoming     somebody may call the unit
             \*   developer    the control pipe simulates rings and frames
             \*   threadsFail  pthread_create may fail
             \*   calm         a handler ends before its peer can answer

ASSUME RingsAssumption == Rings \in Nat
ASSUME SettingsAssumption ==
  Settings \subseteq [outgoing : SUBSET BOOLEAN, incoming : BOOLEAN,
                      developer : BOOLEAN, threadsFail : BOOLEAN, calm : BOOLEAN]

VARIABLES
  setting,  \* one of Settings, for good
  sip,      \* current_session.state; "asking" is CALLING and RINGING
  holder,   \* the thread whose callback holds session_mutex
  todo,     \* what each thread has still to do
  timers,   \* the same of each timeout thread, in the order they were made
  current,  \* the timer that has ringing_timeout_generation; 0 when none has
  told,     \* the gauge, the topic, and whether the call session is active
  rings     \* rings so far

vars == <<setting, sip, holder, todo, timers, current, told, rings>>

Panel == {"serial", "pipe"}
Thread == Panel \cup {"mqtt", "main"}

-----------------------------------------------------------------------------
\* The handlers

\* Mutant: the timeout is scheduled before the ring is published
DingScheduledFirst ==
  <<"look", "schedule", "mediaRinging", "start", "ringing", "call">>

\* handle_ding_trigger
Ding == <<"look", "mediaRinging", "start", "ringing", "schedule", "call">>

\* handle_uart_frame for HANG_UP_0, HANG_UP_1 and PHYSICAL_HANDSET_ANSWERED
HangUp == <<"invalidate", "mediaIdle", "end", "notRinging", "terminate">>

\* unlock_door from MQTT, with hangup_on_door_unlock
DoorUnlock == <<"terminate">>

\* ringing_timeout_thread_func, once it has slept
Timeout == <<"ifCurrent", "ifInactive", "mediaIdle", "end", "notRinging">>

\* on_call_state_change: a call is established
Established == <<"invalidate", "mediaEstablished", "start", "notRinging", "unlock">>

\* on_call_state_change: a call has ended, established or not
Ended == <<"mediaIdle", "end", "notRinging", "unlock">>

\* What a step of theirs publishes
Published(step) ==
  CASE step = "ringing"          -> [told EXCEPT !.ringing = "on"]
    [] step = "notRinging"       -> [told EXCEPT !.ringing = "off"]
    [] step = "mediaRinging"     -> [told EXCEPT !.media = "ringing"]
    [] step = "mediaEstablished" -> [told EXCEPT !.media = "established"]
    [] step = "mediaIdle"        -> [told EXCEPT !.media = "idle"]
    [] step = "start"            -> [told EXCEPT !.session = "active"]
    [] step = "end"              -> [told EXCEPT !.session = "none"]
    [] OTHER                     -> told

Publications ==
  {"ringing", "notRinging", "mediaRinging", "mediaEstablished", "mediaIdle",
   "start", "end"}

Init ==
  /\ setting \in Settings
  /\ sip = "idle" /\ holder = "nobody"
  /\ todo = [p \in Thread |-> <<>>]
  /\ timers = <<>> /\ current = 0
  /\ told = [ringing |-> "off", media |-> "idle", session |-> "none"]
  /\ rings = 0

-----------------------------------------------------------------------------
\* The steps of a thread

At(p, step) == todo[p] # <<>> /\ Head(todo[p]) = step
Turn(p, program) == todo' = [todo EXCEPT ![p] = program]
Advance(p) == Turn(p, Tail(todo[p]))
Unlocked == holder = "nobody"   \* session_mutex can be taken
Lock(p) == holder' = p

Say(p) ==
  /\ todo[p] # <<>> /\ Head(todo[p]) \in Publications
  /\ told' = Published(Head(todo[p]))
  /\ Advance(p)
  /\ UNCHANGED <<setting, sip, holder, timers, current, rings>>

\* Mutant: a ring is published whether or not a call is up
LookPast(p) ==
  /\ At(p, "look") /\ Unlocked
  /\ Advance(p)
  /\ UNCHANGED <<setting, sip, holder, timers, current, told, rings>>

\* A ring during a call is ignored
Look(p) ==
  /\ At(p, "look") /\ Unlocked
  /\ Turn(p, IF sip = "idle" THEN Tail(todo[p]) ELSE <<>>)
  /\ UNCHANGED <<setting, sip, holder, timers, current, told, rings>>

\* invalidate_ringing_timeout
Invalidate(p) ==
  /\ At(p, "invalidate")
  /\ current' = 0
  /\ Advance(p)
  /\ UNCHANGED <<setting, sip, holder, timers, told, rings>>

\* Mutant: the request is given a generation that is never the current one
ScheduleEarly(p) ==
  /\ At(p, "schedule")
  /\ timers' = Append(timers, Timeout) /\ current' = 0
  /\ Advance(p)
  /\ UNCHANGED <<setting, sip, holder, told, rings>>

\* schedule_ringing_timeout: the generation is new, the thread may not start
Schedule(p) ==
  /\ At(p, "schedule")
  /\ \/ timers' = Append(timers, Timeout) /\ current' = Len(timers) + 1
     \/ setting.threadsFail /\ current' = 0 /\ UNCHANGED timers
  /\ Advance(p)
  /\ UNCHANGED <<setting, sip, holder, told, rings>>

\* sip_calling_make_call: not enabled or busy, made, or not sent, which ends
\* it at once
Call(p) ==
  /\ At(p, "call") /\ Unlocked
  /\ \/ /\ FALSE \in setting.outgoing \/ sip # "idle"
        /\ Advance(p) /\ UNCHANGED <<sip, holder>>
     \/ /\ TRUE \in setting.outgoing /\ sip = "idle"
        /\ sip' = "asking" /\ Advance(p) /\ UNCHANGED holder
     \/ /\ TRUE \in setting.outgoing /\ sip = "idle"
        /\ Turn(p, Ended) /\ Lock(p) /\ UNCHANGED sip
  /\ UNCHANGED <<setting, timers, current, told, rings>>

\* terminate_call_from_serial and sip_calling_terminate_call
Terminate(p) ==
  /\ At(p, "terminate") /\ Unlocked
  /\ IF sip = "idle" THEN Advance(p) /\ UNCHANGED holder
     ELSE Turn(p, Ended) /\ Lock(p)
  /\ sip' = "idle"
  /\ UNCHANGED <<setting, timers, current, told, rings>>

\* session_unlock
Unlock(p) ==
  /\ At(p, "unlock")
  /\ holder' = "nobody"
  /\ Advance(p)
  /\ UNCHANGED <<setting, sip, timers, current, told, rings>>

Run(p) ==
  \/ Say(p) \/ Look(p) \/ Invalidate(p) \/ Schedule(p)
  \/ Call(p) \/ Terminate(p) \/ Unlock(p)

-----------------------------------------------------------------------------
\* The timeout threads

TimerAt(t, step) == timers[t] # <<>> /\ Head(timers[t]) = step
TimerTurns(t, program) == timers' = [timers EXCEPT ![t] = program]

\* The time is over; a timer whose generation has passed does nothing
Expire(t) ==
  /\ TimerAt(t, "ifCurrent")
  /\ TimerTurns(t, IF current = t THEN Tail(timers[t]) ELSE <<>>)
  /\ UNCHANGED <<setting, sip, holder, todo, current, told, rings>>

\* A call that is up ends the ring itself
LookInactive(t) ==
  /\ TimerAt(t, "ifInactive") /\ Unlocked
  /\ TimerTurns(t, IF sip = "idle" THEN Tail(timers[t]) ELSE <<>>)
  /\ UNCHANGED <<setting, sip, holder, todo, current, told, rings>>

TimerSays(t) ==
  /\ timers[t] # <<>> /\ Head(timers[t]) \in Publications
  /\ told' = Published(Head(timers[t]))
  /\ TimerTurns(t, Tail(timers[t]))
  /\ UNCHANGED <<setting, sip, holder, todo, current, rings>>

TimerRuns(t) == Expire(t) \/ LookInactive(t) \/ TimerSays(t)

-----------------------------------------------------------------------------
\* What sets them going

Idle(p) == todo[p] = <<>>
Sources == IF setting.developer THEN Panel ELSE {"serial"}

\* ALARM_REPORT, or a ring simulated through the pipe
Ring(p) ==
  /\ p \in Sources /\ Idle(p) /\ rings < Rings
  /\ rings' = rings + 1
  /\ Turn(p, Ding)
  /\ UNCHANGED <<setting, sip, holder, timers, current, told>>

\* A frame from the unit, or one injected through the pipe
Frame(p) ==
  /\ p \in Sources /\ Idle(p)
  /\ Turn(p, HangUp)
  /\ UNCHANGED <<setting, sip, holder, timers, current, told, rings>>

DoorOpened ==
  /\ Idle("mqtt") /\ sip # "idle" /\ Unlocked
  /\ Turn("mqtt", DoorUnlock)
  /\ UNCHANGED <<setting, sip, holder, timers, current, told, rings>>

SipMayAct == Idle("main") /\ Unlocked

\* sip_calling_handle_incoming_invite: an outgoing call gives way to it
Invited ==
  /\ SipMayAct /\ setting.incoming /\ sip \in {"idle", "asking"}
  /\ sip' = "incoming"
  /\ IF sip = "asking" THEN Turn("main", Ended) /\ Lock("main")
     ELSE UNCHANGED <<todo, holder>>
  /\ UNCHANGED <<setting, timers, current, told, rings>>

\* Nobody is between what it has looked at and what it publishes of it
Settled ==
  /\ \A p \in Panel : Idle(p)
  /\ \A t \in DOMAIN timers : timers[t] \in {<<>>, Timeout}

\* The 200 of an outgoing call or the ACK of an incoming one
Answered ==
  /\ SipMayAct /\ sip \in {"asking", "incoming"}
  /\ (setting.calm /\ sip = "asking") => Settled
  /\ sip' = "established"
  /\ Turn("main", Established) /\ Lock("main")
  /\ UNCHANGED <<setting, timers, current, told, rings>>

\* BYE, CANCEL, a failure response or the timeout of an outgoing call
Over ==
  /\ SipMayAct /\ sip # "idle"
  /\ sip' = "idle"
  /\ Turn("main", Ended) /\ Lock("main")
  /\ UNCHANGED <<setting, timers, current, told, rings>>

Next ==
  \/ \E p \in Thread : Run(p)
  \/ \E t \in DOMAIN timers : TimerRuns(t)
  \/ \E p \in Panel : Ring(p) \/ Frame(p)
  \/ DoorOpened
  \/ Invited \/ Answered \/ Over

Spec == Init /\ [][Next]_vars

\* Threads run, sleeps end, and so do calls: the peer hangs up at last
FairSpec ==
  /\ Spec
  /\ \A p \in Thread : WF_vars(Run(p))
  /\ \A t \in 1..Rings : WF_vars(t \in DOMAIN timers /\ TimerRuns(t))
  /\ WF_vars(Over)

-----------------------------------------------------------------------------
AllIdle == \A p \in Thread : Idle(p)

\* When no handler is at work, no call is up and no timeout is to come, nobody
\* is told of a ring or a call: whatever order the serial thread, the pipe,
\* the SIP callbacks and the timeouts of earlier rings published in.  It needs
\* the timeout threads: schedule_ringing_timeout has cancelled the timeout
\* before when it fails to create the next.
RestIsIdle ==
  (/\ ~setting.threadsFail
   /\ AllIdle /\ sip = "idle"
   /\ \A t \in DOMAIN timers : timers[t] \in {<<>>, Timeout}
   /\ current # 0 => timers[current] = <<>>)
  => told = [ringing |-> "off", media |-> "idle", session |-> "none"]

\* While a call is up and no handler is at work, media_state says so.  It needs
\* handlers that end before the peer answers, and rings that are not published
\* over an incoming call established since handle_ding_trigger looked.
EstablishedIsTold ==
  (/\ setting.calm /\ ~setting.incoming
   /\ AllIdle /\ Settled /\ sip = "established")
  => told = [ringing |-> "off", media |-> "established", session |-> "active"]

\* What is published is what is so, once everything has been published.
ToldWhatIs == RestIsIdle /\ EstablishedIsTold

\* A ring does not last: it is answered, hung up or times out.  With outgoing
\* calls a timeout that finds a call up leaves the ring to the end of the call.
RingEnds ==
  (told.media = "ringing" /\ ~setting.threadsFail)
  ~> (told.media # "ringing")
=============================================================================
