----------------------------- MODULE AudioHealth -----------------------------
(***************************************************************************)
(* The audio input health check of the main loop (sip_media.c, main): a    *)
(* capture that stays flat while someone listens is restarted once, and    *)
(* the board is rebooted when that does not help.                          *)
(*                                                                         *)
(* The check runs every 5 s and is the clock of this module.  The capture  *)
(* delivers many frames in between, of which only the peak is kept: 1 when *)
(* it is above AUDIO_SILENCE_PEAK_MIN.  A muted frame is not measured; a   *)
(* mute ends by the wall clock, which may be set back.  How clients start  *)
(* and stop the engine together is in MediaSinks; here each does it in one *)
(* step.                                                                   *)
(***************************************************************************)
EXTENDS Integers

CONSTANTS Fault,        \* AUDIO_SILENCE_FAULT_MS, in checks
          Retries,      \* AUDIO_SILENCE_MAX_RETRIES
          MaxQuiet      \* bound: what quiet counts to

ASSUME FaultAssumption == Fault \in Nat \ {0}
ASSUME RetriesAssumption == Retries \in Nat /\ Retries >= 2
ASSUME MaxQuietAssumption == MaxQuiet \in Nat /\ MaxQuiet > Fault * Retries

VARIABLES
  system,     \* "up", or "reset" by the check
  capture,    \* what the hardware delivers: "sound", "flat" or "error"
  engine,     \* "on" or "off" (audio_engine_running)
  listeners,  \* RTSP audio clients: "some" or "no"
  call, target, \* "yes" or "no": a SIP call has audio; audio_sip_rtp_active
  peak,       \* audio_input_peak: 1 after a frame that is not flat
  mute,       \* audio_input_mute_until_ms: "no"; "short": it ends before a whole
              \* check has passed; "long": it may not; "over": a long one has
              \* ended since the last check looked
  silent,     \* age of audio_silent_since_ms in checks; -1: not silent
  attempts,   \* audio_recovery_attempts
  health,     \* health_last_ok: "ok" or "fault"
  checker,    \* the main loop's step, and what it has read of the engine
  alive,      \* history: "yes": the engine ran and the capture was not flat
              \* since the last check looked
  flatFor,    \* history: checks in a row that found the engine in use, since a
              \* frame was not flat or the capture alive for a whole check
  masked      \* history: "yes": one of the checks that are counted as silent
              \* found a capture that was alive

audioUsers == <<listeners, call>>
judged == <<silent, attempts, health>>
account == <<alive, flatFor, masked>>
audioVars ==
  <<system, capture, engine, audioUsers, target, peak, mute, judged, checker, account>>

BetweenChecks == [pc |-> "poll", active |-> "no"]

AudioInit ==
  /\ system = "up"
  /\ capture = "sound"
  /\ engine = "off" /\ listeners = "no" /\ call = "no" /\ target = "no"
  /\ peak = 0 /\ mute = "no"
  /\ silent = -1 /\ attempts = 0 /\ health = "ok"
  /\ checker = BetweenChecks
  /\ alive = "no" /\ flatFor = 0 /\ masked = "no"

HealthAt(step) == system = "up" /\ checker.pc = step

-----------------------------------------------------------------------------
\* The hardware, and the thread that reads it

CaptureChanges ==
  /\ system = "up"
  /\ capture' \in {"sound", "flat", "error"}
  /\ "sound" \in {capture, capture'}
  /\ alive' = IF capture' = "flat" THEN "no" ELSE alive
  /\ UNCHANGED <<system, engine, audioUsers, target, peak, mute, judged, checker, flatFor, masked>>

\* audio_input_is_muted
Muted == mute \in {"short", "long"}

\* audio_input_handler: a read that fails is replaced by generate_error_audio,
\* whose tone is measured like a captured frame; a muted frame is overwritten
\* and not measured
Frame ==
  /\ system = "up" /\ engine = "on" /\ capture # "flat" /\ ~Muted
  /\ peak' = 1 /\ flatFor' = 0
  /\ UNCHANGED <<system, capture, engine, audioUsers, target, mute, judged, checker, alive, masked>>

MuteBecomes(m) ==
  /\ system = "up" /\ mute' = m
  /\ UNCHANGED <<system, capture, engine, audioUsers, target, peak, judged, checker, account>>

\* mute_audio_input_for_ms, by whoever writes to the line: for at most
\* AUDIO_LINE_MUTE_MAX_MS, which is shorter than a check
MuteFor == mute = "no" /\ MuteBecomes("short")

\* It is prolonged by the next one, or the wall clock is set back under it
MuteLasts == mute \in {"short", "over"} /\ MuteBecomes("long")

MuteEnds == Muted /\ MuteBecomes(IF mute = "long" THEN "over" ELSE "no")

-----------------------------------------------------------------------------
\* The clients

\* ensure_audio_engine_running, which may fail
Ensured == {engine, "on"}

Listen ==
  /\ system = "up" /\ listeners = "no"
  /\ listeners' = "some" /\ engine' \in Ensured
  /\ UNCHANGED <<system, capture, call, target, peak, mute, judged, checker, account>>

\* maybe_stop_audio_engine
MaybeStopped(wanted) == IF wanted = "no" THEN "off" ELSE engine
AliveStill == alive' = IF engine' = "off" THEN "no" ELSE alive

Leave ==
  /\ system = "up" /\ listeners = "some"
  /\ listeners' = "no" /\ engine' = MaybeStopped(target) /\ AliveStill
  /\ UNCHANGED <<system, capture, call, target, peak, mute, judged, checker, flatFor, masked>>

\* start_audio_session: without an engine the target is cleared again
SipAttaches ==
  /\ system = "up" /\ call = "no"
  /\ engine' \in Ensured
  /\ IF engine' = "on" THEN call' = "yes" /\ target' = "yes"
     ELSE target' = "no" /\ UNCHANGED call
  /\ UNCHANGED <<system, capture, listeners, peak, mute, judged, checker, account>>

\* stop_audio_session
SipDetaches ==
  /\ system = "up" /\ call = "yes"
  /\ call' = "no" /\ target' = "no"
  /\ engine' = MaybeStopped(listeners) /\ AliveStill
  /\ UNCHANGED <<system, capture, listeners, peak, mute, judged, checker, flatFor, masked>>

-----------------------------------------------------------------------------
\* The check

\* The frames are 20 ms long: a capture that was alive for a whole check has
\* been measured, unless a mute covered the check
Masked == mute \in {"long", "over"}

HealthLook ==
  /\ HealthAt("poll")
  /\ alive = "yes" /\ peak = 0 => Masked
  /\ checker' = [pc |-> "judge",
                 active |-> IF engine = "on" /\ listeners = "some" THEN "yes" ELSE "no"]
  /\ mute' = IF mute = "over" THEN "no" ELSE mute
  /\ alive' = IF engine = "on" /\ capture # "flat" THEN "yes" ELSE "no"
  /\ flatFor' = IF alive = "yes" THEN 0 ELSE flatFor
  /\ masked' = IF alive = "yes" /\ peak = 0 THEN "yes" ELSE masked
  /\ UNCHANGED <<system, capture, engine, audioUsers, target, peak, judged>>

Counted ==
  IF checker.active = "no" THEN 0 ELSE IF flatFor < MaxQuiet THEN flatFor + 1 ELSE MaxQuiet

\* Mutant: the peak is not cleared
TakenKept == UNCHANGED peak /\ flatFor' = Counted

\* The peak is taken, and the next check starts from silence
Taken == peak' = 0 /\ flatFor' = Counted

\* Nobody listens, or the capture is heard
Sound == checker.active = "no" \/ peak = 1

Calm ==
  /\ HealthAt("judge") /\ Sound /\ Taken
  /\ silent' = -1 /\ attempts' = 0 /\ health' = "ok" /\ masked' = "no"
  /\ checker' = BetweenChecks
  /\ UNCHANGED <<system, capture, engine, audioUsers, target, mute, alive>>

Silent ==
  /\ HealthAt("judge") /\ ~Sound /\ Taken
  /\ silent + 1 < Fault
  /\ silent' = silent + 1
  /\ checker' = BetweenChecks
  /\ UNCHANGED <<system, capture, engine, audioUsers, target, mute, attempts, health, alive, masked>>

\* Mutant: the time is not started again
FaultedAgain ==
  /\ HealthAt("judge") /\ ~Sound /\ Taken
  /\ silent + 1 >= Fault
  /\ attempts' = attempts + 1 /\ health' = "fault" /\ UNCHANGED silent

Faulted ==
  /\ HealthAt("judge") /\ ~Sound /\ Taken
  /\ silent + 1 >= Fault
  /\ silent' = 0 /\ attempts' = attempts + 1 /\ health' = "fault"

\* stop_audio_engine, which clears the SIP target ...
Restart ==
  /\ Faulted /\ attempts' = 1
  /\ engine' = "off" /\ target' = "no" /\ AliveStill
  /\ checker' = [pc |-> "start", active |-> "no"]
  /\ UNCHANGED <<system, capture, audioUsers, mute, masked>>

\* ... and half a second later ensure_audio_engine_running
Restarted ==
  /\ HealthAt("start")
  /\ engine' \in Ensured
  /\ checker' = BetweenChecks
  /\ UNCHANGED <<system, capture, audioUsers, target, peak, mute, judged, account>>

Wait ==
  /\ Faulted /\ attempts' # 1 /\ attempts' < Retries
  /\ checker' = BetweenChecks
  /\ UNCHANGED <<system, capture, engine, audioUsers, target, mute, alive, masked>>

RebootForAudio ==
  /\ Faulted /\ attempts' # 1 /\ attempts' >= Retries
  /\ system' = "reset"
  /\ UNCHANGED <<capture, engine, audioUsers, target, mute, checker, alive, masked>>

\* The board starts again, and its capture with it
AudioBoots ==
  /\ system = "reset" /\ system' = "up"
  /\ capture' = "sound"
  /\ engine' = "off" /\ listeners' = "no" /\ call' = "no" /\ target' = "no"
  /\ peak' = 0 /\ mute' = "no"
  /\ silent' = -1 /\ attempts' = 0 /\ health' = "ok"
  /\ checker' = BetweenChecks
  /\ alive' = "no" /\ flatFor' = 0 /\ masked' = "no"

HealthCheck == HealthLook \/ Calm \/ Silent \/ Restart \/ Restarted \/ Wait \/ RebootForAudio

AudioNext ==
  \/ CaptureChanges \/ Frame \/ MuteFor \/ MuteLasts \/ MuteEnds
  \/ Listen \/ Leave \/ SipAttaches \/ SipDetaches
  \/ HealthCheck \/ AudioBoots

AudioSpec == AudioInit /\ [][AudioNext]_audioVars

\* The main loop runs
FairAudioSpec == AudioSpec /\ WF_audioVars(HealthCheck)

-----------------------------------------------------------------------------

AudioTypeOK ==
  /\ system \in {"up", "reset"}
  /\ capture \in {"sound", "flat", "error"}
  /\ engine \in {"on", "off"} /\ listeners \in {"some", "no"}
  /\ call \in {"yes", "no"} /\ target \in {"yes", "no"}
  /\ peak \in {0, 1} /\ mute \in {"no", "short", "long", "over"}
  /\ silent \in -1 .. Fault /\ attempts \in 0 .. Retries /\ health \in {"ok", "fault"}
  /\ checker \in [pc : {"poll", "judge", "start"}, active : {"yes", "no"}]
  /\ flatFor \in 0 .. MaxQuiet /\ alive \in {"yes", "no"} /\ masked \in {"yes", "no"}
  /\ system = "reset" => attempts = Retries
  /\ health = "fault" => attempts > 0
  /\ attempts > 0 => health = "fault" /\ silent >= 0

\* The board is rebooted only after Retries whole fault periods in a row in use
\* without one measured frame that is not flat and without one check in which
\* the capture was alive, whatever clients, calls and the mutes of the line did
\* meanwhile.  A mute may hide a capture that is alive when it covers a whole
\* check: commands that prolong each other's mute for 5 s, or the wall clock set
\* back under one (mute_audio_input_for_ms); the board is then rebooted with a
\* capture that works (masked).
RebootNeedsSilence == system = "reset" /\ masked = "no" => flatFor > Fault * Retries

\* "A capture that stays flat for AUDIO_SILENCE_FAULT_MS is restarted; if a
\* restart does not bring it back, the board is rebooted" (main): no listener
\* is left with a capture that stays flat, whatever calls and other listeners
\* do.  It takes a frame to be captured (the tone that stands for a read that
\* failed is not flat) and an engine that starts again after the restart.
FlatInUse ==
  /\ system = "up" /\ capture = "flat" /\ listeners = "some"
  /\ engine = "on" \/ checker.pc = "start"

DeadCaptureEnds == []<>~FlatInUse
=============================================================================
