------------------------------- MODULE MCBoard -------------------------------
\* The three parts of the daemon that may reset the board, each checked on its
\* own: they share no state but the board, and the first reset ends them all.
\* The parts that are not checked stay in one initial state.
EXTENDS HardwareWatchdog, AudioHealth, DailyReboot

VARIABLE part

BoardInit ==
  /\ WatchdogInit /\ AudioInit /\ DailyInit
  /\ part \in {"watchdog", "audio", "daily"}
  /\ part # "daily" => enabled = "no" /\ due = 0

BoardNext ==
  /\ UNCHANGED part
  /\ \/ part = "watchdog" /\ WatchdogNext /\ UNCHANGED <<audioVars, dailyVars>>
     \/ part = "audio" /\ AudioNext /\ UNCHANGED <<watchdogVars, dailyVars>>
     \/ part = "daily" /\ DailyNext /\ UNCHANGED <<watchdogVars, audioVars>>

BoardSpec ==
  /\ BoardInit /\ [][BoardNext]_<<part, watchdogVars, audioVars, dailyVars>>
  /\ WF_audioVars(part = "audio" /\ HealthCheck /\ UNCHANGED <<watchdogVars, dailyVars>>)
=============================================================================
