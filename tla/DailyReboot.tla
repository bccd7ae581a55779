---------------------------- MODULE DailyReboot ----------------------------
(***************************************************************************)
(* The scheduled reboot of the main loop (sip_media.c, main): every 30 s   *)
(* it asks whether the local time is in the hour that follows the          *)
(* configured one, and reboots if nobody uses the intercom.                *)
(*                                                                         *)
(* The day has Day minutes and the hour Hour of them; the properties hold  *)
(* or fail by their proportions, so the runs make both small.  The check   *)
(* runs at least once a minute and a round of the loop is over before the  *)
(* next minute.  The clock is unset after a boot until ntpd has run.       *)
(***************************************************************************)
EXTENDS Integers

CONSTANTS Day,    \* minutes in a day
          Hour,   \* minutes in an hour
          Dues,   \* minutes that may be configured
          Year    \* tm_yday is below it

ASSUME DayAssumption == Day \in Nat /\ Hour \in 1..Day
ASSUME DuesAssumption == Dues \subseteq 0..(Day - 1) /\ Dues # {}
ASSUME YearAssumption == Year \in Nat \ {0}

VARIABLES
  board,    \* "up" or "down"
  clock,    \* what the board believes: "set" or "unset" (before 2023)
  yday, minute,   \* the local time
  enabled, due,   \* daily_reboot_enabled; hour and minute, in minutes
  users,    \* who uses the intercom: a call, RTSP video, RTSP audio
  last,     \* last_reboot_yday
  checked,  \* "yes" when the check has run this minute
  main,     \* the check: its step, what it read, who was there throughout
  quiet     \* history: nothing but the check has stood in the way this minute

config == <<enabled, due>>
dailyVars == <<board, clock, yday, minute, config, users, last, checked, main, quiet>>

Users == {"call", "video", "audio"}
Polling == [step |-> "poll", yday |-> 0, due |-> 0, stayed |-> {}]

DailyInit ==
  /\ board = "up" /\ clock = "unset"
  /\ yday = 0 /\ minute = 0
  /\ enabled \in {"yes", "no"} /\ due \in Dues
  /\ users = {} /\ last = -1
  /\ checked = "no" /\ main = Polling
  /\ quiet = "no"

-----------------------------------------------------------------------------
\* Mutant: the first minute is missed, as by > for >=
WindowLate(now, from) == now > from /\ now < from + Hour

\* Whether the check takes the minute to be in the hour that follows
Window(now, from) == now >= from /\ now < from + Hour

\* Whether it is
InHour(now, from) == (now - from) % Day < Hour

MainAt(step) == board = "up" /\ main.step = step
MainGoes(step) == main' = [main EXCEPT !.step = step]

\* Mutant: a clock that was never set is believed
CheckAnyClock ==
  /\ MainAt("poll") /\ enabled = "yes"
  /\ checked' = "yes"
  /\ IF Window(minute, due) /\ yday # last
     THEN main' = [step |-> "call", yday |-> yday, due |-> due, stayed |-> users]
     ELSE UNCHANGED main
  /\ UNCHANGED <<board, clock, yday, minute, config, users, last, quiet>>

CheckTime ==
  /\ MainAt("poll") /\ enabled = "yes"
  /\ checked' = "yes"
  /\ IF clock = "set" /\ Window(minute, due) /\ yday # last
     THEN main' = [step |-> "call", yday |-> yday, due |-> due, stayed |-> users]
     ELSE UNCHANGED main
  /\ UNCHANGED <<board, clock, yday, minute, config, users, last, quiet>>

\* sip_calling_is_call_active, then the two client counts: each looked at once
Look(user, next) ==
  /\ MainAt(user)
  /\ IF user \in users THEN main' = Polling ELSE MainGoes(next)
  /\ UNCHANGED <<board, clock, yday, minute, config, users, last, checked, quiet>>

\* Mutant: the audio clients are not asked for
LookTwice ==
  \/ Look("call", "video") \/ Look("video", "reboot")

LookAll ==
  \/ Look("call", "video") \/ Look("video", "audio") \/ Look("audio", "reboot")

\* The day is remembered, and by the boot forgotten
RebootBoard ==
  /\ MainAt("reboot")
  /\ last' = main.yday
  /\ board' = "down" /\ clock' = "unset" /\ users' = {}
  /\ main' = Polling
  /\ quiet' = "no"
  /\ UNCHANGED <<yday, minute, config, checked>>

-----------------------------------------------------------------------------
\* The board, the clock and the people

\* The main loop begins with last_reboot_yday = -1
BootBoard ==
  /\ board = "down"
  /\ board' = "up" /\ last' = -1
  /\ UNCHANGED <<clock, yday, minute, config, users, checked, main, quiet>>

ClockIsSet ==
  /\ board = "up" /\ clock = "unset"
  /\ clock' = "set"
  /\ UNCHANGED <<board, yday, minute, config, users, last, checked, main, quiet>>

\* A minute passes: the check has run in it, if it is enabled
Tick ==
  /\ main.step = "poll"
  /\ board = "up" /\ enabled = "yes" => checked = "yes"
  /\ minute' = (minute + 1) % Day
  /\ yday' = IF minute' = 0 THEN (yday + 1) % Year ELSE yday
  /\ quiet' = IF board = "up" /\ clock = "set" /\ enabled = "yes" /\ users = {}
              THEN "yes" ELSE "no"
  /\ checked' = "no"
  /\ UNCHANGED <<board, clock, config, users, last, main>>

Come(user) ==
  /\ board = "up" /\ user \notin users
  /\ users' = users \cup {user} /\ quiet' = "no"
  /\ UNCHANGED <<board, clock, yday, minute, config, last, checked, main>>

Go(user) ==
  /\ user \in users
  /\ users' = users \ {user}
  /\ main' = [main EXCEPT !.stayed = @ \ {user}]
  /\ UNCHANGED <<board, clock, yday, minute, config, last, checked, quiet>>

\* mqtt_set_daily_reboot_enabled_callback, mqtt_set_daily_reboot_hour_callback
Configure ==
  /\ board = "up"
  /\ enabled' \in {"yes", "no"} /\ due' \in Dues
  /\ config' # config
  /\ checked' = "no" /\ quiet' = "no"
  /\ UNCHANGED <<board, clock, yday, minute, users, last, main>>

DailyNext ==
  \/ CheckTime \/ LookAll \/ RebootBoard
  \/ BootBoard \/ ClockIsSet \/ Tick
  \/ \E user \in Users : Come(user) \/ Go(user)
  \/ Configure

DailySpec == DailyInit /\ [][DailyNext]_dailyVars

-----------------------------------------------------------------------------
\* The state is well formed, and a board that is down is not in a check.
RebootTypeOK ==
  /\ board \in {"up", "down"} /\ clock \in {"set", "unset"}
  /\ yday \in 0..(Year - 1) /\ minute \in 0..(Day - 1)
  /\ enabled \in {"yes", "no"} /\ due \in Dues
  /\ users \subseteq Users /\ last \in -1..(Year - 1)
  /\ checked \in {"yes", "no"} /\ quiet \in {"yes", "no"}
  /\ main \in [step : {"poll", "reboot"} \cup Users, yday : 0..(Year - 1),
               due : Dues \cup {0}, stayed : SUBSET Users]
  /\ board = "down" => main = Polling /\ users = {} /\ clock = "unset"

\* The board reboots only by a clock that is set, inside the hour configured.
RebootIsDue ==
  MainAt("reboot") => clock = "set" /\ InHour(minute, main.due)

\* Who was there when the check began and stayed is not cut off, however
\* others come and go meanwhile.
SparesWhoStayed == MainAt("reboot") => main.stayed = {}

\* Both: the scheduled reboot comes neither at a wrong time nor upon a user who
\* was there all along, whatever changed between the check's questions.
RebootIsLawful == RebootIsDue /\ SparesWhoStayed

\* A whole minute of that hour with the feature enabled, the clock set and
\* nobody using the intercom does not pass without the reboot.  (It holds for
\* the values of Dues whose hour ends before midnight: Window does not reach
\* over it.)
DueIsDone == [][Tick => ~(quiet = "yes" /\ InHour(minute, due))]_dailyVars
=============================================================================
