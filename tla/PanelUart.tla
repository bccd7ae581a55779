------------------------------- MODULE PanelUart -------------------------------
(***************************************************************************)
(* The serial line from the unit's MCU: four-byte frames on a byte stream  *)
(* that loses bytes, the monitor thread that cuts it into frames           *)
(* (serial_monitor_thread_func), and what handle_uart_frame does about     *)
(* call forwarding and the Wi-Fi button.  The effects of the call frames   *)
(* are in IntercomLine, RingFlow and SipCalling.                           *)
(*                                                                         *)
(*  - A byte on the wire carries the number of the frame it was sent in    *)
(*    and its place there, which only the properties look at.              *)
(*  - A time stamp is "no", "recent" (inside the window the code compares  *)
(*    it with) or "old"; the two windows are 500 ms and 10 s.              *)
(*  - The MCU, the people at its buttons and the wire are external.        *)
(***************************************************************************)
EXTENDS Integers, Sequences, FiniteSets, SequencesExt

CONSTANTS Scenes,     \* what the MCU does in a behaviour
          Codes,      \* frames of the table that the "framing" scene sends
          Addresses,  \* VDS addresses it reports
          MaxSent,    \* bound: frames sent by the MCU
          MaxBursts,  \* bound: bursts of lost bytes, and read errors
          MaxBurst,   \* bound: bytes lost in a burst
          MaxSets     \* bound: commands from Home Assistant, failed or not

Marker == 251

\* 0xFB leads and the last byte is the sum of the others modulo 240.
FrameOf(cmd, data) == << Marker, cmd, data, (Marker + cmd + data) % 240 >>

Alarm == FrameOf(17, 0)
HangUp0 == FrameOf(19, 0)
HangUp1 == FrameOf(19, 1)
StartCall == FrameOf(20, 1)
McuState0 == FrameOf(22, 0)
McuState1 == FrameOf(22, 1)
SaveAddr(address) == FrameOf(24, address)
PushState0 == FrameOf(25, 0)
PushState1 == FrameOf(25, 1)
CmdReset == FrameOf(32, 0)
StaToAp == FrameOf(33, 0)
Handset == FrameOf(35, 0)
LongDown1 == FrameOf(36, 1)
LongDown2 == FrameOf(36, 2)

\* uart_codes
Known == { Alarm, HangUp0, HangUp1, StartCall, McuState0, McuState1,
           PushState0, PushState1, CmdReset, StaToAp, Handset,
           LongDown1, LongDown2 }

ASSUME PanelAssumption ==
  /\ Scenes \subseteq {"framing", "forwarding", "button"}
  /\ Codes \subseteq Known /\ Addresses \subseteq 0..250
  /\ MaxSent \in Nat /\ MaxBursts \in Nat /\ MaxBurst \in Nat /\ MaxSets \in Nat

VARIABLES
  scene,       \* which of Scenes this behaviour plays
  wire,        \* bytes the daemon has not read
  port,        \* the device is open
  frame,       \* bytes of the frame being assembled
  forward,     \* call_forward_state: -1 unknown, 0, 1
  offAt,       \* call_forward_off_ms
  restore,     \* call_forward_restore_pending
  shown,       \* the switch and the address that MQTT publishes
  ordered,     \* what the MQTT callback wrote and has not published
  pressAt,     \* wifi_button_long_started_ms
  apRequested, \* the wifi-ap-request marker is on the flash
  unit,        \* the MCU: forwarding, programming mode, whether it echoes
  sent,        \* frames the MCU sent
  taken, acted,\* number and bytes of the last frame of the table acted on
  seen,        \* numbers of the frames acted on, SAVE_ADDR included
  touched,     \* numbers of the frames that lost a byte
  before,      \* forwarding when programming began: "on", "off", or "any"
               \* because somebody interfered or a byte was lost, half a frame
               \* was held, or a lost MCU_STATE_0 left a restoration pending
  mixed,       \* publications of the switch overlapped, or a byte was lost
  bursts, sets

lineVars == << wire, port, frame >>
forwardVars == << forward, offAt, restore, shown, ordered, before, mixed >>
buttonVars == << pressAt, apRequested >>
traceVars == << sent, taken, acted, seen, touched >>
panelVars == << scene, lineVars, forwardVars, buttonVars, unit, traceVars,
                bursts, sets >>

NoSetting == -1

PanelStart(s) ==
  /\ scene = s
  /\ wire = << >> /\ port = FALSE /\ frame = << >>
  /\ forward = -1 /\ offAt = "no" /\ restore = FALSE
  /\ shown = [switch |-> -1, address |-> -1]
  /\ ordered = NoSetting
  /\ pressAt = "no" /\ apRequested = FALSE
  /\ unit \in [forwarding : BOOLEAN, programming : {FALSE}, echoes : BOOLEAN]
  /\ s # "forwarding" => unit.forwarding /\ unit.echoes
  /\ sent = << >> /\ taken = 0 /\ acted = << >>
  /\ seen = {} /\ touched = {}
  /\ before = "any" /\ mixed = FALSE
  /\ bursts = 0 /\ sets = 0

PanelInit == \E s \in Scenes : PanelStart(s)

-----------------------------------------------------------------------------
(* The wire and the MCU (external)                                         *)

\* The bytes of frames written back to back.
OnWire(more) ==
  [k \in 1..4 * Len(more) |->
     [byte |-> more[((k - 1) \div 4) + 1][((k - 1) % 4) + 1],
      from |-> Len(sent) + ((k - 1) \div 4) + 1, at |-> ((k - 1) % 4) + 1]]

Transmit(more) ==
  /\ Len(sent) + Len(more) <= MaxSent
  /\ sent' = sent \o more
  /\ wire' = wire \o OnWire(more)
  /\ UNCHANGED << taken, acted, seen, touched >>

Talk ==
  /\ scene = "framing"
  /\ \E f \in Codes \cup { SaveAddr(a) : a \in Addresses } : Transmit(<< f >>)
  /\ UNCHANGED << scene, port, frame, forwardVars, buttonVars, unit, bursts, sets >>

Report(on) == << IF on THEN PushState1 ELSE PushState0 >>

\* Nobody presses PB1 and then PB2 within half a second.
Unrushed == scene = "forwarding" /\ offAt # "recent" /\ wire = << >>

\* The physical forward button PB1, which nobody presses while programming.
Toggle ==
  /\ Unrushed /\ ~unit.programming
  /\ unit' = [unit EXCEPT !.forwarding = ~@]
  /\ Transmit(Report(~unit.forwarding))
  /\ before' = "any"
  /\ UNCHANGED << scene, port, frame, forward, offAt, restore, shown, ordered,
                  mixed, buttonVars, bursts, sets >>

\* PB2: programming mode switches forwarding off; both are told in one write.
EnterProgramming ==
  /\ Unrushed /\ ~unit.programming
  /\ unit' = [unit EXCEPT !.programming = TRUE, !.forwarding = FALSE]
  /\ before' = IF frame # << >> THEN "any"
               ELSE IF ~unit.forwarding THEN IF restore THEN "any" ELSE "off"
               ELSE IF forward = 1 /\ ordered = NoSetting THEN "on" ELSE "any"
  /\ Transmit(IF unit.forwarding THEN << PushState0, McuState1 >> ELSE << McuState1 >>)
  /\ UNCHANGED << scene, port, frame, forward, offAt, restore, shown, ordered,
                  mixed, buttonVars, bursts, sets >>

LeaveProgramming ==
  /\ Unrushed /\ unit.programming
  /\ unit' = [unit EXCEPT !.programming = FALSE]
  /\ Transmit(<< McuState0 >>)
  /\ UNCHANGED << scene, port, frame, forwardVars, buttonVars, bursts, sets >>

\* The Wi-Fi button: down for a while, or three seconds longer; an earlier MCU
\* sends one frame for the whole press.
ButtonDown ==
  /\ scene = "button"
  /\ \/ Transmit(<< LongDown1 >>)
     \/ Transmit(<< StaToAp >>)
     \/ sent # << >> /\ Last(sent) = LongDown1 /\ Transmit(<< LongDown2 >>)
  /\ UNCHANGED << scene, port, frame, forwardVars, buttonVars, unit, bursts, sets >>

Lost(numbers) ==
  /\ touched' = touched \cup numbers
  /\ IF numbers = {} THEN UNCHANGED << before, mixed >>
                     ELSE before' = "any" /\ mixed' = TRUE
  /\ UNCHANGED << sent, taken, acted, seen >>

Damage == bursts < MaxBursts /\ bursts' = bursts + 1

\* A receive buffer overruns: a run of bytes is lost.
LoseBytes ==
  /\ Damage
  /\ \E i \in DOMAIN wire, n \in 1..MaxBurst :
       /\ i + n - 1 <= Len(wire)
       /\ wire' = SubSeq(wire, 1, i - 1) \o SubSeq(wire, i + n, Len(wire))
       /\ Lost({ wire[k].from : k \in i..(i + n - 1) })
  /\ UNCHANGED << scene, port, frame, forward, offAt, restore, shown, ordered,
                  buttonVars, unit, sets >>

-----------------------------------------------------------------------------
(* The monitor thread                                                      *)

\* open, and configure_serial_raw, which flushes what the device had received.
OpenPort ==
  /\ ~port /\ port' = TRUE
  /\ wire' = << >> /\ Lost({ wire[k].from : k \in DOMAIN wire })
  /\ UNCHANGED << scene, frame, forward, offAt, restore, shown, ordered,
                  buttonVars, unit, bursts, sets >>

\* A read error: the device is closed and what was assembled is forgotten.
ReadError ==
  /\ port /\ Damage
  /\ port' = FALSE /\ frame' = << >>
  /\ Lost({ frame[k].from : k \in DOMAIN frame })
  /\ UNCHANGED << scene, wire, forward, offAt, restore, shown, ordered,
                  buttonVars, unit, sets >>

\* Mutant: any byte begins a frame.
CollectsAny(b) == TRUE

\* The byte is kept: it begins a frame, or continues one.
Collects(b) == frame # << >> \/ b.byte = Marker

\* Fewer than four bytes so far, or a byte in front of any frame.
TakeByte ==
  /\ port /\ wire # << >> /\ Len(frame) < 3
  /\ frame' = IF Collects(Head(wire)) THEN Append(frame, Head(wire)) ELSE frame
  /\ wire' = Tail(wire)
  /\ UNCHANGED << scene, port, forwardVars, buttonVars, unit, traceVars, bursts, sets >>

Whole == port /\ wire # << >> /\ Len(frame) = 3
Assembled == [k \in 1..4 |-> Append(frame, Head(wire))[k].byte]

\* The fourth byte: handle_uart_frame is called, which sends nothing itself.
Consumes == /\ wire' = Tail(wire) /\ frame' = << >>
            /\ UNCHANGED << scene, port, sent, touched, unit, bursts, sets >>

\* Which of the frames sent the four bytes are, if they are f: that of the last
\* byte, or that of the first, when it is the end of the frame that was lost.
Number(f) ==
  IF sent[Head(wire).from] = f THEN Head(wire).from ELSE frame[1].from

\* Mutant: the last byte is not compared.
FindsLoosely(f) ==
  /\ Whole /\ SubSeq(Assembled, 1, 3) = SubSeq(f, 1, 3)
  /\ taken' = Number(f) /\ acted' = f
  /\ seen' = seen \cup { Number(f) }

\* uart_protocol_find has found the frame f.
Finds(f) ==
  /\ Whole /\ Assembled = f
  /\ taken' = Number(f) /\ acted' = f
  /\ seen' = seen \cup { Number(f) }

\* SAVE_ADDR is recognised by its command byte, before the table is looked at.
AddressReported ==
  /\ Whole /\ Assembled[1] = Marker /\ Assembled[2] = 24
  /\ shown' = [shown EXCEPT !.address = Assembled[3]]
  /\ seen' = seen \cup { Head(wire).from }
  /\ Consumes
  /\ UNCHANGED << taken, acted, forward, offAt, restore, ordered, before, mixed,
                  buttonVars >>

Unknown ==
  /\ Whole /\ Assembled[2] # 24 /\ Assembled \notin Known
  /\ Consumes
  /\ UNCHANGED << taken, acted, seen, forwardVars, buttonVars >>

\* The frames whose effects are in other modules.
CallFrame ==
  /\ \E f \in { Alarm, HangUp0, HangUp1, StartCall, CmdReset, Handset } : Finds(f)
  /\ Consumes
  /\ UNCHANGED << forwardVars, buttonVars >>

\* mqtt_publish_call_forward_enabled, which the MQTT callback may be about to
\* call with the other value.
ShowSwitch(on) ==
  /\ shown' = [shown EXCEPT !.switch = on]
  /\ mixed' = (mixed \/ ordered \notin {NoSetting, on})

ForwardingOff ==
  /\ Finds(PushState0) /\ Consumes
  /\ offAt' = IF forward = 1 THEN "recent" ELSE offAt
  /\ forward' = 0 /\ ShowSwitch(0)
  /\ UNCHANGED << restore, ordered, before, buttonVars >>

ForwardingOn ==
  /\ Finds(PushState1) /\ Consumes
  /\ forward' = 1 /\ offAt' = "no" /\ restore' = FALSE /\ ShowSwitch(1)
  /\ UNCHANGED << ordered, before, buttonVars >>

\* Mutant: switched off whenever, it is taken for programming.
EveryOff == offAt # "no"

\* Forwarding went off in the read that carries the mode change.
OffWithMode == offAt = "recent"

ProgrammingBegins ==
  /\ Finds(McuState1) /\ Consumes
  /\ restore' = (restore \/ OffWithMode)
  /\ UNCHANGED << forward, offAt, shown, ordered, before, mixed, buttonVars >>

\* MCU_STATE_0, with nothing to restore, or with a write that fails.
ProgrammingEnds ==
  /\ Finds(McuState0) /\ restore' = FALSE
  /\ \/ ~restore /\ Consumes /\ UNCHANGED before
     \/ /\ restore /\ sets < MaxSets /\ sets' = sets + 1 /\ before' = "any"
        /\ wire' = Tail(wire) /\ frame' = << >>
        /\ UNCHANGED << scene, port, sent, touched, unit, bursts >>
  /\ UNCHANGED << forward, offAt, shown, ordered, mixed, buttonVars >>

-----------------------------------------------------------------------------
(* Commands to the MCU: intercom_send_command                              *)

\* The MCU obeys, and may say so.
Obeys(on, rest) ==
  /\ unit' = [unit EXCEPT !.forwarding = on]
  /\ sent' = sent \o IF unit.echoes THEN Report(on) ELSE << >>
  /\ wire' = rest \o IF unit.echoes THEN OnWire(Report(on)) ELSE << >>

\* MCU_STATE_0: the pending restoration is forgotten, then sent.
Restores ==
  /\ Finds(McuState0) /\ restore /\ restore' = FALSE
  /\ Obeys(TRUE, Tail(wire)) /\ frame' = << >>
  /\ UNCHANGED << scene, port, touched, forward, offAt, shown, ordered, before,
                  mixed, buttonVars, bursts, sets >>

\* mqtt_set_call_forward_enabled_callback: the write, and the publication.
\* When the write fails nothing is published and nothing changes.
SetForwarding(on) ==
  /\ scene = "forwarding" /\ ordered = NoSetting
  /\ Len(sent) < MaxSent /\ sets < MaxSets /\ sets' = sets + 1
  /\ Obeys(on = 1, wire)
  /\ ordered' = on /\ before' = "any"
  /\ mixed' = (mixed \/ wire # << >>)
  /\ UNCHANGED << scene, port, frame, taken, acted, seen, touched, forward,
                  offAt, restore, shown, buttonVars, bursts >>

PublishSetting ==
  /\ ordered # NoSetting /\ ordered' = NoSetting
  /\ shown' = [shown EXCEPT !.switch = ordered]
  /\ mixed' = (mixed \/ (ordered = 1) # unit.forwarding)
  /\ UNCHANGED << scene, lineVars, forward, offAt, restore, before, buttonVars,
                  unit, traceVars, bursts, sets >>

-----------------------------------------------------------------------------
(* The Wi-Fi button                                                        *)

FirstStage ==
  /\ Finds(LongDown1) /\ Consumes
  /\ pressAt' = "recent"
  /\ UNCHANGED << forwardVars, apRequested >>

PressIsLong == pressAt = "recent"

\* The marker may not be written; then there is no reboot either.
SecondStage ==
  /\ Finds(LongDown2) /\ Consumes
  /\ pressAt' = "no"
  /\ apRequested' \in {apRequested, PressIsLong \/ apRequested}
  /\ UNCHANGED forwardVars

DirectRequest ==
  /\ Finds(StaToAp) /\ Consumes
  /\ apRequested' \in {apRequested, TRUE}
  /\ UNCHANGED << forwardVars, pressAt >>

\* Half a second passes, while a broker may hold up what handles the read.
WindowPasses ==
  /\ offAt = "recent" /\ offAt' = "old"
  /\ before' = IF wire = << >> THEN before ELSE "any"
  /\ UNCHANGED << scene, lineVars, forward, restore, shown, ordered, mixed,
                  buttonVars, unit, traceVars, bursts, sets >>

\* Ten seconds pass.
PressAges ==
  /\ pressAt = "recent" /\ pressAt' = "old"
  /\ UNCHANGED << scene, lineVars, forwardVars, apRequested, unit, traceVars,
                  bursts, sets >>

-----------------------------------------------------------------------------
Monitor ==
  \/ OpenPort \/ TakeByte \/ AddressReported \/ Unknown \/ CallFrame
  \/ ForwardingOff \/ ForwardingOn
  \/ ProgrammingBegins \/ ProgrammingEnds \/ Restores
  \/ FirstStage \/ SecondStage \/ DirectRequest

PanelNext ==
  \/ Talk \/ Toggle \/ EnterProgramming \/ LeaveProgramming \/ ButtonDown
  \/ LoseBytes \/ ReadError
  \/ Monitor
  \/ \E on \in {0, 1} : SetForwarding(on)
  \/ PublishSetting \/ WindowPasses \/ PressAges

PanelSpec == PanelInit /\ [][PanelNext]_panelVars

-----------------------------------------------------------------------------
(* Properties                                                              *)

Channel == INSTANCE FrameChannel WITH
  Frame <- Known \cup { SaveAddr(a) : a \in Addresses }, last <- taken

\* Whatever run of bytes is lost, a frame of the table is acted on only if the
\* MCU sent it, once and in order (serial_monitor_thread_func, uart_codes).
ActsOnWhatWasSent == Channel!ChannelSpec

AllRead(n) == \A k \in DOMAIN (frame \o wire) : (frame \o wire)[k].from > n

\* Lost bytes cost the frame they are taken from and at most the next one.
DamageIsLocal ==
  \A n \in DOMAIN sent :
    AllRead(n) /\ n \notin touched /\ n - 1 \notin touched => n \in seen

Still == wire = << >> /\ frame = << >> /\ ordered = NoSetting

\* Once everything is read and published, programming mode leaves forwarding
\* as it was when nobody else touched it, and the switch shows what the MCU
\* says unless a command and a report crossed (handle_uart_frame,
\* mqtt_set_call_forward_enabled_callback).
ForwardingIsKept ==
  scene = "forwarding" /\ Still /\ ~unit.programming =>
    /\ before # "any" => unit.forwarding = (before = "on")
    /\ ~mixed /\ unit.echoes /\ shown.switch # -1
         => (shown.switch = 1) = unit.forwarding
=============================================================================
