------------------------------- MODULE MCPanel -------------------------------
\* The serial line to the panel, its two layers each checked on its own: the
\* frames on the byte stream, and what the contexts of the daemon do with the
\* panel line (whose frames arrive whole in IntercomLine).  The layer that is
\* not checked stays in its initial state.
EXTENDS IntercomLine, PanelUart

VARIABLE part

\* Groups of threads that meet on the line, each in the roughest or in the
\* calmest surroundings
Rough(who) == [actors |-> who, hangupOnUnlock |-> TRUE, refusals |-> TRUE,
               panelCalls |-> TRUE, sendFailures |-> TRUE, calm |-> FALSE]
Gentle(who) == [actors |-> who, hangupOnUnlock |-> TRUE, refusals |-> FALSE,
                panelCalls |-> FALSE, sendFailures |-> FALSE, calm |-> TRUE]

MCSettings ==
  {Rough({"sip", "main", "client"}),
   [Rough({"sip"}) EXCEPT !.sendFailures = FALSE, !.panelCalls = FALSE],
   [Rough({"sip", "door", "ding"}) EXCEPT !.sendFailures = FALSE],
   Gentle({"main", "client", "snapshot", "door"}),
   [Rough({"sip", "ding", "timeout"}) EXCEPT !.panelCalls = FALSE],
   Gentle({"ding", "timeout", "client"})}

MCCodes == {HangUp0, PushState0, StartCall}

PanelPartsInit ==
  \/ part = "line" /\ Init /\ PanelStart("framing")
  \/ part = "frames" /\ Init /\ setting = Rough({"sip", "main", "client"}) /\ PanelInit

\* The frames and the faults of a behaviour are finite in number
Over == part = "frames" /\ wire = <<>> /\ UNCHANGED <<vars, panelVars>>

PanelPartsNext ==
  /\ UNCHANGED part
  /\ \/ part = "line" /\ Next /\ UNCHANGED panelVars
     \/ part = "frames" /\ PanelNext /\ UNCHANGED vars
     \/ Over

PanelPartsSpec == PanelPartsInit /\ [][PanelPartsNext]_<<part, vars, panelVars>>
=============================================================================
