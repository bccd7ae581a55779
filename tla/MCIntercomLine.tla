--------------------------- MODULE MCIntercomLine ---------------------------
\* For liveness: the threads that serve viewers, with a call or with the door,
\* and nothing that defeats the viewers; the two that look for a picture or a
\* call, on a panel that opens its line by itself; and a ring with its timeout.
EXTENDS IntercomLine

Gentle(who) == [actors |-> who, hangupOnUnlock |-> TRUE, refusals |-> FALSE,
                panelCalls |-> FALSE, sendFailures |-> FALSE, calm |-> TRUE]

MCFairSettings ==
  {Gentle({"main", "client", "door"}), Gentle({"sip", "main", "client"}),
   [Gentle({"snapshot", "ding"}) EXCEPT !.panelCalls = TRUE],
   Gentle({"ding", "timeout"})}
=============================================================================
