---------------------------- MODULE MCMediaSinks ----------------------------
\* A SIP call and the capture thread: joined by whoever stops the engine, it
\* can stop the daemon.
EXTENDS MediaSinks

MCJoinSettings ==
  {[others |-> {"sip", "input"}, maxClients |-> 1, crashes |-> FALSE]}
=============================================================================
