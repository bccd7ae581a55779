---------------------------- MODULE MCRtspClients ----------------------------
\* Two workers on two slots, and on one slot over restarts of the service:
\* a slot is free again before its worker has ended.
EXTENDS RtspClients

CONSTANTS f1, f2

MCSettings ==
  {[maxClients |-> 2, fds |-> {f1, f2}, restarts |-> FALSE],
   [maxClients |-> 1, fds |-> {f1}, restarts |-> TRUE]}
=============================================================================
