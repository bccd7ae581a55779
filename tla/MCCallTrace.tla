---------------------------- MODULE MCCallTrace ----------------------------
\* Two reporting threads, one of them the MQTT thread; two call names.
EXTENDS CallTrace
=============================================================================
