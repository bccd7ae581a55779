----------------------------- MODULE MCRingFlow -----------------------------
\* A serial thread alone against calls of both directions, and both panel
\* threads with calls that are made by rings only.
EXTENDS RingFlow

MCSettings == {
  [outgoing |-> BOOLEAN, incoming |-> TRUE, developer |-> FALSE,
   threadsFail |-> FALSE, calm |-> FALSE],
  [outgoing |-> BOOLEAN, incoming |-> FALSE, developer |-> TRUE,
   threadsFail |-> FALSE, calm |-> TRUE],
  [outgoing |-> {TRUE}, incoming |-> FALSE, developer |-> FALSE,
   threadsFail |-> TRUE, calm |-> TRUE]}
=============================================================================
