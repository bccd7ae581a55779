---------------------------- MODULE MCSipCalling ----------------------------
\* Over a perfect network two calls and one the other way, and one and two the
\* other way; one of each over a network that does everything UDP may do.
EXTENDS SipCalling

CONSTANTS o1, o2, i1, i2

Network(outgoing, incoming, cancels, udp, reorder) ==
  [outgoing |-> outgoing, incoming |-> incoming, cancels |-> cancels,
   reorder |-> reorder, loss |-> udp, dups |-> IF udp THEN 1 ELSE 0,
   cutIncoming |-> udp]

MCNetworks ==
  {Network({o1, o2}, {i1}, TRUE, FALSE, FALSE),
   Network({o1}, {i1, i2}, FALSE, FALSE, FALSE),
   Network({o1}, {i1}, TRUE, TRUE, FALSE),
   Network({o1}, {i1}, TRUE, TRUE, TRUE)}
=============================================================================
