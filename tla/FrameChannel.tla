----------------------------- MODULE FrameChannel -----------------------------
(***************************************************************************)
(* What the serial monitor promises of the frames of the unit's MCU: each  *)
(* frame it acts on was sent, none twice and none out of order.  Frames    *)
(* may be lost.                                                            *)
(***************************************************************************)
EXTENDS Naturals, Sequences, SequencesExt

CONSTANT Frame

VARIABLES sent,  \* the frames sent so far
          last,  \* position in sent of the last one delivered
          acted  \* the frame delivered last, or none

channelVars == << sent, last, acted >>

NoFrame == << >>

ChannelInit == sent = << >> /\ last = 0 /\ acted = NoFrame

Send == /\ IsStrictPrefix(sent, sent')
        /\ \A n \in DOMAIN sent' : sent'[n] \in Frame

\* The delivery may be answered by a frame at once.
Deliver == /\ \E n \in DOMAIN sent : /\ last < n
                                     /\ last' = n /\ acted' = sent[n]
           /\ sent' = sent \/ Send

ChannelNext == Deliver \/ (Send /\ UNCHANGED << last, acted >>)

ChannelSpec == ChannelInit /\ [][ChannelNext]_channelVars
=============================================================================
