-------------------------- MODULE SipCalling_proofs --------------------------
(***************************************************************************)
(* Proofs about SipCalling, for any number of calls in either direction    *)
(* and whatever the network does: where the media are, how they go, and    *)
(* that both ends agree on which call is up.                               *)
(***************************************************************************)
EXTENDS SipCalling, SequenceTheorems, TLAPS

State == {"idle", "calling", "ringing", "incoming", "established"}
Direction == {"none", "outgoing", "incoming"}
Kind == {"INVITE", "ACK", "BYE", "CANCEL", "180", "200", "failure"}
Message == [kind : Kind, call : Calls]

SessionOK ==
  /\ session \in [state : State, direction : Direction, call : Calls \cup {NoCall}]
  /\ session.state # "idle" => session.call \in Calls

QueuesOK == toDevice \in Seq(Message) /\ toPeer \in Seq(Message)

SipInv == SessionOK /\ QueuesOK /\ MediaFollowsCall

\* The peer of the call with media is told that it ends.
PeerIsTold ==
  \E i \in Len(toPeer) + 1 .. Len(toPeer') :
    toPeer'[i].call = media /\ toPeer'[i].kind \in {"BYE", "CANCEL"}

\* Message m, or what is sent upon it, says that the call with media ends.
Warned(m) ==
  media # NoCall /\ media' # media =>
    (m.call = media /\ m.kind \in {"BYE", "failure"}) \/ PeerIsTold

-----------------------------------------------------------------------------

\* What is sent comes behind what was in flight.
LEMMA SentBehind ==
  ASSUME toPeer \in Seq(Message), NEW new \in Seq(Message), toPeer' = toPeer \o new
  PROVE  /\ toPeer' \in Seq(Message)
         /\ \A i \in 1 .. Len(new) :
              /\ Len(toPeer) + i \in Len(toPeer) + 1 .. Len(toPeer')
              /\ toPeer'[Len(toPeer) + i] = new[i]
<1>1. /\ toPeer' \in Seq(Message) /\ Len(toPeer') = Len(toPeer) + Len(new)
      /\ \A i \in 1 .. Len(toPeer) + Len(new) :
           toPeer'[i] = IF i <= Len(toPeer) THEN toPeer[i] ELSE new[i - Len(toPeer)]
  BY ConcatProperties
<1>2. Len(toPeer) \in Nat /\ Len(new) \in Nat
  BY LenProperties
<1> QED
  BY <1>1, <1>2

\* A message taken from a queue was in it, and the others stay.
LEMMA TakenFrom ==
  ASSUME NEW queue \in Seq(Message), NEW i \in DOMAIN queue
  PROVE  RemoveAt(queue, i) \in Seq(Message) /\ queue[i] \in Message
<1>1. i \in 1 .. Len(queue) /\ Len(queue) \in Nat
      /\ \A n \in 1 .. Len(queue) : queue[n] \in Message
  BY LenProperties, ElementOfSeq
<1>2. /\ SubSeq(queue, 1, i - 1) \in Seq(Message)
      /\ SubSeq(queue, i + 1, Len(queue)) \in Seq(Message)
  BY <1>1, SubSeqProperties
<1> QED
  BY <1>1, <1>2, ConcatProperties DEF RemoveAt

\* Messages of the session are sent, the first of them of the given kind.
LEMMA Sends ==
  ASSUME SipInv, session.state # "idle", NEW kind \in Kind,
         NEW kinds, kinds = <<kind>> \/ kinds = <<kind, kind, kind>>, Send(kinds)
  PROVE  /\ toPeer' \in Seq(Message)
         /\ kind \in {"BYE", "CANCEL"} /\ media = session.call => PeerIsTold
<1> DEFINE new == [i \in DOMAIN kinds |-> Msg(kinds[i], session.call)]
<1>1. new = <<Msg(kind, session.call)>>
      \/ new = <<Msg(kind, session.call), Msg(kind, session.call), Msg(kind, session.call)>>
  OBVIOUS
<1>2. toPeer' = toPeer \o new
  BY DEF Send
<1> HIDE DEF new
<1>3. Msg(kind, session.call) \in Message
  BY DEF Msg, Message, SipInv, SessionOK
<1>4. new \in Seq(Message) /\ 1 \in 1 .. Len(new) /\ new[1] = Msg(kind, session.call)
  <2> DEFINE m == Msg(kind, session.call)
  <2> HIDE DEF m
  <2>1. m \in Message /\ (new = <<m>> \/ new = <<m, m, m>>)
    BY <1>1, <1>3 DEF m
  <2>2. CASE new = <<m>>
    BY <2>1, <2>2 DEF m
  <2>3. CASE new = <<m, m, m>>
    BY <2>1, <2>3 DEF m
  <2> QED
    BY <2>1, <2>2, <2>3
<1>5. /\ toPeer' \in Seq(Message)
      /\ \A i \in 1 .. Len(new) :
           /\ Len(toPeer) + i \in Len(toPeer) + 1 .. Len(toPeer')
           /\ toPeer'[Len(toPeer) + i] = new[i]
  BY <1>2, <1>4, SentBehind DEF SipInv, QueuesOK
<1>6. /\ Len(toPeer) + 1 \in Len(toPeer) + 1 .. Len(toPeer')
      /\ toPeer'[Len(toPeer) + 1] = Msg(kind, session.call)
  BY <1>4, <1>5
<1> QED
  BY <1>5, <1>6 DEF PeerIsTold, Msg

-----------------------------------------------------------------------------

LEMMA EndKeeps == ASSUME End PROVE SessionOK' /\ MediaFollowsCall'
BY DEF End, Idle, SessionOK, MediaFollowsCall, State, Direction

LEMMA EstablishKeeps ==
  ASSUME SipInv, session.state # "idle", Establish
  PROVE  /\ SessionOK' /\ MediaFollowsCall'
         /\ media # NoCall => media' = media
BY DEF Establish, Enter, SipInv, SessionOK, MediaFollowsCall, State

\* The daemon's own steps.
LEMMA DeviceKeeps ==
  ASSUME SipInv, CheckTimeout \/ Terminate \/ \E c \in Outgoing : MakeCall(c)
  PROVE  SipInv' /\ (media # NoCall /\ media' # media => PeerIsTold)
<1> USE DEF SipInv, QueuesOK
<1>1. CASE \E c \in Outgoing : MakeCall(c)
  <2>1. PICK c \in Outgoing : MakeCall(c)
    BY <1>1
  <2>2. Msg("INVITE", c) \in Message /\ c \in Calls
    BY DEF Msg, Message, Calls, Kind
  <2>3. toPeer' \in Seq(Message)
    BY <2>1, <2>2, AppendProperties DEF MakeCall
  <2>4. SessionOK' /\ MediaFollowsCall'
    BY <2>1, <2>2 DEF MakeCall, SessionOK, MediaFollowsCall, State, Direction
  <2> QED
    BY <2>1, <2>3, <2>4 DEF MakeCall
<1>2. CASE CheckTimeout
  <2>1. /\ session.state # "idle" /\ Send(<<"CANCEL">>) /\ End
        /\ toDevice' = toDevice
    BY <1>2 DEF CheckTimeout, Asking
  <2> QED
    BY <2>1, EndKeeps, Sends DEF MediaFollowsCall, Kind
<1>3. CASE Terminate
  <2>1. session.state # "idle" /\ End /\ toDevice' = toDevice
    BY <1>3 DEF Terminate
  <2>2. CASE session.state = "established" \/ Asking
    <3>1. Send(<<"BYE", "BYE", "BYE">>) \/ Send(<<"CANCEL">>)
      BY <1>3, <2>2 DEF Terminate, Asking
    <3> QED
      BY <2>1, <3>1, EndKeeps, Sends DEF MediaFollowsCall, Kind
  <2>3. CASE ~(session.state = "established" \/ Asking)
    <3>1. toPeer' = toPeer
      BY <1>3, <2>3 DEF Terminate, Asking, SendNothing
    <3> QED
      BY <2>1, <2>3, <3>1, EndKeeps DEF MediaFollowsCall, Asking
  <2> QED
    BY <2>2, <2>3
<1> QED
  BY <1>1, <1>2, <1>3

\* What an INVITE does: the call that gives way is cancelled.
LEMMA InviteKeeps ==
  ASSUME SipInv, NEW m \in Message, OnInvite(m)
  PROVE  SessionOK' /\ MediaFollowsCall' /\ toPeer' \in Seq(Message) /\ Warned(m)
<1> USE DEF SipInv, QueuesOK
<1> DEFINE cancel == IF Asking THEN <<Msg("CANCEL", session.call)>> ELSE <<>>
<1>1. /\ Msg("200", m.call) \in Message /\ Msg("failure", m.call) \in Message
      /\ m.call \in Calls
  BY DEF Msg, Message, Kind
<1>2. CASE /\ \/ toPeer' = Append(toPeer, Msg("200", m.call))
              \/ toPeer' = Append(toPeer, Msg("failure", m.call))
           /\ UNCHANGED <<session, media>>
  <2>1. toPeer' \in Seq(Message)
    BY <1>1, <1>2, AppendProperties
  <2>2. SessionOK' /\ MediaFollowsCall' /\ Warned(m)
    BY <1>2 DEF Warned, SessionOK, MediaFollowsCall
  <2> QED
    BY <2>1, <2>2
<1>3. ASSUME NEW answer \in Message, session.state = "idle" \/ Asking,
             toPeer' = Append(toPeer \o cancel, answer)
      PROVE  toPeer' \in Seq(Message) /\ (media # NoCall => PeerIsTold)
  <2>1. CASE ~Asking
    <3>1. cancel = <<>> /\ media = NoCall
      BY <1>3, <2>1 DEF MediaFollowsCall
    <3>2. toPeer \o cancel = toPeer
      BY <3>1, ConcatEmptySeq
    <3> QED
      BY <1>3, <3>1, <3>2, AppendProperties
  <2>2. CASE Asking
    <3> DEFINE c == Msg("CANCEL", session.call)
    <3>1. /\ cancel = <<c>> /\ c \in Message
          /\ c.call = session.call /\ c.kind = "CANCEL"
      BY <2>2 DEF Asking, Msg, Message, Kind, SessionOK
    <3> HIDE DEF c, cancel
    <3>2. <<c>> \in Seq(Message) /\ Len(<<c>>) = 1 /\ <<c>>[1] = c
      BY <3>1
    <3>3. /\ toPeer \o <<c>> \in Seq(Message)
          /\ Len(toPeer \o <<c>>) = Len(toPeer) + 1
          /\ Len(toPeer) \in Nat
          /\ (toPeer \o <<c>>)[Len(toPeer) + 1] = c
      BY <3>2, ConcatProperties, LenProperties
    <3>4. /\ toPeer' \in Seq(Message)
          /\ Len(toPeer') = Len(toPeer) + 2
          /\ toPeer'[Len(toPeer) + 1] = c
      BY <1>3, <3>1, <3>3, AppendProperties
    <3>5. Len(toPeer) + 1 \in Len(toPeer) + 1 .. Len(toPeer')
      BY <3>3, <3>4
    <3> QED
      BY <3>1, <3>4, <3>5 DEF PeerIsTold, MediaFollowsCall
  <2> QED
    BY <2>1, <2>2
<1>4. CASE /\ session.state = "idle" \/ Asking
           /\ session' = [state |-> "incoming", direction |-> "incoming", call |-> m.call]
           /\ media' = NoCall
           /\ toPeer' = Append(toPeer \o cancel, Msg("200", m.call))
  <2>1. SessionOK' /\ MediaFollowsCall'
    BY <1>1, <1>4 DEF SessionOK, MediaFollowsCall, State, Direction
  <2> QED
    BY <1>1, <1>3, <1>4, <2>1 DEF Warned
<1>5. CASE /\ session.state = "idle" \/ Asking
           /\ End
           /\ toPeer' = Append(toPeer \o cancel, Msg("failure", m.call))
  BY <1>1, <1>3, <1>5, EndKeeps DEF Warned
<1> HIDE DEF cancel
<1> QED
  BY <1>2, <1>4, <1>5 DEF OnInvite, cancel

\* What any other message does.
LEMMA MessageKeeps ==
  ASSUME SipInv, NEW m \in Message,
         \/ m.kind = "ACK" /\ OnAck(m)
         \/ m.kind = "BYE" /\ OnBye(m)
         \/ m.kind = "CANCEL" /\ OnCancel(m)
         \/ m.kind \in {"180", "200", "failure"} /\ OnResponse(m)
  PROVE  SessionOK' /\ MediaFollowsCall' /\ toPeer' \in Seq(Message) /\ Warned(m)
<1> USE DEF SipInv, QueuesOK
<1>1. CASE Ignore
  BY <1>1 DEF Ignore, SessionOK, MediaFollowsCall, Warned
<1>2. CASE End /\ SendNothing /\ (session.state = "incoming"
                                  \/ (Mine(m) /\ m.kind \in {"BYE", "failure"}))
  <2>1. media # NoCall => m.call = media /\ m.kind \in {"BYE", "failure"}
    BY <1>2 DEF MediaFollowsCall, Mine
  <2> QED
    BY <1>2, <2>1, EndKeeps DEF Warned, SendNothing
<1>3. CASE Mine(m) /\ Establish /\ (SendNothing \/ Send(<<"ACK">>))
  <2>1. SessionOK' /\ MediaFollowsCall' /\ (media # NoCall => media' = media)
    BY <1>3, EstablishKeeps DEF Mine
  <2>2. toPeer' \in Seq(Message)
    BY <1>3, Sends DEF Mine, SendNothing, Kind
  <2> QED
    BY <2>1, <2>2 DEF Warned
<1>4. CASE Mine(m) /\ Enter("ringing") /\ UNCHANGED media /\ SendNothing
  BY <1>4 DEF Mine, Enter, SendNothing, SessionOK, MediaFollowsCall, Warned, State
<1>5. CASE m.kind \in {"180", "200", "failure"} /\ OnResponse(m)
  <2>1. CASE Mine(m) /\ session.direction = "outgoing"
    <3>1. CASE m.kind = "200"
      BY <1>3, <1>5, <2>1, <3>1 DEF OnResponse
    <3>2. CASE m.kind = "180"
      BY <1>4, <1>5, <2>1, <3>2 DEF OnResponse
    <3>3. CASE m.kind = "failure"
      BY <1>2, <1>5, <2>1, <3>3 DEF OnResponse
    <3> QED
      BY <1>5, <3>1, <3>2, <3>3
  <2>2. CASE ~(Mine(m) /\ session.direction = "outgoing")
    BY <1>1, <1>5, <2>2 DEF OnResponse
  <2> QED
    BY <2>1, <2>2
<1>6. CASE m.kind = "ACK" /\ OnAck(m)
  BY <1>1, <1>3, <1>6 DEF OnAck
<1>7. CASE m.kind = "BYE" /\ OnBye(m)
  BY <1>1, <1>2, <1>7 DEF OnBye
<1>8. CASE m.kind = "CANCEL" /\ OnCancel(m)
  BY <1>1, <1>2, <1>8 DEF OnCancel
<1> QED
  BY <1>5, <1>6, <1>7, <1>8

LEMMA ReceiveKeeps ==
  ASSUME SipInv, Receive
  PROVE  /\ SipInv'
         /\ media # NoCall /\ media' # media =>
              PeerIsTold \/ \E i \in DOMAIN toDevice :
                              /\ toDevice[i].call = media
                              /\ toDevice[i].kind \in {"BYE", "failure"}
<1>1. PICK i \in DOMAIN toDevice :
        LET m == toDevice[i]
        IN /\ Take(toDevice, i)
           /\ CASE m.kind = "INVITE" -> OnInvite(m)
                [] m.kind = "ACK" -> OnAck(m)
                [] m.kind = "BYE" -> OnBye(m)
                [] m.kind = "CANCEL" -> OnCancel(m)
                [] OTHER -> OnResponse(m)
  BY Zenon DEF Receive
<1> DEFINE m == toDevice[i]
<1>2. toDevice' \in Seq(Message) /\ m \in Message
  BY <1>1, TakenFrom DEF Take, SipInv, QueuesOK
<1>3. SessionOK' /\ MediaFollowsCall' /\ toPeer' \in Seq(Message) /\ Warned(m)
  <2>1. CASE m.kind = "INVITE"
    BY <1>1, <1>2, <2>1, InviteKeeps
  <2>2. CASE m.kind # "INVITE"
    <3>1. \/ m.kind = "ACK" /\ OnAck(m)
          \/ m.kind = "BYE" /\ OnBye(m)
          \/ m.kind = "CANCEL" /\ OnCancel(m)
          \/ m.kind \in {"180", "200", "failure"} /\ OnResponse(m)
      BY <1>1, <1>2, <2>2 DEF Message, Kind
    <3> HIDE DEF m
    <3> QED
      BY <1>2, <3>1, MessageKeeps
  <2> QED
    BY <2>1, <2>2
<1> QED
  BY <1>2, <1>3 DEF SipInv, QueuesOK, Warned

\* The peer and the network: the device is left alone.
LEMMA OthersKeep ==
  ASSUME SipInv, UNCHANGED <<session, media>>, QueuesOK'
  PROVE  SipInv'
BY DEF SipInv, SessionOK, MediaFollowsCall

\* What the peer says comes behind what it has said.
LEMMA PeerSpeaks ==
  ASSUME SipInv, NEW c \in Calls, NEW state, NEW kinds \in Seq(Kind),
         PeerSays(c, state, kinds)
  PROVE  toDevice' \in Seq(Message)
<1> DEFINE new == [i \in DOMAIN kinds |-> Msg(kinds[i], c)]
<1>1. Len(kinds) \in Nat /\ DOMAIN kinds = 1 .. Len(kinds)
      /\ \A i \in 1 .. Len(kinds) : kinds[i] \in Kind
  BY LenProperties, ElementOfSeq
<1>2. \A i \in 1 .. Len(kinds) : Msg(kinds[i], c) \in Message
  BY <1>1 DEF Msg, Message
<1>3. new \in [1 .. Len(kinds) -> Message]
  BY <1>1, <1>2
<1>4. new \in Seq(Message)
  BY <1>1, <1>3, SeqDef
<1>5. toDevice' = toDevice \o new
  BY DEF PeerSays
<1> HIDE DEF new
<1> QED
  BY <1>4, <1>5, ConcatProperties DEF SipInv, QueuesOK

LEMMA PeerKeeps ==
  ASSUME SipInv, PeerActs \/ PeerReceives \/ Lose
  PROVE  SipInv' /\ media' = media
<1> USE DEF SipInv, QueuesOK
<1>1. \A k1, k2 \in Kind : /\ <<>> \in Seq(Kind) /\ <<k1>> \in Seq(Kind)
                           /\ <<k1, k2>> \in Seq(Kind)
  OBVIOUS
<1>2. {"INVITE", "ACK", "BYE", "CANCEL", "180", "200", "failure"} = Kind
  BY DEF Kind
<1>3. CASE PeerActs
  <2>1. PICK c \in Calls :
          \E state \in {"inviting", "cancelling", "answered", "ended"} :
            \E kinds \in {<<"INVITE">>, <<"CANCEL">>, <<"200">>, <<"failure">>, <<"BYE">>, <<>>} :
              PeerSays(c, state, kinds)
    BY <1>3, Zenon DEF PeerActs
  <2>2. UNCHANGED <<session, media, toPeer>>
    BY <1>3 DEF PeerActs, device
  <2>3. toDevice' \in Seq(Message)
    BY <1>1, <1>2, <2>1, PeerSpeaks
  <2> QED
    BY <2>2, <2>3, OthersKeep
<1>4. CASE PeerReceives
  <2>1. PICK i \in DOMAIN toPeer : Take(toPeer, i) /\ PeerHandles(toPeer[i])
    BY <1>4, Zenon DEF PeerReceives
  <2>2. UNCHANGED <<session, media>>
    BY <1>4 DEF PeerReceives, device
  <2>3. toPeer' \in Seq(Message) /\ toPeer[i] \in Message
    BY <2>1, TakenFrom DEF Take
  <2>4. toPeer[i].call \in Calls
    BY <2>3 DEF Message
  <2>5. \/ toDevice' = toDevice
        \/ \E state \in {"ringing", "confirmed", "ended"} :
             \E kinds \in {<<"180">>, <<>>, <<"failure">>, <<"ACK">>, <<"ACK", "BYE">>} :
               PeerSays(toPeer[i].call, state, kinds)
    BY <2>1, Zenon DEF PeerHandles
  <2>6. toDevice' \in Seq(Message)
    BY <1>1, <1>2, <2>4, <2>5, PeerSpeaks
  <2> QED
    BY <2>2, <2>3, <2>6, OthersKeep
<1>5. CASE Lose
  <2>1. UNCHANGED <<session, media>>
    BY <1>5 DEF Lose, device
  <2>2. QueuesOK'
    BY <1>5, HeadTailProperties DEF Lose
  <2> QED
    BY <2>1, <2>2, OthersKeep
<1> QED
  BY <1>3, <1>4, <1>5

-----------------------------------------------------------------------------

LEMMA SipInit == Init => SipInv
BY EmptySeq DEF Init, SipInv, SessionOK, QueuesOK, MediaFollowsCall, Idle, State, Direction

LEMMA SipStep == SipInv /\ [Next]_vars => SipInv'
<1> SUFFICES ASSUME SipInv, Next \/ UNCHANGED vars PROVE SipInv'
  OBVIOUS
<1>1. CASE CheckTimeout \/ Terminate \/ \E c \in Outgoing : MakeCall(c)
  BY <1>1, DeviceKeeps
<1>2. CASE Receive
  BY <1>2, ReceiveKeeps
<1>3. CASE PeerActs \/ PeerReceives \/ Lose
  BY <1>3, PeerKeeps
<1>4. CASE UNCHANGED vars
  BY <1>4, OthersKeep DEF vars, device, SipInv, QueuesOK
<1> QED
  BY <1>1, <1>2, <1>3, <1>4 DEF Next

\* SipInv is inductive: where the media are needs to know of the session what
\* states it takes, and of the messages that each is of some call.
THEOREM SipKept == Spec => []SipInv
BY SipInit, SipStep, PTL DEF Spec

\* RTP is attached to the call of the session and to no other
\* (MediaFollowsCall), for any number of calls and over any network.
THEOREM MediaFollow == Spec => []MediaFollowsCall
<1>1. SipInv => MediaFollowsCall
  BY DEF SipInv
<1> QED
  BY <1>1, SipKept, PTL

\* A call with media never ends without a word (MediaEndsKnowingly): what the
\* device sends upon the end names the call, because the session still does.
THEOREM MediaEndKnown == Spec => MediaEndsKnowingly
<1> DEFINE Known ==
      media # NoCall /\ media' # media =>
        \/ \E i \in DOMAIN toDevice :
             toDevice[i].call = media /\ toDevice[i].kind \in {"BYE", "failure"}
        \/ \E i \in Len(toPeer) + 1 .. Len(toPeer') :
             toPeer'[i].call = media /\ toPeer'[i].kind \in {"BYE", "CANCEL"}
<1>1. SipInv /\ [Next]_vars => [Known]_vars
  <2> SUFFICES ASSUME SipInv, Next PROVE Known
    OBVIOUS
  <2>1. CASE CheckTimeout \/ Terminate \/ \E c \in Outgoing : MakeCall(c)
    BY <2>1, DeviceKeeps DEF PeerIsTold
  <2>2. CASE Receive
    BY <2>2, ReceiveKeeps DEF PeerIsTold
  <2>3. CASE PeerActs \/ PeerReceives \/ Lose
    BY <2>3, PeerKeeps
  <2> QED
    BY <2>1, <2>2, <2>3 DEF Next
<1> QED
  BY <1>1, SipKept, PTL DEF Spec, MediaEndsKnowingly

-----------------------------------------------------------------------------
(* The timeout spares an answered call, as long as messages keep their order. *)

Directed ==
  /\ session.direction = "incoming" => session.state \in {"incoming", "established"}
  /\ session.state = "incoming" => session.direction = "incoming"

\* A peer that has not heard of a call has not answered it.
NotHeard ==
  \A c \in Calls : peer[c] = "none" =>
    /\ \A i \in DOMAIN toDevice : toDevice[i].call = c => toDevice[i].kind \notin {"180", "200"}
    /\ ~(media = c /\ session.direction = "outgoing")

\* Nothing rings after it was answered.
AnswerLast ==
  /\ \A i, j \in DOMAIN toDevice :
       i < j /\ toDevice[i].kind = "200" /\ toDevice[j].kind = "180"
         => toDevice[i].call # toDevice[j].call
  /\ \A i \in DOMAIN toDevice :
       toDevice[i].kind = "180" /\ toDevice[i].call = media => session.direction # "outgoing"
  /\ session.state = "ringing" => media = NoCall

Heard == {"inviting", "cancelling", "ringing", "answered", "confirmed", "ended"}

InOrder ==
  /\ peer \in [Calls -> Heard \cup {"none"}]
  /\ Directed /\ NotHeard /\ (~network.reorder => AnswerLast)

\* What the device makes of a message at i.
Understood(m) ==
  \/ UNCHANGED <<session, media>>
  \/ media' = NoCall /\ session' = Idle
  \/ /\ media' = NoCall /\ session'.state = "incoming" /\ session'.direction = "incoming"
  \/ session.state = "incoming" /\ Establish
  \/ Mine(m) /\ session.direction = "outgoing" /\ m.kind = "200" /\ Establish
  \/ /\ Mine(m) /\ session.direction = "outgoing" /\ m.kind = "180"
     /\ Enter("ringing") /\ UNCHANGED media

LEMMA Understands ==
  ASSUME NEW m \in Message,
         CASE m.kind = "INVITE" -> OnInvite(m)
           [] m.kind = "ACK" -> OnAck(m)
           [] m.kind = "BYE" -> OnBye(m)
           [] m.kind = "CANCEL" -> OnCancel(m)
           [] OTHER -> OnResponse(m)
  PROVE  Understood(m)
<1>1. CASE m.kind = "INVITE"
  <2>1. OnInvite(m)
    BY <1>1
  <2> QED
    BY <2>1 DEF OnInvite, Understood, End
<1>2. CASE m.kind = "ACK" /\ OnAck(m)
  BY <1>2 DEF OnAck, Understood, Ignore
<1>3. CASE m.kind = "BYE" /\ OnBye(m)
  BY <1>3 DEF OnBye, Understood, Ignore, End
<1>4. CASE m.kind = "CANCEL" /\ OnCancel(m)
  BY <1>4 DEF OnCancel, Understood, Ignore, End
<1>5. CASE m.kind \in {"180", "200", "failure"} /\ OnResponse(m)
  BY <1>5 DEF OnResponse, Understood, Ignore, End
<1> QED
  BY <1>1, <1>2, <1>3, <1>4, <1>5 DEF Message, Kind

\* Where the messages that stay in a queue were.
LEMMA StaysBehind ==
  ASSUME NEW queue \in Seq(Message), NEW i \in DOMAIN queue,
         NEW rest, rest = RemoveAt(queue, i) \/ rest = queue
  PROVE  \E at \in [DOMAIN rest -> DOMAIN queue] :
           /\ \A k \in DOMAIN rest : rest[k] = queue[at[k]]
           /\ \A k, n \in DOMAIN rest : k < n => at[k] < at[n]
<1>1. Len(queue) \in Nat /\ DOMAIN queue = 1 .. Len(queue) /\ i \in 1 .. Len(queue)
      /\ \A n \in 1 .. Len(queue) : queue[n] \in Message
  BY LenProperties, ElementOfSeq
<1>2. CASE rest = queue
  <2> DEFINE at == [k \in DOMAIN rest |-> k]
  <2>1. /\ at \in [DOMAIN rest -> DOMAIN queue]
        /\ \A k \in DOMAIN rest : rest[k] = queue[at[k]]
        /\ \A k, n \in DOMAIN rest : k < n => at[k] < at[n]
    BY <1>2
  <2> QED
    BY <2>1
<1>3. CASE rest = RemoveAt(queue, i)
  <2> DEFINE front == SubSeq(queue, 1, i - 1)
             back == SubSeq(queue, i + 1, Len(queue))
             at == [k \in DOMAIN rest |-> IF k < i THEN k ELSE k + 1]
  <2>1. /\ front \in Seq(Message) /\ Len(front) = i - 1
        /\ \A k \in 1 .. i - 1 : front[k] = queue[k]
    <3>1. /\ front \in Seq(Message)
          /\ Len(front) = IF 1 <= i - 1 THEN (i - 1) - 1 + 1 ELSE 0
          /\ \A k \in 1 .. (i - 1) - 1 + 1 : front[k] = queue[1 + k - 1]
      BY <1>1, SubSeqProperties
    <3> QED
      BY <1>1, <3>1
  <2>2. /\ back \in Seq(Message) /\ Len(back) = Len(queue) - i
        /\ \A k \in 1 .. Len(queue) - i : back[k] = queue[i + k]
    <3>1. /\ back \in Seq(Message)
          /\ Len(back) = IF i + 1 <= Len(queue) THEN Len(queue) - (i + 1) + 1 ELSE 0
          /\ \A k \in 1 .. Len(queue) - (i + 1) + 1 : back[k] = queue[(i + 1) + k - 1]
      BY <1>1, SubSeqProperties
    <3> QED
      BY <1>1, <3>1
  <2> HIDE DEF front, back
  <2>3. rest = front \o back
    BY <1>3 DEF RemoveAt, front, back
  <2>4. /\ rest \in Seq(Message) /\ Len(rest) = (i - 1) + (Len(queue) - i)
        /\ \A k \in 1 .. (i - 1) + (Len(queue) - i) :
             rest[k] = IF k <= i - 1 THEN front[k] ELSE back[k - (i - 1)]
    <3>1. /\ rest \in Seq(Message) /\ Len(rest) = Len(front) + Len(back)
          /\ \A k \in 1 .. Len(front) + Len(back) :
               rest[k] = IF k <= Len(front) THEN front[k] ELSE back[k - Len(front)]
      <4>1. front \in Seq(Message) /\ back \in Seq(Message)
        BY <2>1, <2>2
      <4> QED
        BY <4>1, <2>3, ConcatProperties
    <3> QED
      BY <2>1, <2>2, <3>1
  <2>5. DOMAIN rest = 1 .. (Len(queue) - 1)
    BY <1>1, <2>4, LenProperties
  <2>6. ASSUME NEW k \in DOMAIN rest PROVE rest[k] = queue[at[k]]
    <3>1. CASE k < i
      BY <1>1, <2>1, <2>4, <2>5, <3>1
    <3>2. CASE ~(k < i)
      <4>1. rest[k] = back[k - (i - 1)] /\ k - (i - 1) \in 1 .. Len(queue) - i
        BY <1>1, <2>4, <2>5, <3>2
      <4>2. back[k - (i - 1)] = queue[i + (k - (i - 1))]
        BY <2>2, <4>1
      <4>3. i + (k - (i - 1)) = k + 1
        BY <1>1, <2>5
      <4> QED
        BY <3>2, <4>1, <4>2, <4>3
    <3> QED
      BY <3>1, <3>2
  <2>7. /\ at \in [DOMAIN rest -> DOMAIN queue]
        /\ \A k, n \in DOMAIN rest : k < n => at[k] < at[n]
    BY <1>1, <2>5
  <2> HIDE DEF at
  <2> QED
    BY <2>6, <2>7
<1> QED
  BY <1>2, <1>3

LEMMA OfSomeCall ==
  ASSUME NEW queue \in Seq(Message)
  PROVE  \A n \in DOMAIN queue : queue[n] \in Message /\ queue[n].call \in Calls
<1>1. \A n \in DOMAIN queue : queue[n] \in Message
  BY LenProperties, ElementOfSeq
<1> QED
  BY <1>1 DEF Message

LEMMA OwnStepsOrdered ==
  ASSUME SipInv, InOrder, CheckTimeout \/ Terminate \/ \E c \in Outgoing : MakeCall(c)
  PROVE  InOrder'
<1>1. \A c \in Calls : c # NoCall
  BY CallsAssumption DEF Calls
<1>2. \A i \in DOMAIN toDevice : toDevice[i].call \in Calls
  BY OfSomeCall DEF SipInv, QueuesOK
<1>3. /\ UNCHANGED <<toDevice, peer, network>>
      /\ media' = NoCall /\ session'.state \in {"idle", "calling"}
      /\ session'.direction # "incoming"
  <2>1. CASE CheckTimeout \/ Terminate
    BY <2>1 DEF CheckTimeout, Terminate, End, Idle
  <2>2. CASE \E c \in Outgoing : MakeCall(c)
    BY <2>2 DEF MakeCall, SipInv, MediaFollowsCall
  <2> QED
    BY <2>1, <2>2
<1>4. Directed' /\ NotHeard'
  BY <1>1, <1>3 DEF InOrder, Directed, NotHeard
<1>5. ~network.reorder => AnswerLast'
  BY <1>1, <1>2, <1>3 DEF InOrder, AnswerLast
<1> QED
  BY <1>3, <1>4, <1>5 DEF InOrder

LEMMA ReceiveOrdered ==
  ASSUME SipInv, InOrder, Receive PROVE InOrder'
<1>1. PICK i \in DOMAIN toDevice :
        LET m == toDevice[i]
        IN /\ Take(toDevice, i)
           /\ CASE m.kind = "INVITE" -> OnInvite(m)
                [] m.kind = "ACK" -> OnAck(m)
                [] m.kind = "BYE" -> OnBye(m)
                [] m.kind = "CANCEL" -> OnCancel(m)
                [] OTHER -> OnResponse(m)
  BY Zenon DEF Receive
<1> DEFINE m == toDevice[i]
<1>2. m \in Message /\ m.call \in Calls /\ toDevice \in Seq(Message)
      /\ DOMAIN toDevice = 1 .. Len(toDevice) /\ Len(toDevice) \in Nat
  BY TakenFrom, LenProperties DEF SipInv, QueuesOK, Message
<1>3. Understood(m)
  BY <1>1, <1>2, Understands
<1>4. UNCHANGED <<peer, network>>
  BY DEF Receive
<1>5. (~network.reorder => i = 1)
      /\ (toDevice' = RemoveAt(toDevice, i) \/ toDevice' = toDevice)
  BY <1>1 DEF Take
<1> HIDE DEF m
<1>6. PICK from \in [DOMAIN toDevice' -> DOMAIN toDevice] :
        /\ \A k \in DOMAIN toDevice' : toDevice'[k] = toDevice[from[k]]
        /\ \A k, n \in DOMAIN toDevice' : k < n => from[k] < from[n]
  BY <1>2, <1>5, StaysBehind
<1>7. \A k \in DOMAIN toDevice' : from[k] \in 1 .. Len(toDevice)
  BY <1>2, <1>6
<1>8. \A c \in Calls : c # NoCall
  BY CallsAssumption DEF Calls
<1>9. \A n \in DOMAIN toDevice : toDevice[n].call \in Calls
  BY <1>2, OfSomeCall
<1>10. session \in [state : State, direction : Direction, call : Calls \cup {NoCall}]
  BY DEF SipInv, SessionOK
<1>11. Directed'
  BY <1>3, <1>10 DEF Understood, InOrder, Directed, Idle, Establish, Enter, Mine
<1>12. m.kind = "200" => peer[m.call] # "none"
  BY <1>2 DEF InOrder, NotHeard, m
<1>13. NotHeard'
  <2> SUFFICES ASSUME NEW c \in Calls, peer[c] = "none"
               PROVE  /\ \A k \in DOMAIN toDevice' : toDevice'[k].call = c
                            => toDevice'[k].kind \notin {"180", "200"}
                      /\ ~(media' = c /\ session'.direction = "outgoing")
    BY <1>4 DEF NotHeard
  <2>1. \A k \in DOMAIN toDevice' : toDevice'[k].call = c
                            => toDevice'[k].kind \notin {"180", "200"}
    BY <1>6 DEF InOrder, NotHeard
  <2>2. ~(media' = c /\ session'.direction = "outgoing")
    <3>1. ~(media = c /\ session.direction = "outgoing")
      BY DEF InOrder, NotHeard
    <3> QED
      BY <1>3, <1>8, <1>10, <1>12, <3>1
      DEF Understood, InOrder, Directed, Idle, Establish, Enter, Mine
  <2> QED
    BY <2>1, <2>2
<1>14. ASSUME ~network.reorder PROVE AnswerLast'
  <2>1. AnswerLast /\ i = 1
    BY <1>5, <1>14 DEF InOrder
  <2>2. \A k, n \in DOMAIN toDevice' :
          k < n /\ toDevice'[k].kind = "200" /\ toDevice'[n].kind = "180"
            => toDevice'[k].call # toDevice'[n].call
    BY <1>6, <2>1 DEF AnswerLast
  <2>3. \A k \in DOMAIN toDevice' :
          toDevice'[k].kind = "180" /\ toDevice'[k].call = media'
            => session'.direction # "outgoing"
    <3> SUFFICES ASSUME NEW n \in DOMAIN toDevice, toDevice[n].kind = "180",
                        toDevice[n].call = media'
                 PROVE  session'.direction # "outgoing"
      BY <1>6
    <3>1. toDevice[n].call = media => session.direction # "outgoing"
      BY <2>1 DEF AnswerLast
    <3>2. CASE Mine(m) /\ session.direction = "outgoing" /\ m.kind = "200" /\ Establish
      <4>1. m.call = toDevice[n].call
        BY <3>2 DEF Mine, Establish
      <4>2. n # 1 /\ 1 < n
        BY <1>2, <2>1, <3>2 DEF m
      <4> QED
        BY <1>2, <2>1, <3>2, <4>1, <4>2 DEF AnswerLast, m
    <3>3. CASE UNCHANGED <<session, media>>
      BY <3>1, <3>3
    <3>4. CASE media' = NoCall
      BY <1>8, <1>9, <3>4
    <3>5. CASE session.state = "incoming" /\ Establish
      BY <1>10, <3>5 DEF Establish, Enter, InOrder, Directed
    <3>6. CASE Enter("ringing") /\ UNCHANGED media
      BY <1>10, <3>1, <3>6 DEF Enter
    <3> QED
      BY <1>3, <3>2, <3>3, <3>4, <3>5, <3>6 DEF Understood
  <2>4. session'.state = "ringing" => media' = NoCall
    <3>1. CASE Mine(m) /\ session.direction = "outgoing" /\ m.kind = "180" /\ UNCHANGED media
      <4>1. media # NoCall => media = m.call
        BY <3>1 DEF SipInv, MediaFollowsCall, Mine
      <4> QED
        BY <1>2, <2>1, <3>1, <4>1 DEF AnswerLast, m
    <3>2. CASE UNCHANGED <<session, media>>
      BY <2>1, <3>2 DEF AnswerLast
    <3>3. CASE media' = NoCall
      BY <3>3
    <3>4. CASE Establish
      BY <1>10, <3>4 DEF Establish, Enter
    <3> QED
      BY <1>3, <3>1, <3>2, <3>3, <3>4 DEF Understood
  <2> QED
    BY <2>2, <2>3, <2>4 DEF AnswerLast
<1> QED
  BY <1>4, <1>11, <1>13, <1>14 DEF InOrder

\* The peer answers a call once it rings, and rings once it hears of the call.
LEMMA PeerOrdered ==
  ASSUME SipInv, InOrder, UNCHANGED <<session, media, network>>,
         NEW c \in Calls, NEW state \in Heard, NEW kinds \in Seq(Kind),
         PeerSays(c, state, kinds),
         \/ \A k \in DOMAIN kinds : kinds[k] \notin {"180", "200"}
         \/ kinds = <<"180">> /\ peer[c] = "none"
         \/ kinds = <<"200">> /\ peer[c] # "none"
  PROVE  InOrder'
<1> DEFINE new == [i \in DOMAIN kinds |-> Msg(kinds[i], c)]
<1>1. Len(kinds) \in Nat /\ DOMAIN kinds = 1 .. Len(kinds)
      /\ \A i \in 1 .. Len(kinds) : kinds[i] \in Kind
  BY LenProperties, ElementOfSeq
<1>2. \A i \in 1 .. Len(kinds) : Msg(kinds[i], c) \in Message
  BY <1>1 DEF Msg, Message
<1>3. new \in [1 .. Len(kinds) -> Message]
  BY <1>1, <1>2
<1>4. new \in Seq(Message) /\ Len(new) = Len(kinds)
      /\ \A i \in 1 .. Len(kinds) : new[i].kind = kinds[i] /\ new[i].call = c
  BY <1>1, <1>3, SeqDef DEF Msg
<1>5. toDevice' = toDevice \o new
  BY DEF PeerSays
<1> HIDE DEF new
<1>6. /\ toDevice \in Seq(Message) /\ Len(toDevice) \in Nat
      /\ DOMAIN toDevice = 1 .. Len(toDevice)
  BY LenProperties DEF SipInv, QueuesOK
<1>7. /\ toDevice' \in Seq(Message) /\ Len(toDevice') = Len(toDevice) + Len(kinds)
      /\ \A i \in 1 .. Len(toDevice) + Len(kinds) :
           toDevice'[i] = IF i <= Len(toDevice) THEN toDevice[i] ELSE new[i - Len(toDevice)]
  <2>1. toDevice \o new \in Seq(Message) /\ Len(toDevice \o new) = Len(toDevice) + Len(new)
        /\ \A i \in 1 .. Len(toDevice) + Len(new) :
             (toDevice \o new)[i] = IF i <= Len(toDevice) THEN toDevice[i]
                                   ELSE new[i - Len(toDevice)]
    <3>1. toDevice \in Seq(Message) /\ new \in Seq(Message)
      BY <1>4, <1>6
    <3> QED
      BY <3>1, ConcatProperties
  <2> QED
    BY <1>4, <1>5, <2>1
<1>8. DOMAIN toDevice' = 1 .. Len(toDevice) + Len(kinds)
  BY <1>7, LenProperties
<1>9. \A i \in DOMAIN toDevice' :
        \/ i \in DOMAIN toDevice /\ toDevice'[i] = toDevice[i]
        \/ /\ i > Len(toDevice) /\ i - Len(toDevice) \in DOMAIN kinds
           /\ toDevice'[i].call = c /\ toDevice'[i].kind = kinds[i - Len(toDevice)]
  <2> SUFFICES ASSUME NEW i \in DOMAIN toDevice', i \notin DOMAIN toDevice
               PROVE  /\ i > Len(toDevice) /\ i - Len(toDevice) \in DOMAIN kinds
                      /\ toDevice'[i].call = c /\ toDevice'[i].kind = kinds[i - Len(toDevice)]
    BY <1>6, <1>7, <1>8
  <2>1. i > Len(toDevice) /\ i - Len(toDevice) \in 1 .. Len(kinds)
    BY <1>1, <1>6, <1>8
  <2>2. toDevice'[i] = new[i - Len(toDevice)]
    BY <1>6, <1>7, <1>8, <2>1
  <2> QED
    BY <1>1, <1>4, <2>1, <2>2
<1>10. peer' = [peer EXCEPT ![c] = state] /\ peer \in [Calls -> Heard \cup {"none"}]
  BY DEF PeerSays, InOrder
<1>11. NotHeard'
  <2> SUFFICES ASSUME NEW d \in Calls, peer'[d] = "none"
               PROVE  /\ \A i \in DOMAIN toDevice' : toDevice'[i].call = d
                            => toDevice'[i].kind \notin {"180", "200"}
                      /\ ~(media = d /\ session.direction = "outgoing")
    BY DEF NotHeard
  <2>1. d # c /\ peer[d] = "none"
    BY <1>10 DEF Heard
  <2> QED
    BY <1>9, <2>1 DEF InOrder, NotHeard
<1>12. ASSUME ~network.reorder PROVE AnswerLast'
  <2>1. AnswerLast
    BY <1>12 DEF InOrder
  <2>2. ASSUME NEW i \in DOMAIN toDevice', toDevice'[i].kind = "180", i \notin DOMAIN toDevice
        PROVE  kinds = <<"180">> /\ peer[c] = "none" /\ toDevice'[i].call = c
               /\ i = Len(toDevice) + 1
    <3>1. i > Len(toDevice) /\ i - Len(toDevice) \in DOMAIN kinds
          /\ toDevice'[i].call = c /\ kinds[i - Len(toDevice)] = "180"
      BY <1>9, <2>2
    <3>2. kinds = <<"180">> /\ peer[c] = "none"
      BY <3>1
    <3> QED
      BY <1>6, <1>8, <3>1, <3>2
  <2>3. ASSUME NEW i \in DOMAIN toDevice', NEW j \in DOMAIN toDevice', i < j,
               toDevice'[i].kind = "200", toDevice'[j].kind = "180"
        PROVE  toDevice'[i].call # toDevice'[j].call
    <3>1. CASE j \in DOMAIN toDevice
      <4>1. i \in DOMAIN toDevice
        BY <1>6, <1>8, <2>3, <3>1
      <4>2. toDevice'[i] = toDevice[i] /\ toDevice'[j] = toDevice[j]
        BY <1>6, <1>9, <3>1, <4>1
      <4> QED
        BY <2>1, <2>3, <3>1, <4>1, <4>2 DEF AnswerLast
    <3>2. CASE j \notin DOMAIN toDevice
      <4>1. j = Len(toDevice) + 1 /\ peer[c] = "none" /\ toDevice'[j].call = c
        BY <2>2, <2>3, <3>2
      <4>2. i \in DOMAIN toDevice
        BY <1>6, <1>8, <2>3, <4>1
      <4>3. toDevice'[i] = toDevice[i]
        BY <1>6, <1>9, <4>2
      <4> QED
        BY <2>3, <4>1, <4>2, <4>3 DEF InOrder, NotHeard
    <3> QED
      BY <3>1, <3>2
  <2>4. ASSUME NEW i \in DOMAIN toDevice', toDevice'[i].kind = "180",
               toDevice'[i].call = media
        PROVE  session.direction # "outgoing"
    <3>1. CASE i \in DOMAIN toDevice
      <4>1. toDevice'[i] = toDevice[i]
        BY <1>6, <1>9, <3>1
      <4> QED
        BY <2>1, <2>4, <3>1, <4>1 DEF AnswerLast
    <3>2. CASE i \notin DOMAIN toDevice
      <4>1. peer[c] = "none" /\ media = c
        BY <2>2, <2>4, <3>2
      <4> QED
        BY <4>1 DEF InOrder, NotHeard
    <3> QED
      BY <3>1, <3>2
  <2> QED
    BY <2>1, <2>3, <2>4 DEF AnswerLast
<1> QED
  BY <1>10, <1>11, <1>12 DEF InOrder, Directed

LEMMA OthersOrdered ==
  ASSUME SipInv, InOrder, PeerActs \/ PeerReceives \/ Lose
  PROVE  InOrder'
<1>1. \A k1, k2 \in Kind : /\ <<>> \in Seq(Kind) /\ <<k1>> \in Seq(Kind)
                           /\ <<k1, k2>> \in Seq(Kind)
  OBVIOUS
<1>2. /\ <<>> \in Seq(Kind) /\ <<"INVITE">> \in Seq(Kind) /\ <<"CANCEL">> \in Seq(Kind)
      /\ <<"200">> \in Seq(Kind) /\ <<"failure">> \in Seq(Kind) /\ <<"BYE">> \in Seq(Kind)
      /\ <<"180">> \in Seq(Kind) /\ <<"ACK">> \in Seq(Kind) /\ <<"ACK", "BYE">> \in Seq(Kind)
  BY <1>1 DEF Kind
<1> DEFINE silent == {<<"INVITE">>, <<"CANCEL">>, <<"failure">>, <<"BYE">>, <<>>,
                      <<"ACK">>, <<"ACK", "BYE">>}
<1>3. \A kinds \in silent : /\ kinds \in Seq(Kind)
                            /\ \A k \in DOMAIN kinds : kinds[k] \notin {"180", "200"}
  <2> TAKE kinds \in silent
  <2>1. kinds \in Seq(Kind)
    BY <1>2
  <2>2. CASE kinds = <<>>
    BY <2>1, <2>2
  <2>3. CASE kinds = <<"ACK", "BYE">>
    BY <2>1, <2>3
  <2>4. CASE \E kind \in {"INVITE", "CANCEL", "failure", "BYE", "ACK"} : kinds = <<kind>>
    BY <2>1, <2>4
  <2> QED
    BY <2>1, <2>2, <2>3, <2>4
<1> HIDE DEF silent
<1>4. ASSUME UNCHANGED <<session, media, network>>, NEW c \in Calls, NEW state \in Heard,
             \/ \E kinds \in silent : PeerSays(c, state, kinds)
             \/ PeerSays(c, state, <<"180">>) /\ peer[c] = "none"
             \/ PeerSays(c, state, <<"200">>) /\ peer[c] = "ringing"
      PROVE  InOrder'
  BY <1>2, <1>3, <1>4, PeerOrdered
<1>5. CASE PeerActs
  <2>1. PICK c \in Calls : \E state \in Heard :
          \/ \E kinds \in silent : PeerSays(c, state, kinds)
          \/ PeerSays(c, state, <<"200">>) /\ peer[c] = "ringing"
    BY <1>5, Zenon DEF PeerActs, silent, Heard
  <2>2. UNCHANGED <<session, media, network>>
    BY <1>5 DEF PeerActs, device
  <2> QED
    BY <1>4, <2>1, <2>2
<1>6. ASSUME UNCHANGED <<session, media, network, peer>>,
             NEW i \in DOMAIN toDevice,
             toDevice' = RemoveAt(toDevice, i) \/ toDevice' = toDevice
      PROVE  InOrder'
  <2>1. toDevice \in Seq(Message)
    BY DEF SipInv, QueuesOK
  <2>2. PICK from \in [DOMAIN toDevice' -> DOMAIN toDevice] :
          /\ \A k \in DOMAIN toDevice' : toDevice'[k] = toDevice[from[k]]
          /\ \A k, n \in DOMAIN toDevice' : k < n => from[k] < from[n]
    BY <1>6, <2>1, StaysBehind
  <2>3. Directed' /\ NotHeard'
    BY <1>6, <2>2 DEF InOrder, Directed, NotHeard
  <2>4. AnswerLast => AnswerLast'
    BY <1>6, <2>2 DEF AnswerLast
  <2> QED
    BY <1>6, <2>3, <2>4 DEF InOrder
<1>7. ASSUME UNCHANGED <<session, media, network, peer, toDevice>> PROVE InOrder'
  BY <1>7 DEF InOrder, Directed, NotHeard, AnswerLast
<1>8. CASE PeerReceives
  <2>1. PICK i \in DOMAIN toPeer : Take(toPeer, i) /\ PeerHandles(toPeer[i])
    BY <1>8, Zenon DEF PeerReceives
  <2>2. UNCHANGED <<session, media, network>>
    BY <1>8 DEF PeerReceives, device
  <2>3. toPeer[i].call \in Calls
    BY OfSomeCall DEF SipInv, QueuesOK
  <2>4. \/ UNCHANGED <<peer, toDevice>>
        \/ \E state \in Heard :
             \/ \E kinds \in silent : PeerSays(toPeer[i].call, state, kinds)
             \/ PeerSays(toPeer[i].call, state, <<"180">>) /\ peer[toPeer[i].call] = "none"
    BY <2>1, Zenon DEF PeerHandles, silent, Heard
  <2> QED
    BY <1>4, <1>7, <2>2, <2>3, <2>4
<1>9. CASE Lose
  <2>1. UNCHANGED <<session, media, network, peer>>
    BY <1>9 DEF Lose, device
  <2>2. CASE toDevice' = toDevice
    BY <1>7, <2>1, <2>2
  <2>3. CASE toDevice # <<>> /\ toDevice' = Tail(toDevice)
    <3>1. toDevice \in Seq(Message) /\ Len(toDevice) \in Nat /\ Len(toDevice) > 0
          /\ DOMAIN toDevice = 1 .. Len(toDevice)
      BY <2>3, LenProperties, EmptySeq DEF SipInv, QueuesOK
    <3>2. /\ Tail(toDevice) \in Seq(Message)
          /\ Len(Tail(toDevice)) = Len(toDevice) - 1
          /\ \A k \in 1 .. Len(Tail(toDevice)) : Tail(toDevice)[k] = toDevice[k + 1]
      BY <2>3, <3>1, HeadTailProperties
    <3>3. DOMAIN toDevice' = 1 .. Len(toDevice) - 1
          /\ \A k \in DOMAIN toDevice' : toDevice'[k] = toDevice[k + 1] /\ k + 1 \in DOMAIN toDevice
      BY <2>3, <3>1, <3>2, LenProperties
    <3>4. \A k, n \in DOMAIN toDevice' : k < n => k + 1 < n + 1
      BY <3>1, <3>3
    <3>5. Directed' /\ NotHeard'
      BY <2>1, <3>3 DEF InOrder, Directed, NotHeard
    <3>6. AnswerLast => AnswerLast'
      BY <2>1, <3>3, <3>4 DEF AnswerLast
    <3> QED
      BY <2>1, <3>5, <3>6 DEF InOrder
  <2> QED
    BY <1>9, <2>2, <2>3 DEF Lose
<1> QED
  BY <1>5, <1>8, <1>9

\* InOrder is inductive with SipInv: a peer rings a call once, before it
\* answers, and what it says arrives in that order.
THEOREM OrderKept == Spec => []InOrder
<1>1. Init => InOrder
  <2> SUFFICES ASSUME Init PROVE InOrder
    OBVIOUS
  <2>1. /\ session = Idle /\ media = NoCall /\ DOMAIN toDevice = {}
        /\ peer = [c \in Calls |-> "none"]
    BY DEF Init
  <2>2. \A c \in Calls : c # NoCall
    BY CallsAssumption DEF Calls
  <2> QED
    BY <2>1, <2>2 DEF InOrder, Directed, NotHeard, AnswerLast, Idle, Heard
<1>2. SipInv /\ InOrder /\ [Next]_vars => InOrder'
  <2> SUFFICES ASSUME SipInv, InOrder, Next \/ UNCHANGED vars PROVE InOrder'
    OBVIOUS
  <2>1. CASE CheckTimeout \/ Terminate \/ \E c \in Outgoing : MakeCall(c)
    BY <2>1, OwnStepsOrdered
  <2>2. CASE Receive
    BY <2>2, ReceiveOrdered
  <2>3. CASE PeerActs \/ PeerReceives \/ Lose
    BY <2>3, OthersOrdered
  <2>4. CASE UNCHANGED vars
    BY <2>4 DEF vars, device, InOrder, Directed, NotHeard, AnswerLast
  <2> QED
    BY <2>1, <2>2, <2>3, <2>4 DEF Next
<1> QED
  BY <1>1, <1>2, SipKept, PTL DEF Spec

\* As long as messages keep their order the timeout of an attempt does not end
\* a call that has media (TimeoutSparesAnswered), also when some are lost or
\* repeated.
THEOREM TimeoutSpares == Spec => TimeoutSparesAnswered
<1>1. SipInv /\ InOrder /\ [Next]_vars
        => [~network.reorder /\ CheckTimeout => media = NoCall]_vars
  <2> SUFFICES ASSUME SipInv, InOrder, ~network.reorder, CheckTimeout PROVE media = NoCall
    OBVIOUS
  <2>1. session.state \in {"calling", "ringing"}
    BY DEF CheckTimeout, Asking
  <2> QED
    BY <2>1 DEF SipInv, MediaFollowsCall, InOrder, AnswerLast
<1> QED
  BY <1>1, SipKept, OrderKept, PTL DEF Spec, TimeoutSparesAnswered

\* No call with media ends without cause, for any number of calls.
THEOREM EndsForCause == Spec => CallsEndForCause
BY MediaEndKnown, TimeoutSpares DEF CallsEndForCause
-----------------------------------------------------------------------------
(* Both ends.  Over a reliable network a call can be followed by itself:   *)
(* what the daemon takes it to be (View), what its peer does, and which    *)
(* messages of it are under way in either direction.                       *)

View(c) == IF session.state # "idle" /\ session.call = c THEN session.state ELSE "gone"

\* The kinds of messages of call c under way in a queue.
Said(q, c) == {q[n].kind : n \in {k \in DOMAIN q : q[k].call = c}}

\* A call the daemon made: not made yet, seen by it, seen by its peer, what is
\* under way to the daemon and to the peer.
OutSound(unmade, v, p, D, P) ==
  /\ v \in {"gone", "calling", "ringing", "established"}
  /\ p \in {"none", "ringing", "answered", "confirmed", "ended"}
  /\ D \subseteq {"180", "200", "failure", "BYE"} /\ P \subseteq {"INVITE", "CANCEL", "ACK", "BYE"}
  /\ unmade => v = "gone" /\ p = "none" /\ D = {} /\ P = {}
  /\ v \in {"calling", "ringing"} => P \subseteq {"INVITE"} /\ ("200" \in D => p = "answered")
  /\ v = "established" =>
       /\ "BYE" \notin P /\ D \cap {"180", "failure"} = {}
       /\ \/ p = "confirmed"
          \/ p = "answered" /\ "ACK" \in P
          \/ p = "ended" /\ "BYE" \in D
  /\ p = "confirmed" => v = "established" \/ "BYE" \in P
  /\ "ACK" \in P /\ p # "ended" => v = "established" \/ "BYE" \in P
  /\ "BYE" \in D => p = "ended"
  /\ "200" \in D \/ "BYE" \in P => p \in {"answered", "confirmed", "ended"}

\* A call the daemon gets.
InSound(v, p, D, P) ==
  /\ v \in {"gone", "incoming", "established"}
  /\ p \in {"none", "inviting", "cancelling", "confirmed", "ended"}
  /\ D \subseteq {"INVITE", "CANCEL", "ACK", "BYE"} /\ P \subseteq {"200", "failure", "BYE"}
  /\ p = "none" => v = "gone" /\ D = {} /\ P = {}
  /\ "INVITE" \in D => v = "gone" /\ P = {} /\ p \in {"inviting", "cancelling"}
  /\ "CANCEL" \in D => p \in {"cancelling", "ended"}
  /\ "ACK" \in D \/ "BYE" \in P => p \in {"confirmed", "ended"}
  /\ "BYE" \in D => p = "ended"
  /\ v = "incoming" =>
       /\ P \cap {"failure", "BYE"} = {}
       /\ \/ p \in {"inviting", "cancelling"} /\ "200" \in P
          \/ p = "confirmed" /\ "ACK" \in D
          \/ p = "ended" /\ "BYE" \in D
  /\ v = "established" => "BYE" \notin P /\ (p = "confirmed" \/ (p = "ended" /\ "BYE" \in D))
  /\ p = "inviting" /\ "200" \in P => v = "incoming"
  /\ p = "confirmed" => v = "established" \/ (v = "incoming" /\ "ACK" \in D) \/ "BYE" \in P

Sound(c) ==
  IF c \in Outgoing
  THEN OutSound(c \in fresh, View(c), peer[c], Said(toDevice, c), Said(toPeer, c))
  ELSE InSound(View(c), peer[c], Said(toDevice, c), Said(toPeer, c))

\* An answer comes after what precedes it, and there is one INVITE of a call.
Disorder(m, k) ==
  \/ m.kind = "200" /\ k.kind \in {"180", "failure"}
  \/ m.kind = "INVITE" /\ k.kind = "INVITE"
Ordered(q) ==
  \A i, j \in DOMAIN q : i < j /\ q[i].call = q[j].call => ~Disorder(q[i], q[j])

\* What the direction says, who calls and who gives up.
Limited ==
  /\ session.state # "idle" => (session.direction = "outgoing" <=> session.call \in Outgoing)
  /\ fresh \subseteq Outgoing /\ network.incoming \subseteq Incoming /\ DOMAIN peer = Calls
  /\ \A c \in Incoming : peer[c] # "none" => c \in network.incoming
  /\ \A c \in Incoming : "CANCEL" \in Said(toDevice, c) => network.cancels

AgreeInv ==
  /\ SipInv /\ dups \in Nat
  /\ Reliable => Limited /\ Ordered(toDevice) /\ \A c \in Calls : Sound(c)


-----------------------------------------------------------------------------
\* A call followed by itself: the daemon's steps.

LEMMA OutMade ==
  OutSound(TRUE, "gone", "none", {}, {}) => OutSound(FALSE, "calling", "none", {}, {"INVITE"})
BY DEF OutSound

\* The daemon gives up what it asked for, or hangs up.
LEMMA OutLeft ==
  ASSUME NEW b, NEW v, NEW p, NEW D, NEW P, OutSound(b, v, p, D, P)
  PROVE  /\ v \in {"calling", "ringing"} => OutSound(b, "gone", p, D, P \cup {"CANCEL"})
         /\ v = "established" => OutSound(b, "gone", p, D, P \cup {"BYE"})
BY DEF OutSound

LEMMA InLeft ==
  ASSUME NEW v, NEW p, NEW D, NEW P, InSound(v, p, D, P), v = "established"
  PROVE  InSound("gone", p, D, P \cup {"BYE"})
BY DEF InSound

\* A message reaches the daemon.
LEMMA OutHeard ==
  ASSUME NEW b, NEW v, NEW p, NEW P, NEW rest, NEW k,
         OutSound(b, v, p, rest \cup {k}, P)
  PROVE  /\ k = "180" /\ v # "gone" => OutSound(b, "ringing", p, rest, P)
         /\ k = "200" /\ v # "gone" /\ rest \cap {"180", "failure"} = {} =>
              OutSound(b, "established", p, rest, P \cup {"ACK"})
         /\ k \in {"failure", "BYE"} => OutSound(b, "gone", p, rest, P)
         /\ v = "gone" => OutSound(b, "gone", p, rest, P)
         /\ k \in {"180", "200", "failure", "BYE"}
<1> DEFINE D == rest \cup {k}
<1>1. k \in D /\ rest \subseteq D /\ D \subseteq rest \cup {k}
  OBVIOUS
<1>0. OutSound(b, v, p, D, P)
  OBVIOUS
<1> HIDE DEF D
<1>2. k \in {"180", "200", "failure", "BYE"}
  BY <1>0, <1>1 DEF OutSound
<1>3. k = "180" /\ v # "gone" => OutSound(b, "ringing", p, rest, P)
  BY <1>0, <1>1 DEF OutSound
<1>4. k = "200" /\ v # "gone" /\ rest \cap {"180", "failure"} = {} =>
        OutSound(b, "established", p, rest, P \cup {"ACK"})
  BY <1>0, <1>1 DEF OutSound
<1>5. k \in {"failure", "BYE"} => OutSound(b, "gone", p, rest, P)
  BY <1>0, <1>1 DEF OutSound
<1>6. v = "gone" => OutSound(b, "gone", p, rest, P)
  BY <1>0, <1>1 DEF OutSound
<1> QED
  BY <1>2, <1>3, <1>4, <1>5, <1>6

LEMMA InHeard ==
  ASSUME NEW v, NEW p, NEW P, NEW rest, NEW k,
         InSound(v, p, rest \cup {k}, P)
  PROVE  /\ k = "INVITE" /\ "INVITE" \notin rest =>
              /\ v = "gone"
              /\ InSound("incoming", p, rest, P \cup {"200"})
              /\ InSound("gone", p, rest, P \cup {"failure"})
         /\ k = "ACK" /\ v = "incoming" => InSound("established", p, rest, P)
         /\ k = "ACK" /\ v # "incoming" => InSound(v, p, rest, P)
         /\ k = "BYE" => InSound("gone", p, rest, P)
         /\ k = "CANCEL" /\ v = "incoming" => InSound("gone", p, rest, P)
         /\ k = "CANCEL" /\ v # "incoming" => InSound(v, p, rest, P)
         /\ k \in {"INVITE", "CANCEL", "ACK", "BYE"}
<1> DEFINE D == rest \cup {k}
<1>1. k \in D /\ rest \subseteq D /\ D \subseteq rest \cup {k}
  OBVIOUS
<1>0. InSound(v, p, D, P)
  OBVIOUS
<1> HIDE DEF D
<1>2. k \in {"INVITE", "CANCEL", "ACK", "BYE"}
  BY <1>0, <1>1 DEF InSound
<1>3. k = "INVITE" /\ "INVITE" \notin rest =>
        /\ v = "gone"
        /\ InSound("incoming", p, rest, P \cup {"200"})
        /\ InSound("gone", p, rest, P \cup {"failure"})
  BY <1>0, <1>1 DEF InSound
<1>4. k = "ACK" /\ v = "incoming" => InSound("established", p, rest, P)
  BY <1>0, <1>1 DEF InSound
<1>5. k = "ACK" /\ v # "incoming" => InSound(v, p, rest, P)
  BY <1>0, <1>1 DEF InSound
<1>6. k = "BYE" => InSound("gone", p, rest, P)
  BY <1>0, <1>1 DEF InSound
<1>7. k = "CANCEL" /\ v = "incoming" => InSound("gone", p, rest, P)
  BY <1>0, <1>1 DEF InSound
<1>8. k = "CANCEL" /\ v # "incoming" => InSound(v, p, rest, P)
  BY <1>0, <1>1 DEF InSound
<1> QED
  BY <1>2, <1>3, <1>4, <1>5, <1>6, <1>7, <1>8

\* A message reaches the peer, which has a state and answers with messages.
OutAnswer(p, k, q, said) ==
  \/ p = "none" /\ k = "INVITE" /\ q = "ringing" /\ said = {"180"}
  \/ p = "answered" /\ k = "ACK" /\ q = "confirmed" /\ said = {}
  \/ p = "ringing" /\ k = "CANCEL" /\ q = "ended" /\ said = {"failure"}
  \/ p \in {"answered", "confirmed"} /\ k = "BYE" /\ q = "ended" /\ said = {}
  \/ /\ q = p /\ said = {}
     /\ ~(p = "none" /\ k = "INVITE") /\ ~(p = "answered" /\ k = "ACK")
     /\ ~(p = "ringing" /\ k = "CANCEL") /\ ~(p \in {"answered", "confirmed"} /\ k = "BYE")

InAnswer(p, k, q, said) ==
  \/ p \in {"inviting", "confirmed"} /\ k = "200" /\ q = "confirmed" /\ said = {"ACK"}
  \/ p = "cancelling" /\ k = "200" /\ q = "ended" /\ said = {"ACK", "BYE"}
  \/ p \in {"inviting", "cancelling"} /\ k = "failure" /\ q = "ended" /\ said = {}
  \/ p = "confirmed" /\ k = "BYE" /\ q = "ended" /\ said = {}
  \/ /\ q = p /\ said = {}
     /\ ~(p \in {"inviting", "confirmed", "cancelling"} /\ k = "200")
     /\ ~(p \in {"inviting", "cancelling"} /\ k = "failure") /\ ~(p = "confirmed" /\ k = "BYE")

LEMMA OutReached ==
  ASSUME NEW b, NEW v, NEW p, NEW D, NEW rest, NEW k,
         OutSound(b, v, p, D, rest \cup {k}), NEW q, NEW said, OutAnswer(p, k, q, said)
  PROVE  OutSound(b, v, q, D \cup said, rest)
<1> DEFINE P == rest \cup {k}
<1>1. k \in P /\ rest \subseteq P /\ P \subseteq rest \cup {k}
  OBVIOUS
<1>2. OutSound(b, v, p, D, P)
  OBVIOUS
<1> HIDE DEF P
<1> QED
  BY <1>1, <1>2 DEF OutSound, OutAnswer

LEMMA InReached ==
  ASSUME NEW v, NEW p, NEW D, NEW rest, NEW k,
         InSound(v, p, D, rest \cup {k}), NEW q, NEW said, InAnswer(p, k, q, said)
  PROVE  InSound(v, q, D \cup said, rest)
<1> DEFINE P == rest \cup {k}
<1>1. k \in P /\ rest \subseteq P /\ P \subseteq rest \cup {k}
  OBVIOUS
<1>2. InSound(v, p, D, P)
  OBVIOUS
<1> HIDE DEF P
<1> QED
  BY <1>1, <1>2 DEF InSound, InAnswer

\* The peer acts of itself.
LEMMA OutSays ==
  ASSUME NEW b, NEW v, NEW p, NEW D, NEW P, OutSound(b, v, p, D, P)
  PROVE  /\ p = "ringing" => OutSound(b, v, "answered", D \cup {"200"}, P)
         /\ p = "ringing" => OutSound(b, v, "ended", D \cup {"failure"}, P)
         /\ p = "confirmed" => OutSound(b, v, "ended", D \cup {"BYE"}, P)
         /\ p = "answered" /\ D = {} /\ P = {} => OutSound(b, v, "ended", {"BYE"}, P)
BY DEF OutSound

LEMMA InSays ==
  ASSUME NEW v, NEW p, NEW D, NEW P, InSound(v, p, D, P)
  PROVE  /\ p = "none" => InSound(v, "inviting", D \cup {"INVITE"}, P)
         /\ p = "inviting" => InSound(v, "cancelling", D \cup {"CANCEL"}, P)
         /\ p = "confirmed" => InSound(v, "ended", D \cup {"BYE"}, P)
         /\ p \in {"inviting", "cancelling"} /\ D = {} /\ P = {} => InSound(v, "ended", D, P)
BY DEF InSound

-----------------------------------------------------------------------------
\* Queues, by what they carry of each call.

LEMMA SaidSent ==
  ASSUME NEW q \in Seq(Message), NEW new \in Seq(Message), NEW c
  PROVE  Said(q \o new, c) = Said(q, c) \cup Said(new, c)
<1> DEFINE all == q \o new
<1>1. /\ all \in Seq(Message) /\ Len(all) = Len(q) + Len(new)
      /\ Len(q) \in Nat /\ Len(new) \in Nat
      /\ \A i \in 1 .. Len(q) + Len(new) :
           all[i] = IF i <= Len(q) THEN q[i] ELSE new[i - Len(q)]
  BY ConcatProperties, LenProperties
<1>2. DOMAIN all = 1 .. Len(all) /\ DOMAIN q = 1 .. Len(q) /\ DOMAIN new = 1 .. Len(new)
  BY <1>1, LenProperties
<1> HIDE DEF all
<1>3. ASSUME NEW n \in DOMAIN q PROVE n \in DOMAIN all /\ all[n] = q[n]
  BY <1>1, <1>2
<1>4. ASSUME NEW n \in DOMAIN new PROVE Len(q) + n \in DOMAIN all /\ all[Len(q) + n] = new[n]
  BY <1>1, <1>2
<1>5. ASSUME NEW n \in DOMAIN all
      PROVE  (n \in DOMAIN q /\ all[n] = q[n])
             \/ (n - Len(q) \in DOMAIN new /\ all[n] = new[n - Len(q)])
  BY <1>1, <1>2
<1>6. Said(q, c) \subseteq Said(all, c)
  BY <1>3 DEF Said
<1>7. Said(new, c) \subseteq Said(all, c)
  BY <1>4 DEF Said
<1>8. Said(all, c) \subseteq Said(q, c) \cup Said(new, c)
  BY <1>5 DEF Said
<1> QED
  BY <1>6, <1>7, <1>8 DEF all

LEMMA SaidAppend ==
  ASSUME NEW q \in Seq(Message), NEW m \in Message
  PROVE  /\ Append(q, m) \in Seq(Message)
         /\ \A c : Said(Append(q, m), c) = IF c = m.call THEN Said(q, c) \cup {m.kind} ELSE Said(q, c)
<1>1. DOMAIN <<m>> = {1} /\ <<m>>[1] = m /\ <<m>> \in Seq(Message)
  OBVIOUS
<1>2. \A c : Said(<<m>>, c) = IF c = m.call THEN {m.kind} ELSE {}
  BY <1>1 DEF Said
<1>3. Append(q, m) = q \o <<m>>
  BY AppendIsConcat
<1> DEFINE one == <<m>>
<1> HIDE DEF one
<1>4. \A c : Said(q \o one, c) = Said(q, c) \cup Said(one, c)
  BY <1>1, SaidSent DEF one
<1> QED
  BY <1>2, <1>3, <1>4, AppendProperties DEF one

LEMMA FirstTaken ==
  ASSUME NEW q \in Seq(Message), 1 \in DOMAIN q
  PROVE  /\ RemoveAt(q, 1) = Tail(q) /\ q # << >> /\ q[1] \in Message
         /\ Tail(q) \in Seq(Message)
         /\ \A n \in DOMAIN Tail(q) : n + 1 \in DOMAIN q /\ Tail(q)[n] = q[n + 1]
         /\ \A n \in DOMAIN q : n = 1 \/ (n - 1 \in DOMAIN Tail(q) /\ Tail(q)[n - 1] = q[n])
         /\ DOMAIN q \subseteq Nat /\ DOMAIN Tail(q) \subseteq Nat \ {0}
<1>1. q # << >> /\ Len(q) \in Nat /\ DOMAIN q = 1 .. Len(q)
  BY LenProperties
<1>2. q[1] \in Message
  BY <1>1, ElementOfSeq
<1>3. SubSeq(q, 1, 0) = << >>
  BY <1>1
<1>4. SubSeq(q, 2, Len(q)) = Tail(q)
  BY <1>1, TailIsSubSeq
<1>5. /\ Tail(q) \in Seq(Message) /\ Len(Tail(q)) = Len(q) - 1
      /\ \A n \in 1 .. Len(Tail(q)) : Tail(q)[n] = q[n + 1]
  BY <1>1, HeadTailProperties
<1>6. RemoveAt(q, 1) = << >> \o Tail(q)
  BY <1>1, <1>3, <1>4 DEF RemoveAt
<1>7. << >> \o Tail(q) = Tail(q)
  BY <1>5, ConcatEmptySeq
<1>8. DOMAIN Tail(q) = 1 .. Len(Tail(q))
  BY <1>5, LenProperties
<1> DEFINE rest == Tail(q)
<1>9. DOMAIN rest = 1 .. (Len(q) - 1) /\ \A n \in 1 .. (Len(q) - 1) : rest[n] = q[n + 1]
  BY <1>5, <1>8
<1> HIDE DEF rest
<1>10. \A n \in DOMAIN rest : n + 1 \in DOMAIN q /\ rest[n] = q[n + 1]
  BY <1>1, <1>9
<1>11. ASSUME NEW n \in DOMAIN q, n # 1 PROVE n - 1 \in DOMAIN rest /\ rest[n - 1] = q[n]
  <2>1. n - 1 \in 1 .. (Len(q) - 1) /\ (n - 1) + 1 = n
    BY <1>1, <1>11
  <2> QED
    BY <1>9, <2>1
<1>12. DOMAIN q \subseteq Nat /\ DOMAIN rest \subseteq Nat \ {0}
  BY <1>1, <1>9
<1> QED
  BY <1>1, <1>2, <1>5, <1>6, <1>7, <1>10, <1>11, <1>12 DEF rest

LEMMA SaidTaken ==
  ASSUME NEW q \in Seq(Message), 1 \in DOMAIN q, NEW c
  PROVE  Said(q, c) = IF q[1].call = c THEN Said(Tail(q), c) \cup {q[1].kind} ELSE Said(Tail(q), c)
<1> DEFINE rest == Tail(q)
<1>1. /\ \A n \in DOMAIN rest : n + 1 \in DOMAIN q /\ rest[n] = q[n + 1]
      /\ \A n \in DOMAIN q : n = 1 \/ (n - 1 \in DOMAIN rest /\ rest[n - 1] = q[n])
  BY FirstTaken
<1> HIDE DEF rest
<1>2. Said(rest, c) \subseteq Said(q, c)
  BY <1>1 DEF Said
<1>3. q[1].call = c => q[1].kind \in Said(q, c)
  BY DEF Said
<1>4. Said(q, c) \subseteq IF q[1].call = c THEN Said(rest, c) \cup {q[1].kind} ELSE Said(rest, c)
  BY <1>1 DEF Said
<1> QED
  BY <1>2, <1>3, <1>4 DEF rest

\* A sequence of messages of one call.
LEMMA SaidOf ==
  ASSUME NEW c \in Calls, NEW kinds \in Seq(Kind)
  PROVE  /\ [i \in DOMAIN kinds |-> Msg(kinds[i], c)] \in Seq(Message)
         /\ \A d : Said([i \in DOMAIN kinds |-> Msg(kinds[i], c)], d)
                   = IF d = c THEN {kinds[i] : i \in DOMAIN kinds} ELSE {}
<1> DEFINE new == [i \in DOMAIN kinds |-> Msg(kinds[i], c)]
<1>1. Len(kinds) \in Nat /\ DOMAIN kinds = 1 .. Len(kinds)
      /\ \A i \in 1 .. Len(kinds) : kinds[i] \in Kind
  BY LenProperties, ElementOfSeq
<1>2. \A i \in 1 .. Len(kinds) : Msg(kinds[i], c) \in Message
  BY <1>1 DEF Msg, Message
<1>3. new \in [1 .. Len(kinds) -> Message]
  BY <1>1, <1>2
<1>4. new \in Seq(Message)
  BY <1>1, <1>3, SeqDef
<1>5. DOMAIN new = DOMAIN kinds /\ \A i \in DOMAIN kinds : new[i].call = c /\ new[i].kind = kinds[i]
  BY DEF Msg
<1> HIDE DEF new
<1>6. \A d : Said(new, d) = IF d = c THEN {kinds[i] : i \in DOMAIN kinds} ELSE {}
  BY <1>5 DEF Said
<1> QED
  BY <1>4, <1>6 DEF new

LEMMA SaidNothing ==
  ASSUME NEW c, ~InFlight(c)
  PROVE  Said(toDevice, c) = {} /\ Said(toPeer, c) = {}
BY DEF InFlight, Said

LEMMA OrderedTaken ==
  ASSUME NEW q \in Seq(Message), 1 \in DOMAIN q, Ordered(q)
  PROVE  /\ Ordered(Tail(q))
         /\ q[1].kind = "200" => Said(Tail(q), q[1].call) \cap {"180", "failure"} = {}
         /\ q[1].kind = "INVITE" => "INVITE" \notin Said(Tail(q), q[1].call)
<1> DEFINE rest == Tail(q)
<1>1. /\ \A n \in DOMAIN rest : n + 1 \in DOMAIN q /\ rest[n] = q[n + 1]
      /\ DOMAIN rest \subseteq Nat \ {0}
  BY FirstTaken
<1> HIDE DEF rest
<1>2. ASSUME NEW i \in DOMAIN rest, NEW j \in DOMAIN rest, i < j, rest[i].call = rest[j].call
      PROVE  ~Disorder(rest[i], rest[j])
  <2>1. i + 1 < j + 1 /\ i + 1 \in DOMAIN q /\ j + 1 \in DOMAIN q
    BY <1>1, <1>2
  <2>2. rest[i] = q[i + 1] /\ rest[j] = q[j + 1]
    BY <1>1
  <2> QED
    BY <1>2, <2>1, <2>2 DEF Ordered
<1>3. ASSUME NEW j \in DOMAIN rest, rest[j].call = q[1].call
      PROVE  ~Disorder(q[1], rest[j])
  <2>1. 1 < j + 1 /\ j + 1 \in DOMAIN q /\ rest[j] = q[j + 1]
    BY <1>1
  <2> QED
    BY <1>3, <2>1 DEF Ordered
<1> QED
  BY <1>2, <1>3 DEF Ordered, Said, Disorder, rest

LEMMA OrderedSent ==
  ASSUME NEW q \in Seq(Message), NEW new \in Seq(Message), Ordered(q), Ordered(new),
         \A c : /\ "200" \in Said(q, c) => Said(new, c) \cap {"180", "failure"} = {}
                /\ "INVITE" \in Said(q, c) => "INVITE" \notin Said(new, c)
  PROVE  Ordered(q \o new)
<1> DEFINE all == q \o new
<1>1. /\ all \in Seq(Message) /\ Len(all) = Len(q) + Len(new)
      /\ Len(q) \in Nat /\ Len(new) \in Nat
      /\ \A i \in 1 .. Len(q) + Len(new) :
           all[i] = IF i <= Len(q) THEN q[i] ELSE new[i - Len(q)]
  BY ConcatProperties, LenProperties
<1>2. DOMAIN all = 1 .. Len(all) /\ DOMAIN q = 1 .. Len(q) /\ DOMAIN new = 1 .. Len(new)
  BY <1>1, LenProperties
<1> HIDE DEF all
<1>3. ASSUME NEW i \in DOMAIN all, NEW j \in DOMAIN all, i < j, all[i].call = all[j].call
      PROVE  ~Disorder(all[i], all[j])
  <2>1. CASE j <= Len(q)
    <3>1. i \in DOMAIN q /\ j \in DOMAIN q /\ all[i] = q[i] /\ all[j] = q[j]
      BY <1>1, <1>2, <1>3, <2>1
    <3> QED
      BY <1>3, <3>1 DEF Ordered
  <2>2. CASE ~(i <= Len(q))
    <3>1. /\ i - Len(q) \in DOMAIN new /\ j - Len(q) \in DOMAIN new
          /\ i - Len(q) < j - Len(q)
      BY <1>1, <1>2, <1>3, <2>2
    <3>2. all[i] = new[i - Len(q)] /\ all[j] = new[j - Len(q)]
      BY <1>1, <1>2, <1>3, <2>2
    <3> QED
      BY <1>3, <3>1, <3>2 DEF Ordered
  <2>3. CASE i <= Len(q) /\ ~(j <= Len(q))
    <3>1. i \in DOMAIN q /\ all[i] = q[i]
      BY <1>1, <1>2, <2>3
    <3>2. j - Len(q) \in DOMAIN new /\ all[j] = new[j - Len(q)]
      BY <1>1, <1>2, <2>3
    <3> DEFINE c == all[i].call
    <3>3. all[i].kind \in Said(q, c)
      BY <3>1 DEF Said
    <3>4. all[j].kind \in Said(new, c)
      BY <1>3, <3>2 DEF Said
    <3> HIDE DEF c
    <3> QED
      BY <3>3, <3>4 DEF Disorder
  <2> QED
    BY <1>1, <1>2, <2>1, <2>2, <2>3
<1> QED
  BY <1>3 DEF Ordered, all

-----------------------------------------------------------------------------
\* The steps, over a reliable network.

Agreed ==
  /\ SipInv /\ Limited /\ Ordered(toDevice)
  /\ \A c \in Calls : Sound(c)

LEMMA SessionIs ==
  ASSUME Agreed, session.state # "idle"
  PROVE  /\ session.call \in Calls /\ View(session.call) = session.state
         /\ session.call \in Outgoing =>
              session.state \in {"calling", "ringing", "established"} /\ session.direction = "outgoing"
         /\ session.call \notin Outgoing =>
              /\ session.call \in Incoming /\ session.direction # "outgoing"
              /\ session.state \in {"incoming", "established"}
<1>1. session.call \in Calls /\ View(session.call) = session.state /\ session.state # "gone"
  BY DEF Agreed, SipInv, SessionOK, View, State
<1>2. Sound(session.call)
  BY <1>1 DEF Agreed
<1>3. session.call \in Outgoing => session.state \in {"calling", "ringing", "established"}
  BY <1>1, <1>2 DEF Sound, OutSound
<1>4. session.call \notin Outgoing =>
        session.call \in Incoming /\ session.state \in {"incoming", "established"}
  BY <1>1, <1>2 DEF Sound, InSound, Calls
<1> QED
  BY <1>1, <1>3, <1>4 DEF Agreed, Limited

\* What a call is after a step.
LEMMA SoundAfter ==
  ASSUME NEW c \in Calls, NEW b, b = (c \in fresh'), NEW v, View(c)' = v, NEW p, peer'[c] = p,
         NEW D, Said(toDevice', c) = D, NEW P, Said(toPeer', c) = P,
         c \in Outgoing => OutSound(b, v, p, D, P),
         c \notin Outgoing => InSound(v, p, D, P)
  PROVE  Sound(c)'
BY DEF Sound

LEMMA SoundIs ==
  ASSUME Agreed, NEW c \in Calls
  PROVE  /\ c \in Outgoing =>
              OutSound(c \in fresh, View(c), peer[c], Said(toDevice, c), Said(toPeer, c))
         /\ c \notin Outgoing => InSound(View(c), peer[c], Said(toDevice, c), Said(toPeer, c))
BY DEF Agreed, Sound

\* A call that a step does not touch.
LEMMA SoundStays ==
  ASSUME Agreed, NEW c \in Calls, fresh' = fresh, View(c)' = View(c), peer'[c] = peer[c],
         Said(toDevice', c) = Said(toDevice, c), Said(toPeer', c) = Said(toPeer, c)
  PROVE  Sound(c)'
BY DEF Agreed, Sound

\* What the daemon sends of its session's call.
LEMMA SendIs ==
  ASSUME Agreed, session.state # "idle", NEW kind \in Kind,
         NEW kinds, kinds = <<kind>> \/ kinds = <<kind, kind, kind>>, Send(kinds)
  PROVE  \A c : Said(toPeer', c) = IF c = session.call THEN Said(toPeer, c) \cup {kind}
                                   ELSE Said(toPeer, c)
<1> DEFINE new == [i \in DOMAIN kinds |-> Msg(kinds[i], session.call)]
<1>1. kinds \in Seq(Kind)
  <2>1. <<kind>> \in Seq(Kind) /\ <<kind, kind, kind>> \in Seq(Kind)
    OBVIOUS
  <2> QED
    BY <2>1
<1>2. {kinds[i] : i \in DOMAIN kinds} = {kind}
  OBVIOUS
<1>3. session.call \in Calls
  BY SessionIs
<1>4. /\ new \in Seq(Message)
      /\ \A c : Said(new, c) = IF c = session.call THEN {kind} ELSE {}
  BY <1>1, <1>2, <1>3, SaidOf
<1>5. toPeer' = toPeer \o new /\ toPeer \in Seq(Message)
  BY DEF Send, Agreed, SipInv, QueuesOK
<1> HIDE DEF new
<1>6. \A c : Said(toPeer', c) = Said(toPeer, c) \cup Said(new, c)
  BY <1>4, <1>5, SaidSent
<1> QED
  BY <1>4, <1>6

LEMMA EndIs ==
  ASSUME End
  PROVE  session'.state = "idle" /\ \A c : View(c)' = "gone"
BY DEF End, Idle, View

LEMMA ViewOthers ==
  ASSUME NEW c, session.state = "idle" \/ c # session.call
  PROVE  View(c) = "gone"
BY DEF View

LEMMA LeftAgrees ==
  ASSUME Agreed, Reliable, CheckTimeout \/ Terminate
  PROVE  Limited' /\ Ordered(toDevice') /\ \A c \in Calls : Sound(c)'
<1>1. /\ session.state # "idle" /\ End /\ UNCHANGED <<network, fresh, peer, toDevice>>
      /\ \/ Asking /\ Send(<<"CANCEL">>)
         \/ session.state = "established" /\ Send(<<"BYE", "BYE", "BYE">>)
  <2>1. CASE CheckTimeout
    BY <2>1 DEF CheckTimeout, Asking
  <2>2. CASE Terminate
    <3>1. session.state \in {"calling", "ringing", "established"}
      BY <2>2, SessionIs DEF Terminate, Reliable
    <3> QED
      BY <2>2, <3>1 DEF Terminate, Asking
  <2> QED
    BY <2>1, <2>2
<1>2. Limited' /\ Ordered(toDevice')
  BY <1>1, EndIs DEF Agreed, Limited
<1>3. ASSUME NEW c \in Calls PROVE Sound(c)'
  <2>1. View(c)' = "gone"
    BY <1>1, EndIs
  <2>2. CASE c # session.call
    <3>1. Said(toPeer', c) = Said(toPeer, c)
      BY <1>1, <2>2, SendIs DEF Kind
    <3> QED
      BY <1>1, <2>1, <2>2, <3>1, ViewOthers, SoundStays
  <2>3. CASE c = session.call
    <3>1. View(c) = session.state
      BY <1>1, <2>3, SessionIs
    <3>2. CASE Asking /\ Send(<<"CANCEL">>)
      <4>1. c \in Outgoing
        BY <1>1, <2>3, <3>2, SessionIs DEF Asking
      <4>2. Said(toPeer', c) = Said(toPeer, c) \cup {"CANCEL"}
        BY <1>1, <2>3, <3>2, SendIs DEF Kind
      <4>3. OutSound(c \in fresh, "gone", peer[c], Said(toDevice, c), Said(toPeer, c) \cup {"CANCEL"})
        BY <3>1, <3>2, <4>1, SoundIs, OutLeft DEF Asking
      <4> QED
        BY <1>1, <2>1, <4>1, <4>2, <4>3, SoundAfter
    <3>3. CASE session.state = "established" /\ Send(<<"BYE", "BYE", "BYE">>)
      <4>1. Said(toPeer', c) = Said(toPeer, c) \cup {"BYE"}
        BY <1>1, <2>3, <3>3, SendIs DEF Kind
      <4>2. c \in Outgoing =>
              OutSound(c \in fresh, "gone", peer[c], Said(toDevice, c), Said(toPeer, c) \cup {"BYE"})
        BY <3>1, <3>3, SoundIs, OutLeft
      <4>3. c \notin Outgoing =>
              InSound("gone", peer[c], Said(toDevice, c), Said(toPeer, c) \cup {"BYE"})
        BY <3>1, <3>3, SoundIs, InLeft
      <4> QED
        BY <1>1, <2>1, <4>1, <4>2, <4>3, SoundAfter
    <3> QED
      BY <1>1, <3>2, <3>3
  <2> QED
    BY <2>2, <2>3
<1> QED
  BY <1>2, <1>3

LEMMA MadeAgrees ==
  ASSUME Agreed, NEW c \in Outgoing, MakeCall(c)
  PROVE  Limited' /\ Ordered(toDevice') /\ \A d \in Calls : Sound(d)'
<1>1. /\ session.state = "idle" /\ c \in fresh /\ c \in Calls
      /\ session' = [state |-> "calling", direction |-> "outgoing", call |-> c]
      /\ fresh' = fresh \ {c} /\ toPeer' = Append(toPeer, Msg("INVITE", c))
      /\ UNCHANGED <<network, peer, toDevice>>
  BY DEF MakeCall, Calls
<1>2. Limited'
  BY <1>1 DEF Agreed, Limited
<1>3. \A d : Said(toPeer', d) = IF d = c THEN Said(toPeer, d) \cup {"INVITE"} ELSE Said(toPeer, d)
  <2>1. Msg("INVITE", c) \in Message /\ Msg("INVITE", c).call = c /\ Msg("INVITE", c).kind = "INVITE"
    BY <1>1 DEF Msg, Message, Kind
  <2> QED
    BY <1>1, <2>1, SaidAppend DEF Agreed, SipInv, QueuesOK
<1>4. Sound(c)'
  <2>1. View(c) = "gone" /\ peer[c] = "none" /\ Said(toDevice, c) = {} /\ Said(toPeer, c) = {}
    BY <1>1, SoundIs DEF OutSound
  <2>2. /\ View(c)' = "calling" /\ peer'[c] = "none" /\ Said(toDevice', c) = {}
        /\ Said(toPeer', c) = {"INVITE"}
    BY <1>1, <1>3, <2>1 DEF View
  <2>3. OutSound(c \in fresh', "calling", "none", {}, {"INVITE"})
    BY <1>1 DEF OutSound
  <2> QED
    BY <1>1, <2>2, <2>3, SoundAfter
<1>5. ASSUME NEW d \in Calls, d # c PROVE Sound(d)'
  <2>1. View(d) = "gone" /\ View(d)' = "gone"
    BY <1>1, <1>5 DEF View
  <2>2. Said(toPeer', d) = Said(toPeer, d)
    BY <1>3, <1>5
  <2>3. (d \in fresh') <=> (d \in fresh)
    BY <1>1, <1>5
  <2>4. d \in Outgoing => OutSound(d \in fresh', "gone", peer[d], Said(toDevice, d), Said(toPeer, d))
    <3>1. d \in Outgoing => OutSound(d \in fresh, "gone", peer[d], Said(toDevice, d), Said(toPeer, d))
      BY <2>1, SoundIs
    <3> QED
      BY <2>3, <3>1 DEF OutSound
  <2>5. d \notin Outgoing => InSound("gone", peer[d], Said(toDevice, d), Said(toPeer, d))
    BY <2>1, SoundIs
  <2> QED
    BY <1>1, <2>1, <2>2, <2>4, <2>5, SoundAfter
<1> QED
  BY <1>1, <1>2, <1>4, <1>5 DEF Agreed

-----------------------------------------------------------------------------
\* The daemon handles the first message under way to it.

Hears(m) ==
  /\ 1 \in DOMAIN toDevice /\ m = toDevice[1] /\ toDevice' = Tail(toDevice)
  /\ UNCHANGED <<network, fresh, peer>>

LEMMA HeardIs ==
  ASSUME Agreed, NEW m, Hears(m)
  PROVE  /\ m \in Message /\ Ordered(toDevice') /\ UNCHANGED <<network, fresh, peer>>
         /\ Said(toDevice, m.call) = Said(toDevice', m.call) \cup {m.kind}
         /\ \A c : c # m.call => Said(toDevice', c) = Said(toDevice, c)
         /\ m.kind = "200" => Said(toDevice', m.call) \cap {"180", "failure"} = {}
         /\ m.kind = "INVITE" => "INVITE" \notin Said(toDevice', m.call)
<1>1. toDevice \in Seq(Message) /\ Ordered(toDevice)
  BY DEF Agreed, SipInv, QueuesOK
<1> QED
  BY <1>1, FirstTaken, SaidTaken, OrderedTaken DEF Hears

\* What the call of the message is once it is taken.
LEMMA OutHears ==
  ASSUME Agreed, NEW m, Hears(m), m.call \in Outgoing
  PROVE  LET b == m.call \in fresh
             v == View(m.call)
             p == peer[m.call]
             rest == Said(toDevice', m.call)
             P == Said(toPeer, m.call)
         IN /\ m.kind = "180" /\ v # "gone" => OutSound(b, "ringing", p, rest, P)
            /\ m.kind = "200" /\ v # "gone" =>
                 OutSound(b, "established", p, rest, P \cup {"ACK"})
            /\ m.kind \in {"failure", "BYE"} => OutSound(b, "gone", p, rest, P)
            /\ v = "gone" => OutSound(b, "gone", p, rest, P)
            /\ m.kind \in {"180", "200", "failure", "BYE"}
<1> DEFINE b == m.call \in fresh
           v == View(m.call)
           p == peer[m.call]
           D == Said(toDevice, m.call)
           rest == Said(toDevice', m.call)
           P == Said(toPeer, m.call)
           k == m.kind
<1>1. OutSound(b, v, p, D, P)
  BY HeardIs, SoundIs DEF Message
<1>2. D = rest \cup {k} /\ (k = "200" => rest \cap {"180", "failure"} = {})
  BY HeardIs
<1>4. OutSound(b, v, p, rest \cup {k}, P)
  BY <1>1, <1>2
<1> HIDE DEF b, v, p, D, rest, P, k
<1>3. /\ k = "180" /\ v # "gone" => OutSound(b, "ringing", p, rest, P)
      /\ k = "200" /\ v # "gone" => OutSound(b, "established", p, rest, P \cup {"ACK"})
      /\ k \in {"failure", "BYE"} => OutSound(b, "gone", p, rest, P)
      /\ v = "gone" => OutSound(b, "gone", p, rest, P)
      /\ k \in {"180", "200", "failure", "BYE"}
  BY <1>2, <1>4, OutHeard
<1> QED
  BY <1>3 DEF b, v, p, rest, P, k

LEMMA InHears ==
  ASSUME Agreed, NEW m, Hears(m), m.call \notin Outgoing
  PROVE  LET v == View(m.call)
             p == peer[m.call]
             rest == Said(toDevice', m.call)
             P == Said(toPeer, m.call)
         IN /\ m.kind = "INVITE" =>
                 /\ v = "gone"
                 /\ InSound("incoming", p, rest, P \cup {"200"})
                 /\ InSound("gone", p, rest, P \cup {"failure"})
            /\ m.kind = "ACK" /\ v = "incoming" => InSound("established", p, rest, P)
            /\ m.kind = "ACK" /\ v # "incoming" => InSound(v, p, rest, P)
            /\ m.kind = "BYE" => InSound("gone", p, rest, P)
            /\ m.kind = "CANCEL" /\ v = "incoming" => InSound("gone", p, rest, P)
            /\ m.kind = "CANCEL" /\ v # "incoming" => InSound(v, p, rest, P)
            /\ m.kind \in {"INVITE", "CANCEL", "ACK", "BYE"} /\ m.call \in Incoming
<1> DEFINE v == View(m.call)
           p == peer[m.call]
           D == Said(toDevice, m.call)
           rest == Said(toDevice', m.call)
           P == Said(toPeer, m.call)
           k == m.kind
<1>0. m.call \in Incoming
  BY HeardIs DEF Message, Calls
<1>1. InSound(v, p, D, P)
  BY HeardIs, SoundIs DEF Message
<1>2. D = rest \cup {k} /\ (k = "INVITE" => "INVITE" \notin rest)
  BY HeardIs
<1>4. InSound(v, p, rest \cup {k}, P)
  BY <1>1, <1>2
<1> HIDE DEF v, p, D, rest, P, k
<1>3. /\ k = "INVITE" =>
           /\ v = "gone"
           /\ InSound("incoming", p, rest, P \cup {"200"})
           /\ InSound("gone", p, rest, P \cup {"failure"})
      /\ k = "ACK" /\ v = "incoming" => InSound("established", p, rest, P)
      /\ k = "ACK" /\ v # "incoming" => InSound(v, p, rest, P)
      /\ k = "BYE" => InSound("gone", p, rest, P)
      /\ k = "CANCEL" /\ v = "incoming" => InSound("gone", p, rest, P)
      /\ k = "CANCEL" /\ v # "incoming" => InSound(v, p, rest, P)
      /\ k \in {"INVITE", "CANCEL", "ACK", "BYE"}
  BY <1>2, <1>4, InHeard
<1> QED
  BY <1>0, <1>3 DEF v, p, rest, P, k

\* A call the message is not of.
LEMMA OtherStays ==
  ASSUME Agreed, NEW m, Hears(m), NEW c \in Calls, c # m.call, View(c)' = View(c),
         Said(toPeer', c) = Said(toPeer, c)
  PROVE  Sound(c)'
BY HeardIs, SoundStays

LEMMA LimitedStays ==
  ASSUME Agreed, NEW m, Hears(m),
         (session.state # "idle" => (session.direction = "outgoing" <=> session.call \in Outgoing))'
  PROVE  Limited'
<1>1. \A c : Said(toDevice', c) \subseteq Said(toDevice, c)
  BY HeardIs
<1> QED
  BY <1>1, HeardIs DEF Agreed, Limited

\* The call of the message after the message.
LEMMA OneAfter ==
  ASSUME Agreed, NEW m, Hears(m), NEW v, View(m.call)' = v, NEW P, Said(toPeer', m.call) = P,
         m.call \in Outgoing =>
           OutSound(m.call \in fresh, v, peer[m.call], Said(toDevice', m.call), P),
         m.call \notin Outgoing => InSound(v, peer[m.call], Said(toDevice', m.call), P)
  PROVE  Sound(m.call)'
<1>1. m.call \in Calls /\ fresh' = fresh /\ peer' = peer
  BY HeardIs DEF Message
<1> QED
  BY <1>1, SoundAfter

LEMMA IgnoredAgrees ==
  ASSUME Agreed, NEW m, Hears(m), m.kind # "INVITE", Ignore, ~Mine(m)
  PROVE  Limited' /\ \A c \in Calls : Sound(c)'
<1>1. Limited'
  BY LimitedStays DEF Ignore, Agreed, Limited
<1>2. \A c : View(c)' = View(c)
  BY DEF Ignore, View
<1>3. View(m.call) = "gone"
  BY DEF Mine, View
<1>4. Sound(m.call)'
  <2>1. m.call \in Outgoing => OutSound(m.call \in fresh, "gone", peer[m.call],
                                        Said(toDevice', m.call), Said(toPeer, m.call))
    BY <1>3, OutHears
  <2>2. m.call \notin Outgoing =>
          InSound("gone", peer[m.call], Said(toDevice', m.call), Said(toPeer, m.call))
    BY <1>3, InHears
  <2> QED
    BY <1>2, <1>3, <2>1, <2>2, OneAfter DEF Ignore
<1> QED
  BY <1>1, <1>2, <1>4, OtherStays DEF Ignore

LEMMA ByeAgrees ==
  ASSUME Agreed, NEW m, Hears(m), m.kind = "BYE", OnBye(m)
  PROVE  Limited' /\ \A c \in Calls : Sound(c)'
<1>1. CASE Mine(m)
  <2>1. End /\ toPeer' = toPeer /\ session.state # "idle" /\ m.call = session.call
    BY <1>1 DEF OnBye, SendNothing, Mine
  <2>2. Limited'
    BY <2>1, EndIs, LimitedStays
  <2>3. \A c : View(c)' = "gone"
    BY <2>1, EndIs
  <2>4. Sound(m.call)'
    <3>1. m.call \in Outgoing => OutSound(m.call \in fresh, "gone", peer[m.call],
                                          Said(toDevice', m.call), Said(toPeer, m.call))
      BY OutHears
    <3>2. m.call \notin Outgoing =>
            InSound("gone", peer[m.call], Said(toDevice', m.call), Said(toPeer, m.call))
      BY InHears
    <3> QED
      BY <2>1, <2>3, <3>1, <3>2, OneAfter
  <2>5. ASSUME NEW c \in Calls, c # m.call PROVE Sound(c)'
    BY <2>1, <2>3, <2>5, ViewOthers, OtherStays
  <2> QED
    BY <2>2, <2>4, <2>5
<1>2. CASE ~Mine(m)
  BY <1>2, IgnoredAgrees DEF OnBye
<1> QED
  BY <1>1, <1>2

\* The session goes on in another state.
LEMMA EnterIs ==
  ASSUME Agreed, session.state # "idle", NEW s \in State \ {"idle"}, Enter(s)
  PROVE  /\ \A c : View(c)' = IF c = session.call THEN s ELSE "gone"
         /\ session'.direction = session.direction /\ session'.call = session.call
BY DEF Enter, View, Agreed, SipInv, SessionOK

LEMMA AckAgrees ==
  ASSUME Agreed, NEW m, Hears(m), m.kind = "ACK", OnAck(m)
  PROVE  Limited' /\ \A c \in Calls : Sound(c)'
<1>1. m.call \notin Outgoing /\ m.call \in Incoming
  BY OutHears, InHears
<1>2. CASE Mine(m) /\ session.state = "incoming"
  <2>1. Enter("established") /\ toPeer' = toPeer /\ m.call = session.call
    BY <1>2 DEF OnAck, Establish, SendNothing, Mine
  <2>2. /\ \A c : View(c)' = IF c = session.call THEN "established" ELSE "gone"
        /\ session'.direction = session.direction /\ session'.call = session.call
    BY <1>2, <2>1, EnterIs DEF State
  <2>3. Limited'
    BY <1>2, <2>2, LimitedStays DEF Agreed, Limited
  <2>4. Sound(m.call)'
    <3>1. View(m.call) = "incoming" /\ View(m.call)' = "established"
      BY <1>2, <2>1, <2>2 DEF View
    <3> QED
      BY <1>1, <2>1, <3>1, InHears, OneAfter
  <2>5. ASSUME NEW c \in Calls, c # m.call PROVE Sound(c)'
    BY <2>1, <2>2, <2>5, ViewOthers, OtherStays
  <2> QED
    BY <2>3, <2>4, <2>5
<1>3. CASE ~(Mine(m) /\ session.state = "incoming")
  <2>1. Ignore
    BY <1>3 DEF OnAck
  <2>2. \A c : View(c)' = View(c)
    BY <2>1 DEF Ignore, View
  <2>3. Limited'
    BY <2>1, LimitedStays DEF Ignore, Agreed, Limited
  <2>4. View(m.call) # "incoming"
    BY <1>3 DEF Mine, View
  <2>5. Sound(m.call)'
    BY <1>1, <2>1, <2>2, <2>4, InHears, OneAfter DEF Ignore
  <2> QED
    BY <2>1, <2>2, <2>3, <2>5, OtherStays DEF Ignore
<1> QED
  BY <1>2, <1>3

\* The CANCEL that ends a call is one of that call.
LEMMA CancelAgrees ==
  ASSUME Agreed, Reliable, NEW m, Hears(m), m.kind = "CANCEL", OnCancel(m)
  PROVE  Limited' /\ \A c \in Calls : Sound(c)'
<1>1. m.call \notin Outgoing /\ m.call \in Incoming /\ m.call \in Calls
  BY OutHears, InHears DEF Calls
<1>2. CASE session.state = "incoming"
  <2>1. End /\ toPeer' = toPeer
    BY <1>2 DEF OnCancel, SendNothing
  <2>2. session.call \in Incoming /\ session.call \notin Outgoing /\ session.call \in Calls
        /\ View(session.call) = "incoming"
    BY <1>2, SessionIs
  <2>3. "CANCEL" \in Said(toDevice, m.call)
    BY HeardIs
  <2>4. peer[session.call] # "none" /\ peer[m.call] # "none"
    <3>1. InSound(View(session.call), peer[session.call], Said(toDevice, session.call),
                  Said(toPeer, session.call))
      BY <2>2, SoundIs
    <3>2. InSound(View(m.call), peer[m.call], Said(toDevice, m.call), Said(toPeer, m.call))
      BY <1>1, SoundIs
    <3>3. peer[session.call] # "none"
      BY <2>2, <3>1 DEF InSound
    <3>4. peer[m.call] # "none"
      BY <2>3, <3>2 DEF InSound
    <3> QED
      BY <3>3, <3>4
  <2>5. session.call = m.call
    BY <1>1, <2>2, <2>3, <2>4 DEF Agreed, Limited, Reliable
  <2>6. \A c : View(c)' = "gone"
    BY <2>1, EndIs
  <2>7. Limited'
    BY <2>1, EndIs, LimitedStays
  <2>8. Sound(m.call)'
    <3>1. InSound("gone", peer[m.call], Said(toDevice', m.call), Said(toPeer, m.call))
      BY <1>1, <2>2, <2>5, InHears
    <3> QED
      BY <1>1, <2>1, <2>6, <3>1, OneAfter
  <2>9. ASSUME NEW c \in Calls, c # m.call PROVE Sound(c)'
    BY <2>1, <2>5, <2>6, <2>9, ViewOthers, OtherStays
  <2> QED
    BY <2>7, <2>8, <2>9
<1>3. CASE session.state # "incoming"
  <2>1. Ignore
    BY <1>3 DEF OnCancel
  <2>2. \A c : View(c)' = View(c)
    BY <2>1 DEF Ignore, View
  <2>3. Limited'
    BY <2>1, LimitedStays DEF Ignore, Agreed, Limited
  <2>4. View(m.call) # "incoming"
    BY <1>3 DEF View
  <2>5. Sound(m.call)'
    BY <1>1, <2>1, <2>2, <2>4, InHears, OneAfter DEF Ignore
  <2> QED
    BY <2>1, <2>2, <2>3, <2>5, OtherStays DEF Ignore
<1> QED
  BY <1>2, <1>3

LEMMA ResponseAgrees ==
  ASSUME Agreed, NEW m, Hears(m), m.kind \in {"180", "200", "failure"}, OnResponse(m)
  PROVE  Limited' /\ \A c \in Calls : Sound(c)'
<1>1. m.call \in Outgoing /\ m.call \in Calls
  BY OutHears, InHears DEF Calls
<1>2. CASE ~Mine(m)
  BY <1>2, IgnoredAgrees DEF OnResponse
<1>3. CASE Mine(m)
  <2>1. session.state # "idle" /\ m.call = session.call
    BY <1>3 DEF Mine
  <2>2. session.direction = "outgoing" /\ View(m.call) # "gone"
    BY <1>1, <2>1, SessionIs
  <2>3. CASE m.kind = "failure"
    <3>1. End /\ toPeer' = toPeer
      BY <1>3, <2>2, <2>3 DEF OnResponse, SendNothing
    <3>2. \A c : View(c)' = "gone"
      BY <3>1, EndIs
    <3>3. Limited'
      BY <3>1, EndIs, LimitedStays
    <3>4. Sound(m.call)'
      BY <1>1, <2>3, <3>1, <3>2, OutHears, OneAfter
    <3>5. ASSUME NEW c \in Calls, c # m.call PROVE Sound(c)'
      BY <2>1, <3>1, <3>2, <3>5, ViewOthers, OtherStays
    <3> QED
      BY <3>3, <3>4, <3>5
  <2>4. ASSUME NEW s \in {"ringing", "established"}, Enter(s),
               NEW P, Said(toPeer', m.call) = P,
               OutSound(m.call \in fresh, s, peer[m.call], Said(toDevice', m.call), P),
               \A c : c # m.call => Said(toPeer', c) = Said(toPeer, c)
        PROVE  Limited' /\ \A c \in Calls : Sound(c)'
    <3>1. s \in State \ {"idle"}
      BY DEF State
    <3>2. /\ \A c : View(c)' = IF c = session.call THEN s ELSE "gone"
          /\ session'.direction = session.direction /\ session'.call = session.call
      BY <2>1, <2>4, <3>1, EnterIs
    <3>3. Limited'
      BY <2>1, <3>2, LimitedStays DEF Agreed, Limited
    <3>4. Sound(m.call)'
      BY <1>1, <2>1, <2>4, <3>2, OneAfter
    <3>5. ASSUME NEW c \in Calls, c # m.call PROVE Sound(c)'
      BY <2>1, <2>4, <3>2, <3>5, ViewOthers, OtherStays
    <3> QED
      BY <3>3, <3>4, <3>5
  <2>5. CASE m.kind = "180"
    <3>1. Enter("ringing") /\ toPeer' = toPeer
      BY <1>3, <2>2, <2>5 DEF OnResponse, SendNothing
    <3>2. OutSound(m.call \in fresh, "ringing", peer[m.call], Said(toDevice', m.call),
                   Said(toPeer, m.call))
      BY <1>1, <2>2, <2>5, OutHears
    <3> QED
      BY <2>4, <3>1, <3>2
  <2>6. CASE m.kind = "200"
    <3>1. Enter("established") /\ Send(<<"ACK">>)
      BY <1>3, <2>2, <2>6 DEF OnResponse, Establish
    <3>2. \A c : Said(toPeer', c) = IF c = session.call THEN Said(toPeer, c) \cup {"ACK"}
                                    ELSE Said(toPeer, c)
      BY <2>1, <3>1, SendIs DEF Kind
    <3>3. OutSound(m.call \in fresh, "established", peer[m.call], Said(toDevice', m.call),
                   Said(toPeer, m.call) \cup {"ACK"})
      BY <1>1, <2>2, <2>6, OutHears
    <3> QED
      BY <2>1, <2>4, <3>1, <3>2, <3>3
  <2> QED
    BY <2>3, <2>5, <2>6
<1> QED
  BY <1>2, <1>3

Sent(q, k, c) == Append(q, Msg(k, c))

LEMMA SaidAfter ==
  ASSUME NEW q \in Seq(Message), NEW k \in Kind, NEW c \in Calls
  PROVE  \A d : Said(Sent(q, k, c), d) = IF d = c THEN Said(q, d) \cup {k} ELSE Said(q, d)
<1> DEFINE m == Msg(k, c)
<1>1. m \in Message /\ m.kind = k /\ m.call = c
  BY DEF Msg, Message
<1>2. Sent(q, k, c) = Append(q, m)
  BY DEF Sent
<1> HIDE DEF m
<1>3. \A d : Said(Append(q, m), d) = IF d = m.call THEN Said(q, d) \cup {m.kind} ELSE Said(q, d)
  BY <1>1, SaidAppend
<1> QED
  BY <1>1, <1>2, <1>3

\* A call of the daemon's that is not answered gives way to the caller's.
Yielded == toPeer \o IF Asking THEN <<Msg("CANCEL", session.call)>> ELSE <<>>

LEMMA YieldedIs ==
  ASSUME Agreed
  PROVE  /\ Yielded \in Seq(Message)
         /\ \A c : Said(Yielded, c) = IF Asking /\ c = session.call
                                      THEN Said(toPeer, c) \cup {"CANCEL"} ELSE Said(toPeer, c)
<1>1. toPeer \in Seq(Message)
  BY DEF Agreed, SipInv, QueuesOK
<1>2. CASE Asking
  <2> DEFINE x == Msg("CANCEL", session.call)
  <2>1. session.call \in Calls
    BY <1>2, SessionIs DEF Asking
  <2>2. x \in Message
    BY <2>1 DEF Msg, Message, Kind
  <2>3. Yielded = toPeer \o <<x>>
    BY <1>2 DEF Yielded
  <2> HIDE DEF x
  <2>4. Yielded = Append(toPeer, x)
    BY <1>1, <2>2, <2>3, AppendIsConcat
  <2>5. Append(toPeer, x) \in Seq(Message)
    BY <1>1, <2>2, SaidAppend
  <2>6. \A c : Said(Yielded, c) = IF c = session.call THEN Said(toPeer, c) \cup {"CANCEL"}
                                  ELSE Said(toPeer, c)
    <3>1. Yielded = Sent(toPeer, "CANCEL", session.call)
      BY <2>4 DEF x, Sent
    <3>2. "CANCEL" \in Kind
      BY DEF Kind
    <3>3. \A d : Said(Sent(toPeer, "CANCEL", session.call), d)
                 = IF d = session.call THEN Said(toPeer, d) \cup {"CANCEL"} ELSE Said(toPeer, d)
      BY <1>1, <2>1, <3>2, SaidAfter, Zenon
    <3> QED
      BY <3>1, <3>3
  <2> QED
    BY <1>2, <2>4, <2>5, <2>6
<1>3. CASE ~Asking
  <2>1. Yielded = toPeer \o << >>
    BY <1>3 DEF Yielded
  <2>2. Yielded = toPeer
    BY <1>1, <2>1, ConcatEmptySeq
  <2> QED
    BY <1>1, <1>3, <2>2
<1> QED
  BY <1>2, <1>3

LEMMA YieldsAgree ==
  ASSUME Agreed, NEW m, Hears(m), m.call \notin Outgoing, m.call \in Calls,
         session.state = "idle" \/ Asking,
         NEW k \in Kind, toPeer' = Sent(Yielded, k, m.call),
         NEW v, InSound(v, peer[m.call], Said(toDevice', m.call), Said(toPeer, m.call) \cup {k}),
         \A c : View(c)' = IF c = m.call THEN v ELSE "gone"
  PROVE  \A c \in Calls : Sound(c)'
<1>1. /\ Yielded \in Seq(Message)
      /\ \A c : Said(Yielded, c) = IF Asking /\ c = session.call
                                   THEN Said(toPeer, c) \cup {"CANCEL"} ELSE Said(toPeer, c)
  BY YieldedIs
<1>2. \A c : Said(toPeer', c) = IF c = m.call THEN Said(Yielded, c) \cup {k} ELSE Said(Yielded, c)
  <2>1. \A d : Said(Sent(Yielded, k, m.call), d) = IF d = m.call THEN Said(Yielded, d) \cup {k}
                                                  ELSE Said(Yielded, d)
    BY <1>1, SaidAfter, Zenon
  <2> QED
    BY <2>1
<1>3. Asking => /\ session.call \in Outgoing /\ session.call # m.call /\ session.call \in Calls
                /\ View(session.call) \in {"calling", "ringing"}
  BY SessionIs DEF Asking
<1>4. Sound(m.call)'
  <2>1. Said(toPeer', m.call) = Said(toPeer, m.call) \cup {k}
    BY <1>1, <1>2, <1>3
  <2>2. View(m.call)' = v
    OBVIOUS
  <2> QED
    BY <2>1, <2>2, OneAfter
<1>5. ASSUME NEW c \in Calls, Asking, c = session.call PROVE Sound(c)'
  <2>1. Said(toDevice', c) = Said(toDevice, c) /\ peer' = peer /\ fresh' = fresh
    BY <1>3, <1>5, HeardIs
  <2>2. OutSound(c \in fresh, View(c), peer[c], Said(toDevice, c), Said(toPeer, c))
    BY <1>3, <1>5, SoundIs
  <2>3. OutSound(c \in fresh, "gone", peer[c], Said(toDevice, c), Said(toPeer, c) \cup {"CANCEL"})
    BY <1>3, <1>5, <2>2, OutLeft
  <2>4. c \in Outgoing /\ c # m.call
    BY <1>3, <1>5
  <2>5. Said(toPeer', c) = Said(toPeer, c) \cup {"CANCEL"}
    BY <1>1, <1>2, <1>5, <2>4
  <2>6. View(c)' = "gone"
    BY <2>4
  <2> QED
    BY <2>1, <2>3, <2>4, <2>5, <2>6, SoundAfter
<1>6. ASSUME NEW c \in Calls, c # m.call, ~(Asking /\ c = session.call) PROVE Sound(c)'
  <2>1. View(c) = "gone"
    BY <1>6, ViewOthers
  <2>2. View(c)' = "gone"
    BY <1>6
  <2>3. Said(toPeer', c) = Said(toPeer, c)
    BY <1>1, <1>2, <1>6
  <2> QED
    BY <1>6, <2>1, <2>2, <2>3, OtherStays
<1>7. ASSUME NEW c \in Calls PROVE Sound(c)'
  <2>1. CASE c = m.call
    BY <1>4, <2>1
  <2>2. CASE c # m.call /\ Asking /\ c = session.call
    BY <1>5, <2>2
  <2>3. CASE c # m.call /\ ~(Asking /\ c = session.call)
    BY <1>6, <2>3
  <2> QED
    BY <2>1, <2>2, <2>3
<1> QED
  BY <1>7

LEMMA InviteAgrees ==
  ASSUME Agreed, NEW m, Hears(m), m.kind = "INVITE", OnInvite(m)
  PROVE  Limited' /\ \A c \in Calls : Sound(c)'
<1>1. m.call \notin Outgoing /\ m.call \in Incoming /\ m.call \in Calls
  BY OutHears, InHears DEF Calls
<1>2. /\ View(m.call) = "gone"
      /\ InSound("incoming", peer[m.call], Said(toDevice', m.call), Said(toPeer, m.call) \cup {"200"})
      /\ InSound("gone", peer[m.call], Said(toDevice', m.call), Said(toPeer, m.call) \cup {"failure"})
  BY <1>1, InHears
<1>3. ~Mine(m)
  BY <1>2, SessionIs DEF Mine, View, Agreed, SipInv, SessionOK, State
<1>4. toPeer \in Seq(Message) /\ "200" \in Kind /\ "failure" \in Kind
  BY DEF Agreed, SipInv, QueuesOK, Kind
<1>7. CASE /\ session.state = "idle" \/ Asking
           /\ session' = [state |-> "incoming", direction |-> "incoming", call |-> m.call]
           /\ toPeer' = Sent(Yielded, "200", m.call)
  <2>1. \A c : View(c)' = IF c = m.call THEN "incoming" ELSE "gone"
    BY <1>7 DEF View
  <2>2. Limited'
    BY <1>1, <1>7, LimitedStays
  <2> QED
    BY <1>1, <1>2, <1>4, <1>7, <2>1, <2>2, YieldsAgree
<1>8. CASE /\ session.state = "idle" \/ Asking
           /\ End
           /\ toPeer' = Sent(Yielded, "failure", m.call)
  <2>1. \A c : View(c)' = IF c = m.call THEN "gone" ELSE "gone"
    BY <1>8, EndIs
  <2>2. Limited'
    BY <1>8, EndIs, LimitedStays
  <2> QED
    BY <1>1, <1>2, <1>4, <1>8, <2>1, <2>2, YieldsAgree
<1>9. CASE /\ toPeer' = Sent(toPeer, "failure", m.call)
           /\ UNCHANGED <<session, media>>
  <2>1. \A c : View(c)' = View(c)
    BY <1>9 DEF View
  <2>2. Limited'
    BY <1>9, LimitedStays DEF Agreed, Limited
  <2>3. \A c : Said(toPeer', c) = IF c = m.call THEN Said(toPeer, c) \cup {"failure"} ELSE Said(toPeer, c)
    <3>1. \A d : Said(Sent(toPeer, "failure", m.call), d)
                 = IF d = m.call THEN Said(toPeer, d) \cup {"failure"} ELSE Said(toPeer, d)
      BY <1>1, <1>4, SaidAfter, Zenon
    <3> QED
      BY <1>9, <3>1
  <2>4. Sound(m.call)'
    <3>1. View(m.call)' = "gone" /\ Said(toPeer', m.call) = Said(toPeer, m.call) \cup {"failure"}
      BY <1>2, <2>1, <2>3
    <3> QED
      BY <1>1, <1>2, <3>1, OneAfter
  <2>5. ASSUME NEW c \in Calls, c # m.call PROVE Sound(c)'
    BY <2>1, <2>3, <2>5, OtherStays
  <2> QED
    BY <2>2, <2>4, <2>5
<1> QED
  BY <1>3, <1>7, <1>8, <1>9 DEF OnInvite, Yielded, Sent

LEMMA TakeIs ==
  ASSUME Reliable, dups \in Nat, NEW q, NEW next, NEW i,
         i = 1 \/ network.reorder,
         \/ next = RemoveAt(q, i) /\ UNCHANGED dups
         \/ dups < network.dups /\ dups' = dups + 1 /\ next = q
  PROVE  i = 1 /\ next = RemoveAt(q, 1)
BY DEF Reliable

LEMMA ReceiveAgrees ==
  ASSUME Agreed, Reliable, dups \in Nat, Receive
  PROVE  Limited' /\ Ordered(toDevice') /\ \A c \in Calls : Sound(c)'
<1>1. PICK i \in DOMAIN toDevice :
        LET m == toDevice[i]
        IN /\ Take(toDevice, i)
           /\ CASE m.kind = "INVITE" -> OnInvite(m)
                [] m.kind = "ACK" -> OnAck(m)
                [] m.kind = "BYE" -> OnBye(m)
                [] m.kind = "CANCEL" -> OnCancel(m)
                [] OTHER -> OnResponse(m)
           /\ UNCHANGED <<network, fresh, peer>>
  BY Zenon DEF Receive
<1>2. i = 1 /\ toDevice' = RemoveAt(toDevice, 1)
  BY <1>1, TakeIs DEF Take
<1>6. PICK m : m = toDevice[1]
  OBVIOUS
<1>3. Hears(m)
  BY <1>1, <1>2, <1>6, FirstTaken DEF Hears, Agreed, SipInv, QueuesOK
<1>4. m \in Message /\ Ordered(toDevice')
  BY <1>3, HeardIs
<1>5. \/ m.kind = "INVITE" /\ OnInvite(m)
      \/ m.kind = "ACK" /\ OnAck(m)
      \/ m.kind = "BYE" /\ OnBye(m)
      \/ m.kind = "CANCEL" /\ OnCancel(m)
      \/ m.kind \in {"180", "200", "failure"} /\ OnResponse(m)
  <2>1. m.kind \in Kind
    BY <1>4 DEF Message
  <2> QED
    BY <1>1, <1>2, <1>6, <2>1 DEF Kind
<1> QED
  BY <1>3, <1>4, <1>5, InviteAgrees, AckAgrees, ByeAgrees, CancelAgrees, ResponseAgrees


-----------------------------------------------------------------------------
\* The peer acts, or handles the first message under way to it.

LEMMA PeerAgrees ==
  ASSUME Agreed, UNCHANGED <<network, session, fresh>>,
         NEW c \in Calls, NEW state, NEW said,
         DOMAIN peer' = Calls, peer'[c] = state, \A d \in Calls : d # c => peer'[d] = peer[d],
         \A d : Said(toDevice', d) = IF d = c THEN Said(toDevice, d) \cup said ELSE Said(toDevice, d),
         \A d : d # c => Said(toPeer', d) = Said(toPeer, d),
         c \in Outgoing => OutSound(c \in fresh, View(c), state, Said(toDevice, c) \cup said,
                                    Said(toPeer', c)),
         c \notin Outgoing => InSound(View(c), state, Said(toDevice, c) \cup said, Said(toPeer', c)),
         c \in Incoming => c \in network.incoming,
         c \in Incoming /\ "CANCEL" \in said => network.cancels
  PROVE  Limited' /\ \A d \in Calls : Sound(d)'
<1>1. Limited'
  <2>1. Limited
    BY DEF Agreed
  <2>2. \A d \in Incoming : peer'[d] # "none" => d \in network.incoming
    BY <2>1 DEF Limited, Calls
  <2>3. \A d \in Incoming : "CANCEL" \in Said(toDevice', d) => network.cancels
    BY <2>1 DEF Limited
  <2> QED
    BY <2>1, <2>2, <2>3 DEF Limited
<1>2. \A d : View(d)' = View(d)
  BY DEF View
<1>3. Sound(c)'
  <2>1. View(c)' = View(c) /\ Said(toDevice', c) = Said(toDevice, c) \cup said
    BY <1>2
  <2> QED
    BY <2>1, SoundAfter
<1>4. ASSUME NEW d \in Calls, d # c PROVE Sound(d)'
  BY <1>2, <1>4, SoundStays
<1> QED
  BY <1>1, <1>3, <1>4

\* One message or none, or the two that answer an answer.
Kinds(kinds, said) ==
  \/ kinds = << >> /\ said = {}
  \/ \E k \in Kind : kinds = <<k>> /\ said = {k}
  \/ kinds = <<"ACK", "BYE">> /\ said = {"ACK", "BYE"}

LEMMA KindsAre ==
  ASSUME NEW kinds, NEW said, Kinds(kinds, said)
  PROVE  /\ kinds \in Seq(Kind) /\ said = {kinds[i] : i \in DOMAIN kinds}
         /\ \A i, j \in DOMAIN kinds : i < j => kinds[i] \notin {"200", "INVITE"}
<1>1. CASE kinds = << >> /\ said = {}
  BY <1>1
<1>2. ASSUME NEW k \in Kind, kinds = <<k>>, said = {k}
      PROVE  /\ kinds \in Seq(Kind) /\ said = {kinds[i] : i \in DOMAIN kinds}
             /\ \A i, j \in DOMAIN kinds : i < j => kinds[i] \notin {"200", "INVITE"}
  BY <1>2
<1>3. CASE kinds = <<"ACK", "BYE">> /\ said = {"ACK", "BYE"}
  <2>1. "ACK" \in Kind /\ "BYE" \in Kind
    BY DEF Kind
  <2> QED
    BY <1>3, <2>1
<1> QED
  BY <1>1, <1>2, <1>3 DEF Kinds

LEMMA SaysIs ==
  ASSUME Agreed, NEW c \in Calls, NEW state, NEW kinds, NEW said, Kinds(kinds, said),
         PeerSays(c, state, kinds),
         said \cap {"180", "failure"} # {} => "200" \notin Said(toDevice, c),
         "INVITE" \in said => "INVITE" \notin Said(toDevice, c)
  PROVE  /\ Ordered(toDevice')
         /\ DOMAIN peer' = Calls /\ peer'[c] = state /\ \A d \in Calls : d # c => peer'[d] = peer[d]
         /\ \A d : Said(toDevice', d) = IF d = c THEN Said(toDevice, d) \cup said
                                        ELSE Said(toDevice, d)
<1> DEFINE new == [i \in DOMAIN kinds |-> Msg(kinds[i], c)]
<1>1. /\ kinds \in Seq(Kind) /\ said = {kinds[i] : i \in DOMAIN kinds}
      /\ \A i, j \in DOMAIN kinds : i < j => kinds[i] \notin {"200", "INVITE"}
  BY KindsAre
<1>2. /\ new \in Seq(Message)
      /\ \A d : Said(new, d) = IF d = c THEN said ELSE {}
  BY <1>1, SaidOf
<1>3. Ordered(new)
  BY <1>1 DEF Ordered, Disorder, Msg
<1>4. toDevice' = toDevice \o new /\ peer' = [peer EXCEPT ![c] = state]
  BY DEF PeerSays
<1>5. toDevice \in Seq(Message) /\ Ordered(toDevice) /\ DOMAIN peer = Calls
  BY DEF Agreed, SipInv, QueuesOK, Limited
<1> HIDE DEF new
<1>6. \A d : Said(toDevice \o new, d) = Said(toDevice, d) \cup Said(new, d)
  BY <1>2, <1>5, SaidSent
<1>7. \A d : Said(toDevice', d) = IF d = c THEN Said(toDevice, d) \cup said ELSE Said(toDevice, d)
  BY <1>2, <1>4, <1>6
<1>8. \A d : /\ "200" \in Said(toDevice, d) => Said(new, d) \cap {"180", "failure"} = {}
             /\ "INVITE" \in Said(toDevice, d) => "INVITE" \notin Said(new, d)
  BY <1>2
<1>9. Ordered(toDevice')
  BY <1>2, <1>3, <1>4, <1>5, <1>8, OrderedSent
<1>10. DOMAIN peer' = Calls /\ peer'[c] = state /\ \A d \in Calls : d # c => peer'[d] = peer[d]
  BY <1>4, <1>5
<1> QED
  BY <1>7, <1>9, <1>10

LEMMA PeerActsAgrees ==
  ASSUME Agreed, PeerActs
  PROVE  Limited' /\ Ordered(toDevice') /\ \A d \in Calls : Sound(d)'
<1>1. UNCHANGED <<network, session, fresh, toPeer>>
  BY DEF PeerActs, device
<1>2. ASSUME NEW c \in Calls, NEW state, NEW kinds, NEW said, Kinds(kinds, said),
             PeerSays(c, state, kinds),
             said \cap {"180", "failure"} # {} => "200" \notin Said(toDevice, c),
             "INVITE" \in said => "INVITE" \notin Said(toDevice, c),
             c \in Outgoing => OutSound(c \in fresh, View(c), state, Said(toDevice, c) \cup said,
                                        Said(toPeer, c)),
             c \notin Outgoing => InSound(View(c), state, Said(toDevice, c) \cup said, Said(toPeer, c)),
             c \in Incoming => c \in network.incoming,
             c \in Incoming /\ "CANCEL" \in said => network.cancels
      PROVE  Limited' /\ Ordered(toDevice') /\ \A d \in Calls : Sound(d)'
  <2>1. /\ Ordered(toDevice')
        /\ DOMAIN peer' = Calls /\ peer'[c] = state /\ \A d \in Calls : d # c => peer'[d] = peer[d]
        /\ \A d : Said(toDevice', d) = IF d = c THEN Said(toDevice, d) \cup said
                                       ELSE Said(toDevice, d)
    BY <1>2, SaysIs
  <2>2. /\ c \in Outgoing => OutSound(c \in fresh, View(c), state, Said(toDevice, c) \cup said,
                                      Said(toPeer', c))
        /\ c \notin Outgoing => InSound(View(c), state, Said(toDevice, c) \cup said, Said(toPeer', c))
    BY <1>1, <1>2
  <2> QED
    BY <1>1, <1>2, <2>1, <2>2, PeerAgrees
<1>3. ASSUME NEW c \in Calls
      PROVE  /\ c \in Outgoing =>
                  /\ OutSound(c \in fresh, View(c), peer[c], Said(toDevice, c), Said(toPeer, c))
                  /\ c \notin Incoming /\ c \notin network.incoming
             /\ c \notin Outgoing =>
                  /\ InSound(View(c), peer[c], Said(toDevice, c), Said(toPeer, c))
                  /\ c \in Incoming /\ (peer[c] # "none" => c \in network.incoming)
             /\ ~InFlight(c) => Said(toDevice, c) = {} /\ Said(toPeer, c) = {}
  <2>1. c \in Outgoing => c \notin Incoming
    BY CallsAssumption
  <2> QED
    BY <2>1, SoundIs, SaidNothing DEF Agreed, Limited, Calls
<1>4. \A k \in Kind : Kinds(<<k>>, {k})
  BY DEF Kinds
<1>5. Kinds(<<"INVITE">>, {"INVITE"}) /\ Kinds(<<"CANCEL">>, {"CANCEL"}) /\ Kinds(<<"200">>, {"200"})
      /\ Kinds(<<"failure">>, {"failure"}) /\ Kinds(<<"BYE">>, {"BYE"}) /\ Kinds(<< >>, {})
  BY <1>4 DEF Kind, Kinds
<1>6. PICK c \in Calls :
        \/ /\ c \in network.incoming /\ peer[c] = "none"
           /\ PeerSays(c, "inviting", <<"INVITE">>)
        \/ /\ peer[c] = "inviting" /\ network.cancels
           /\ PeerSays(c, "cancelling", <<"CANCEL">>)
        \/ peer[c] = "ringing" /\ PeerSays(c, "answered", <<"200">>)
        \/ peer[c] = "ringing" /\ PeerSays(c, "ended", <<"failure">>)
        \/ peer[c] = "confirmed" /\ PeerSays(c, "ended", <<"BYE">>)
        \/ peer[c] = "answered" /\ ~InFlight(c) /\ PeerSays(c, "ended", <<"BYE">>)
        \/ /\ peer[c] \in {"inviting", "cancelling"} /\ ~InFlight(c)
           /\ PeerSays(c, "ended", << >>)
  BY DEF PeerActs
<1> DEFINE b == c \in fresh
           v == View(c)
           p == peer[c]
           D == Said(toDevice, c)
           P == Said(toPeer, c)
<1>7. /\ c \in Outgoing => OutSound(b, v, p, D, P) /\ c \notin Incoming /\ c \notin network.incoming
      /\ c \notin Outgoing => InSound(v, p, D, P) /\ c \in Incoming
      /\ c \notin Outgoing /\ p # "none" => c \in network.incoming
      /\ ~InFlight(c) => D = {} /\ P = {}
  BY <1>3
<1>8. ASSUME NEW state, NEW kinds, NEW said, Kinds(kinds, said), PeerSays(c, state, kinds),
             said \cap {"180", "failure"} # {} => "200" \notin D,
             "INVITE" \in said => "INVITE" \notin D,
             c \in Outgoing => OutSound(b, v, state, D \cup said, P),
             c \notin Outgoing => InSound(v, state, D \cup said, P),
             c \in Incoming => c \in network.incoming,
             c \in Incoming /\ "CANCEL" \in said => network.cancels
      PROVE  Limited' /\ Ordered(toDevice') /\ \A d \in Calls : Sound(d)'
  BY <1>2, <1>8
<1> HIDE DEF b, v, D, P
<1>9. CASE c \in network.incoming /\ peer[c] = "none" /\ PeerSays(c, "inviting", <<"INVITE">>)
  <2>1. InSound(v, p, D, P) /\ c \notin Outgoing
    BY <1>7, <1>9
  <2>2. D = {}
    BY <1>9, <2>1 DEF InSound
  <2>3. InSound(v, "inviting", D \cup {"INVITE"}, P)
    BY <1>9, <2>1, InSays
  <2> QED
    BY <1>5, <1>8, <1>9, <2>1, <2>2, <2>3
<1>10. CASE peer[c] = "inviting" /\ network.cancels /\ PeerSays(c, "cancelling", <<"CANCEL">>)
  <2>1. InSound(v, p, D, P) /\ c \notin Outgoing /\ c \in network.incoming
    <3>1. c \in Outgoing => FALSE
      BY <1>7, <1>10 DEF OutSound
    <3> QED
      BY <1>7, <1>10, <3>1
  <2>2. InSound(v, "cancelling", D \cup {"CANCEL"}, P)
    BY <1>10, <2>1, InSays
  <2> QED
    BY <1>5, <1>8, <1>10, <2>1, <2>2
<1>11. CASE peer[c] = "ringing"
  <2>1. OutSound(b, v, p, D, P) /\ c \in Outgoing /\ c \notin Incoming
    <3>1. c \notin Outgoing => FALSE
      BY <1>7, <1>11 DEF InSound
    <3> QED
      BY <1>7, <3>1
  <2>2. "200" \notin D
    BY <1>11, <2>1 DEF OutSound
  <2>3. CASE PeerSays(c, "answered", <<"200">>)
    <3>1. OutSound(b, v, "answered", D \cup {"200"}, P)
      BY <1>11, <2>1, OutSays
    <3> QED
      BY <1>5, <1>8, <2>1, <2>3, <3>1
  <2>4. CASE PeerSays(c, "ended", <<"failure">>)
    <3>1. OutSound(b, v, "ended", D \cup {"failure"}, P)
      BY <1>11, <2>1, OutSays
    <3> QED
      BY <1>5, <1>8, <2>1, <2>2, <2>4, <3>1
  <2> QED
    BY <1>6, <1>11, <2>3, <2>4
<1>12. CASE peer[c] = "confirmed" /\ PeerSays(c, "ended", <<"BYE">>)
  <2>1. c \in Outgoing => OutSound(b, v, "ended", D \cup {"BYE"}, P)
    BY <1>7, <1>12, OutSays
  <2>2. c \notin Outgoing => InSound(v, "ended", D \cup {"BYE"}, P)
    BY <1>7, <1>12, InSays
  <2>3. c \in Incoming => c \in network.incoming
    BY <1>7, <1>12
  <2> QED
    BY <1>5, <1>8, <1>12, <2>1, <2>2, <2>3
<1>13. CASE peer[c] = "answered" /\ ~InFlight(c) /\ PeerSays(c, "ended", <<"BYE">>)
  <2>1. OutSound(b, v, p, D, P) /\ c \in Outgoing /\ c \notin Incoming
    <3>1. c \notin Outgoing => FALSE
      BY <1>7, <1>13 DEF InSound
    <3> QED
      BY <1>7, <3>1
  <2>2. OutSound(b, v, "ended", D \cup {"BYE"}, P)
    BY <1>7, <1>13, <2>1, OutSays
  <2> QED
    BY <1>5, <1>8, <1>13, <2>1, <2>2
<1>14. CASE peer[c] \in {"inviting", "cancelling"} /\ ~InFlight(c) /\ PeerSays(c, "ended", << >>)
  <2>1. InSound(v, p, D, P) /\ c \notin Outgoing /\ c \in network.incoming
    <3>1. c \in Outgoing => FALSE
      BY <1>7, <1>14 DEF OutSound
    <3> QED
      BY <1>7, <1>14, <3>1
  <2>2. InSound(v, "ended", D \cup {}, P)
    <3>1. D = {} /\ P = {} /\ D \cup {} = D
      BY <1>7, <1>14
    <3> QED
      BY <1>14, <2>1, <3>1, InSays
  <2> QED
    BY <1>5, <1>8, <1>14, <2>1, <2>2
<1> QED
  BY <1>6, <1>9, <1>10, <1>11, <1>12, <1>13, <1>14

LEMMA PeerReceivesAgrees ==
  ASSUME Agreed, Reliable, dups \in Nat, PeerReceives
  PROVE  Limited' /\ Ordered(toDevice') /\ \A d \in Calls : Sound(d)'
<1>1. PICK i \in DOMAIN toPeer :
        Take(toPeer, i) /\ PeerHandles(toPeer[i]) /\ UNCHANGED <<network, device>>
  BY DEF PeerReceives
<1>2. i = 1 /\ toPeer' = RemoveAt(toPeer, 1)
  BY <1>1, TakeIs DEF Take
<1>3. PICK m : m = toPeer[1]
  OBVIOUS
<1>4. toPeer \in Seq(Message) /\ DOMAIN peer = Calls /\ Ordered(toDevice)
  BY DEF Agreed, SipInv, QueuesOK, Limited
<1>5. m \in Message /\ toPeer' = Tail(toPeer) /\ m.call \in Calls
  BY <1>1, <1>2, <1>3, <1>4, FirstTaken DEF Message
<1>6. /\ Said(toPeer, m.call) = Said(toPeer', m.call) \cup {m.kind}
      /\ \A d : d # m.call => Said(toPeer', d) = Said(toPeer, d)
  BY <1>1, <1>2, <1>3, <1>4, <1>5, SaidTaken
<1>7. UNCHANGED <<network, session, fresh>>
  BY <1>1 DEF device
<1>8. PICK c, k, b, v, p, D, P, rest :
        /\ c = m.call /\ k = m.kind /\ b = (c \in fresh) /\ v = View(c) /\ p = peer[c]
        /\ D = Said(toDevice, c) /\ P = Said(toPeer, c) /\ rest = Said(toPeer', c)
  OBVIOUS
<1>9. c \in Calls /\ P = rest \cup {k}
  BY <1>5, <1>6, <1>8
<1>10. /\ c \in Outgoing => OutSound(b, v, p, D, rest \cup {k}) /\ c \notin Incoming
       /\ c \notin Outgoing => InSound(v, p, D, rest \cup {k}) /\ c \in Incoming
  <2>1. c \in Outgoing => c \notin Incoming
    BY CallsAssumption
  <2>2. c \in Outgoing => OutSound(b, v, p, D, P)
    BY <1>8, <1>9, SoundIs
  <2>3. c \notin Outgoing => InSound(v, p, D, P) /\ c \in Incoming
    BY <1>8, <1>9, SoundIs DEF Calls
  <2> QED
    BY <1>9, <2>1, <2>2, <2>3
<1>11. c \in Incoming => c \in network.incoming
  <2>1. c \notin Outgoing => p # "none"
    BY <1>10 DEF InSound
  <2>2. c \in Incoming => c \notin Outgoing
    BY CallsAssumption
  <2> QED
    BY <1>8, <2>1, <2>2 DEF Agreed, Limited
<1>12. PICK state, kinds, said :
         /\ Kinds(kinds, said) /\ (PeerSays(c, state, kinds) \/ (said = {} /\ state = p /\ UNCHANGED <<peer, toDevice>>))
         /\ \/ p = "none" /\ k = "INVITE" /\ state = "ringing" /\ said = {"180"}
            \/ p = "answered" /\ k = "ACK" /\ state = "confirmed" /\ said = {}
            \/ p = "ringing" /\ k = "CANCEL" /\ state = "ended" /\ said = {"failure"}
            \/ p \in {"answered", "confirmed"} /\ k = "BYE" /\ state = "ended" /\ said = {}
            \/ p \in {"inviting", "confirmed"} /\ k = "200" /\ state = "confirmed" /\ said = {"ACK"}
            \/ p = "cancelling" /\ k = "200" /\ state = "ended" /\ said = {"ACK", "BYE"}
            \/ p \in {"inviting", "cancelling"} /\ k = "failure" /\ state = "ended" /\ said = {}
            \/ /\ state = p /\ said = {}
               /\ ~(p = "none" /\ k = "INVITE") /\ ~(p = "answered" /\ k = "ACK")
               /\ ~(p = "ringing" /\ k = "CANCEL") /\ ~(p \in {"answered", "confirmed"} /\ k = "BYE")
               /\ ~(p \in {"inviting", "confirmed", "cancelling"} /\ k = "200")
               /\ ~(p \in {"inviting", "cancelling"} /\ k = "failure")
  <2>1. PeerHandles(m) /\ m.call = c /\ m.kind = k /\ peer[c] = p
    BY <1>1, <1>2, <1>3, <1>8
  <2>2. \A x \in Kind : Kinds(<<x>>, {x})
    BY DEF Kinds
  <2>3. Kinds(<<"180">>, {"180"}) /\ Kinds(<<"failure">>, {"failure"}) /\ Kinds(<<"ACK">>, {"ACK"})
        /\ Kinds(<<"ACK", "BYE">>, {"ACK", "BYE"}) /\ Kinds(<< >>, {})
    BY <2>2 DEF Kind, Kinds
  <2>4. CASE p = "none" /\ k = "INVITE"
    BY <2>1, <2>3, <2>4 DEF PeerHandles
  <2>5. CASE p = "answered" /\ k = "ACK"
    BY <2>1, <2>3, <2>5 DEF PeerHandles
  <2>6. CASE p = "ringing" /\ k = "CANCEL"
    BY <2>1, <2>3, <2>6 DEF PeerHandles
  <2>7. CASE p \in {"answered", "confirmed"} /\ k = "BYE"
    BY <2>1, <2>3, <2>7 DEF PeerHandles
  <2>8. CASE p \in {"inviting", "confirmed"} /\ k = "200"
    BY <2>1, <2>3, <2>8 DEF PeerHandles
  <2>9. CASE p = "cancelling" /\ k = "200"
    BY <2>1, <2>3, <2>9 DEF PeerHandles
  <2>10. CASE p \in {"inviting", "cancelling"} /\ k = "failure"
    BY <2>1, <2>3, <2>10 DEF PeerHandles
  <2>11. CASE /\ ~(p = "none" /\ k = "INVITE") /\ ~(p = "answered" /\ k = "ACK")
              /\ ~(p = "ringing" /\ k = "CANCEL") /\ ~(p \in {"answered", "confirmed"} /\ k = "BYE")
              /\ ~(p \in {"inviting", "confirmed", "cancelling"} /\ k = "200")
              /\ ~(p \in {"inviting", "cancelling"} /\ k = "failure")
    <3>1. UNCHANGED <<peer, toDevice>>
      BY <2>1, <2>11 DEF PeerHandles
    <3> QED
      BY <2>3, <2>11, <3>1
  <2> QED
    BY <2>4, <2>5, <2>6, <2>7, <2>8, <2>9, <2>10, <2>11
<1>13. c \in Outgoing => OutSound(b, v, state, D \cup said, rest) /\ "INVITE" \notin said
                         /\ (said \cap {"180", "failure"} # {} => "200" \notin D)
  <2>1. c \in Outgoing => p \in {"none", "ringing", "answered", "confirmed", "ended"}
                          /\ k \in {"INVITE", "CANCEL", "ACK", "BYE"}
    BY <1>10 DEF OutSound
  <2>2. c \in Outgoing => OutAnswer(p, k, state, said)
    BY <1>12, <2>1 DEF OutAnswer
  <2>3. c \in Outgoing => OutSound(b, v, state, D \cup said, rest)
    BY <1>10, <2>2, OutReached
  <2>4. c \in Outgoing /\ said \cap {"180", "failure"} # {} => p \in {"none", "ringing"}
    BY <1>12
  <2>5. c \in Outgoing /\ p \in {"none", "ringing"} => "200" \notin D
    BY <1>10 DEF OutSound
  <2> QED
    BY <1>12, <2>3, <2>4, <2>5
<1>14. c \notin Outgoing => InSound(v, state, D \cup said, rest) /\ "INVITE" \notin said
                            /\ "CANCEL" \notin said /\ "200" \notin D
  <2>1. c \notin Outgoing => p \in {"inviting", "cancelling", "confirmed", "ended"}
                             /\ k \in {"200", "failure", "BYE"} /\ "200" \notin D
    BY <1>10 DEF InSound
  <2>2. c \notin Outgoing => InAnswer(p, k, state, said)
    BY <1>12, <2>1 DEF InAnswer
  <2>3. c \notin Outgoing => InSound(v, state, D \cup said, rest)
    BY <1>10, <2>2, InReached
  <2> QED
    BY <1>12, <2>1, <2>3
<1>15. /\ Ordered(toDevice')
       /\ DOMAIN peer' = Calls /\ peer'[c] = state /\ \A d \in Calls : d # c => peer'[d] = peer[d]
       /\ \A d : Said(toDevice', d) = IF d = c THEN Said(toDevice, d) \cup said
                                      ELSE Said(toDevice, d)
  <2>1. CASE PeerSays(c, state, kinds)
    BY <1>8, <1>9, <1>12, <1>13, <1>14, <2>1, SaysIs
  <2>2. CASE said = {} /\ state = p /\ UNCHANGED <<peer, toDevice>>
    BY <1>4, <1>8, <2>2
  <2> QED
    BY <1>12, <2>1, <2>2
<1>16. /\ c \in Outgoing => OutSound(c \in fresh, View(c), state, Said(toDevice, c) \cup said,
                                     Said(toPeer', c))
       /\ c \notin Outgoing => InSound(View(c), state, Said(toDevice, c) \cup said, Said(toPeer', c))
  BY <1>8, <1>13, <1>14
<1>17. c \in Incoming => "CANCEL" \notin said
  BY <1>14, CallsAssumption
<1>18. \A d : d # c => Said(toPeer', d) = Said(toPeer, d)
  BY <1>6, <1>8
<1> QED
  BY <1>7, <1>9, <1>11, <1>15, <1>16, <1>17, <1>18, PeerAgrees

-----------------------------------------------------------------------------

LEMMA StepAgrees ==
  AgreeInv /\ [Next]_vars => (Reliable => Limited /\ Ordered(toDevice) /\ \A c \in Calls : Sound(c))'
<1> SUFFICES ASSUME AgreeInv, Next \/ UNCHANGED vars, Reliable'
             PROVE  Limited' /\ Ordered(toDevice') /\ \A c \in Calls : Sound(c)'
  OBVIOUS
<1>1. network' = network
  BY DEF Next, MakeCall, CheckTimeout, Terminate, Receive, PeerActs, PeerReceives, Lose, vars
<1>2. Reliable /\ Agreed /\ dups \in Nat
  BY <1>1 DEF Reliable, AgreeInv, Agreed
<1>3. CASE \E c \in Outgoing : MakeCall(c)
  BY <1>2, <1>3, MadeAgrees
<1>4. CASE CheckTimeout \/ Terminate
  BY <1>2, <1>4, LeftAgrees
<1>5. CASE Receive
  BY <1>2, <1>5, ReceiveAgrees
<1>6. CASE PeerActs
  BY <1>2, <1>6, PeerActsAgrees
<1>7. CASE PeerReceives
  BY <1>2, <1>7, PeerReceivesAgrees
<1>8. CASE Lose
  BY <1>2, <1>8 DEF Lose, Reliable
<1>9. CASE UNCHANGED vars
  <2>1. UNCHANGED <<network, session, fresh, peer, toDevice, toPeer>>
    BY <1>9 DEF vars, device
  <2>2. \A c : View(c)' = View(c)
    BY <2>1 DEF View
  <2>3. \A c \in Calls : Sound(c)'
    BY <1>2, <2>1, <2>2, SoundStays
  <2> QED
    BY <1>2, <2>1, <2>3 DEF Agreed, Limited
<1> QED
  BY <1>3, <1>4, <1>5, <1>6, <1>7, <1>8, <1>9 DEF Next

\* AgreeInv is inductive: what each end may take a call to be depends on the
\* messages of it that are still under way, and on nothing of the other calls
\* except that a CANCEL, whichever call it names, ends the one in INCOMING.
THEOREM AgreeKept == Spec => []AgreeInv
<1>1. Init => AgreeInv
  <2> SUFFICES ASSUME Init PROVE AgreeInv
    OBVIOUS
  <2>1. /\ network \in Networks /\ session = Idle /\ fresh = network.outgoing
        /\ peer = [c \in Calls |-> "none"] /\ toDevice = << >> /\ toPeer = << >> /\ dups = 0
    BY DEF Init
  <2>2. network.outgoing \subseteq Outgoing /\ network.incoming \subseteq Incoming
    BY <2>1, NetworksAssumption
  <2>3. SipInv
    BY SipInit
  <2>4. (\A c : Said(toDevice, c) = {} /\ Said(toPeer, c) = {}) /\ Ordered(toDevice)
    BY <2>1 DEF Said, Ordered
  <2>5. \A c : View(c) = "gone"
    BY <2>1 DEF View, Idle
  <2>6. Limited
    BY <2>1, <2>2, <2>4 DEF Limited, Idle, Calls
  <2>7. ASSUME NEW c \in Calls PROVE Sound(c)
    <3>1. peer[c] = "none" /\ View(c) = "gone" /\ Said(toDevice, c) = {} /\ Said(toPeer, c) = {}
      BY <2>1, <2>4, <2>5
    <3>2. OutSound(c \in fresh, "gone", "none", {}, {}) /\ InSound("gone", "none", {}, {})
      BY DEF OutSound, InSound
    <3> QED
      BY <3>1, <3>2 DEF Sound
  <2> QED
    BY <2>1, <2>3, <2>4, <2>6, <2>7 DEF AgreeInv
<1>2. AgreeInv /\ [Next]_vars => AgreeInv'
  <2> SUFFICES ASSUME AgreeInv, [Next]_vars PROVE AgreeInv'
    OBVIOUS
  <2>1. SipInv'
    BY SipStep DEF AgreeInv
  <2>2. dups' \in Nat
    BY DEF AgreeInv, Next, MakeCall, CheckTimeout, Terminate, Receive, PeerActs, PeerReceives,
           Lose, Take, vars
  <2> QED
    BY <2>1, <2>2, StepAgrees DEF AgreeInv
<1> QED
  BY <1>1, <1>2, PTL DEF Spec

\* Over a reliable network both ends agree, once every message has arrived, on
\* which call is up (DialogsAgree), for any number of calls in either
\* direction: with nothing under way a confirmed call is the session's.
THEOREM BothAgree == Spec => []DialogsAgree
<1>1. AgreeInv => DialogsAgree
  <2> SUFFICES ASSUME AgreeInv, Reliable, toDevice = << >>, toPeer = << >>, NEW c \in Calls
               PROVE  peer[c] = "confirmed"
                        <=> (session.state = "established" /\ session.call = c)
    BY DEF DialogsAgree
  <2>1. Said(toDevice, c) = {} /\ Said(toPeer, c) = {}
    BY DEF Said
  <2>2. Sound(c)
    BY DEF AgreeInv
  <2>3. peer[c] = "confirmed" <=> View(c) = "established"
    <3>1. CASE c \in Outgoing
      BY <2>1, <2>2, <3>1 DEF Sound, OutSound
    <3>2. CASE c \notin Outgoing
      BY <2>1, <2>2, <3>2 DEF Sound, InSound
    <3> QED
      BY <3>1, <3>2
  <2> QED
    BY <2>3 DEF View
<1> QED
  BY <1>1, AgreeKept, PTL
=============================================================================
