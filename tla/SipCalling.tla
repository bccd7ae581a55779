----------------------------- MODULE SipCalling -----------------------------
(***************************************************************************)
(* The SIP session of sip_calling.c and the peer it talks to over UDP.     *)
(* Every public entry runs under the recursive session_mutex, callbacks    *)
(* included, so each is one step.  There is one session for calls in both  *)
(* directions; requests and responses go out stateless, that is, once      *)
(* (BYE three times) and without retransmission.                           *)
(*                                                                         *)
(* The peer is external: a user agent that follows RFC 3261 as far as this *)
(* code relies on it.  The 200 of a BYE or CANCEL is left out: it finds    *)
(* the sender's session gone.  Outgoing Call-IDs are taken to be distinct, *)
(* which the code's time(NULL) gives to calls made in different seconds.   *)
(***************************************************************************)
EXTENDS Naturals, SequencesExt

CONSTANTS Outgoing, Incoming,  \* Call-IDs of either direction
          NoCall,              \* the empty Call-ID
          Networks             \* what may happen to the messages

ASSUME CallsAssumption ==
  Outgoing \cap Incoming = {} /\ NoCall \notin Outgoing \cup Incoming

\* outgoing, incoming: the calls that may be made; cancels: a caller may give
\* up; reorder, loss: what may become of a message; dups (a bound): how many
\* are delivered a second time; cutIncoming: a local hang-up may hit a call in
\* INCOMING
ASSUME NetworksAssumption ==
  Networks \subseteq [outgoing : SUBSET Outgoing, incoming : SUBSET Incoming,
                      cancels : BOOLEAN, reorder : BOOLEAN, loss : BOOLEAN,
                      dups : Nat, cutIncoming : BOOLEAN]

Calls == Outgoing \cup Incoming

VARIABLES network,   \* the surroundings, which stay
          session,   \* current_session: state, direction, Call-ID
          media,     \* the call whose RTP target is attached
          fresh,     \* outgoing Call-IDs not used yet
          peer,      \* the peer's view of each call
          toDevice, toPeer,  \* messages in flight, in the order sent
          dups       \* deliveries repeated so far

device == <<session, media, fresh>>
vars == <<network, device, peer, toDevice, toPeer, dups>>

Idle == [state |-> "idle", direction |-> "none", call |-> NoCall]
Msg(kind, c) == [kind |-> kind, call |-> c]

Init ==
  /\ network \in Networks
  /\ session = Idle /\ media = NoCall
  /\ fresh = network.outgoing
  /\ peer = [c \in Calls |-> "none"]
  /\ toDevice = <<>> /\ toPeer = <<>>
  /\ dups = 0

Asking == session.state \in {"calling", "ringing"}
Enter(state) == session' = [session EXCEPT !.state = state]
Send(kinds) == toPeer' = toPeer \o [i \in DOMAIN kinds |-> Msg(kinds[i], session.call)]
SendNothing == UNCHANGED toPeer

\* set_call_state(IDLE): the session is cleared, the callback detaches media
End == session' = Idle /\ media' = NoCall

\* set_call_state(ESTABLISHED): the callbacks attach media
Establish == Enter("established") /\ media' = session.call

-----------------------------------------------------------------------------
\* What the daemon does by itself

\* sip_calling_make_call; a request that cannot be sent leaves it idle
MakeCall(c) ==
  /\ session.state = "idle" /\ c \in fresh
  /\ session' = [state |-> "calling", direction |-> "outgoing", call |-> c]
  /\ fresh' = fresh \ {c}
  /\ toPeer' = Append(toPeer, Msg("INVITE", c))
  /\ UNCHANGED <<network, media, peer, toDevice, dups>>

\* Mutant: the timeout looks at CALLING only
CheckTimeoutCalling ==
  /\ session.state = "calling"
  /\ Send(<<"CANCEL">>)
  /\ End
  /\ UNCHANGED <<network, fresh, peer, toDevice, dups>>

\* Mutant: the timeout looks at every call
CheckTimeoutAny ==
  /\ session.state # "idle"
  /\ Send(<<"CANCEL">>)
  /\ End
  /\ UNCHANGED <<network, fresh, peer, toDevice, dups>>

\* sip_calling_check_timeout, from the main loop
CheckTimeout ==
  /\ Asking
  /\ Send(<<"CANCEL">>)
  /\ End
  /\ UNCHANGED <<network, fresh, peer, toDevice, dups>>

\* Mutant: the session is dropped without a word
TerminateSilently ==
  /\ session.state # "idle"
  /\ network.cutIncoming \/ session.state # "incoming"
  /\ SendNothing
  /\ End
  /\ UNCHANGED <<network, fresh, peer, toDevice, dups>>

\* sip_calling_terminate_call: HANG_UP, the handset, a door release
Terminate ==
  /\ session.state # "idle"
  /\ network.cutIncoming \/ session.state # "incoming"
  /\ CASE session.state = "established" -> Send(<<"BYE", "BYE", "BYE">>)
       [] Asking -> Send(<<"CANCEL">>)
       [] OTHER -> SendNothing
  /\ End
  /\ UNCHANGED <<network, fresh, peer, toDevice, dups>>

-----------------------------------------------------------------------------
\* What it does with a message

Mine(m) == session.state # "idle" /\ session.call = m.call
Ignore == UNCHANGED <<session, media, toPeer>>

\* Mutant: the call that gives way is replaced without set_call_state(IDLE)
OnInviteKeepsMedia(m) ==
  IF session.state = "idle" \/ Asking
  THEN /\ session' = [state |-> "incoming", direction |-> "incoming", call |-> m.call]
       /\ toPeer' = Append(toPeer, Msg("200", m.call))
       /\ UNCHANGED media
  ELSE Ignore

\* A retransmission is answered again; an outgoing call that is not answered
\* yet gives way; any other call makes the caller see 486, or 500 when the
\* 200 could not be sent
OnInvite(m) ==
  LET cancel == IF Asking THEN <<Msg("CANCEL", session.call)>> ELSE <<>>
  IN
  \/ /\ Mine(m)
     /\ toPeer' = Append(toPeer, Msg("200", m.call))
     /\ UNCHANGED <<session, media>>
  \/ /\ session.state = "idle" \/ Asking
     /\ session' = [state |-> "incoming", direction |-> "incoming", call |-> m.call]
     /\ media' = NoCall
     /\ toPeer' = Append(toPeer \o cancel, Msg("200", m.call))
  \/ /\ session.state = "idle" \/ Asking
     /\ End
     /\ toPeer' = Append(toPeer \o cancel, Msg("failure", m.call))
  \/ /\ ~Mine(m) /\ session.state \in {"incoming", "established"}
     /\ toPeer' = Append(toPeer, Msg("failure", m.call))
     /\ UNCHANGED <<session, media>>

OnAck(m) ==
  IF Mine(m) /\ session.state = "incoming" THEN Establish /\ SendNothing
  ELSE Ignore

\* Mutant: any BYE ends the session
OnByeAny(m) == IF session.state # "idle" THEN End /\ SendNothing ELSE Ignore

OnBye(m) == IF Mine(m) THEN End /\ SendNothing ELSE Ignore

\* The Call-ID is not looked at
OnCancel(m) ==
  IF session.state = "incoming" THEN End /\ SendNothing ELSE Ignore

\* 180 is not refused in an established call; a 200 is always acknowledged
OnResponse(m) ==
  IF Mine(m) /\ session.direction = "outgoing"
  THEN CASE m.kind = "200" -> Establish /\ Send(<<"ACK">>)
         [] m.kind = "180" -> Enter("ringing") /\ UNCHANGED media /\ SendNothing
         [] m.kind = "failure" -> End /\ SendNothing
  ELSE Ignore

\* The message at i is delivered, perhaps not for the last time: the first,
\* or any if they may overtake each other
Take(queue, i) ==
  /\ i = 1 \/ network.reorder
  /\ \/ queue' = RemoveAt(queue, i) /\ UNCHANGED dups
     \/ dups < network.dups /\ dups' = dups + 1 /\ UNCHANGED queue

Receive ==
  \E i \in DOMAIN toDevice :
    LET m == toDevice[i]
    IN /\ Take(toDevice, i)
       /\ CASE m.kind = "INVITE" -> OnInvite(m)
            [] m.kind = "ACK" -> OnAck(m)
            [] m.kind = "BYE" -> OnBye(m)
            [] m.kind = "CANCEL" -> OnCancel(m)
            [] OTHER -> OnResponse(m)
       /\ UNCHANGED <<network, fresh, peer>>

-----------------------------------------------------------------------------
\* The peer

PeerSays(c, state, kinds) ==
  /\ peer' = [peer EXCEPT ![c] = state]
  /\ toDevice' = toDevice \o [i \in DOMAIN kinds |-> Msg(kinds[i], c)]

InFlight(c) ==
  \E q \in {toDevice, toPeer} : \E i \in DOMAIN q : q[i].call = c

\* Its user, and its timers once nothing more can arrive
PeerActs ==
  /\ \E c \in Calls :
       \/ /\ c \in network.incoming /\ peer[c] = "none"
          /\ PeerSays(c, "inviting", <<"INVITE">>)
       \/ /\ peer[c] = "inviting" /\ network.cancels
          /\ PeerSays(c, "cancelling", <<"CANCEL">>)
       \/ peer[c] = "ringing" /\ PeerSays(c, "answered", <<"200">>)
       \/ peer[c] = "ringing" /\ PeerSays(c, "ended", <<"failure">>)
       \/ peer[c] = "confirmed" /\ PeerSays(c, "ended", <<"BYE">>)
       \/ peer[c] = "answered" /\ ~InFlight(c) /\ PeerSays(c, "ended", <<"BYE">>)
       \/ /\ peer[c] \in {"inviting", "cancelling"} /\ ~InFlight(c)
          /\ PeerSays(c, "ended", <<>>)
  /\ UNCHANGED <<network, device, toPeer, dups>>

PeerHandles(m) ==
  LET c == m.call
      s == peer[c]
  IN CASE m.kind = "INVITE" /\ s = "none" -> PeerSays(c, "ringing", <<"180">>)
       [] m.kind = "ACK" /\ s = "answered" -> PeerSays(c, "confirmed", <<>>)
       [] m.kind = "CANCEL" /\ s = "ringing" -> PeerSays(c, "ended", <<"failure">>)
       [] m.kind = "BYE" /\ s \in {"answered", "confirmed"} -> PeerSays(c, "ended", <<>>)
       [] m.kind = "200" /\ s \in {"inviting", "confirmed"} ->
            PeerSays(c, "confirmed", <<"ACK">>)
       [] m.kind = "200" /\ s = "cancelling" -> PeerSays(c, "ended", <<"ACK", "BYE">>)
       [] m.kind = "failure" /\ s \in {"inviting", "cancelling"} ->
            PeerSays(c, "ended", <<>>)
       [] OTHER -> UNCHANGED <<peer, toDevice>>

PeerReceives ==
  \E i \in DOMAIN toPeer :
    /\ Take(toPeer, i)
    /\ PeerHandles(toPeer[i])
    /\ UNCHANGED <<network, device>>

Lose ==
  /\ network.loss
  /\ \/ toDevice # <<>> /\ toDevice' = Tail(toDevice) /\ UNCHANGED toPeer
     \/ toPeer # <<>> /\ toPeer' = Tail(toPeer) /\ UNCHANGED toDevice
  /\ UNCHANGED <<network, device, peer, dups>>

-----------------------------------------------------------------------------

Next ==
  \/ \E c \in Outgoing : MakeCall(c)
  \/ CheckTimeout
  \/ Terminate
  \/ Receive
  \/ PeerActs
  \/ PeerReceives
  \/ Lose

Spec == Init /\ [][Next]_vars

\* The PJSIP thread and the main loop run, and so does the peer
FairSpec ==
  /\ Spec
  /\ WF_vars(Receive) /\ WF_vars(PeerReceives)
  /\ WF_vars(CheckTimeout)

-----------------------------------------------------------------------------

\* RTP is attached to the call of the session and to no other, also after
\* messages that were late, repeated or lost: a call that gives way, is
\* refused or ends takes its media with it, and an established one has it.
MediaFollowsCall ==
  /\ media # NoCall => /\ media = session.call
                       /\ session.state \in {"ringing", "established"}
  /\ session.state = "established" => media = session.call

\* A call with media never ends without a word: the peer has said so in a
\* message of this call, or is told so.
MediaEndsKnowingly ==
  [][media # NoCall /\ media' # media =>
       \/ \E i \in DOMAIN toDevice :
            toDevice[i].call = media /\ toDevice[i].kind \in {"BYE", "failure"}
       \/ \E i \in Len(toPeer) + 1 .. Len(toPeer') :
            toPeer'[i].call = media /\ toPeer'[i].kind \in {"BYE", "CANCEL"}]_vars

\* The first message sent is the first to arrive, every message arrives once,
\* nobody hangs up a call of which the ACK is still to come, and nobody else's
\* CANCEL does (OnCancel takes it for the call in INCOMING, whose caller then
\* has a call that the daemon has not): no caller gives up, or there is one.
Reliable ==
  /\ ~network.reorder /\ ~network.loss /\ network.dups = 0
  /\ ~network.cutIncoming
  /\ ~network.cancels \/ \A c, d \in network.incoming : c = d

\* Once every message has arrived both ends agree on which call is up, also
\* when an answer crossed a CANCEL or an INVITE.
DialogsAgree ==
  Reliable /\ toDevice = <<>> /\ toPeer = <<>> =>
    \A c \in Calls :
      peer[c] = "confirmed" <=> (session.state = "established" /\ session.call = c)

\* No attempt in either direction stays half open.  (An incoming call whose
\* ACK is lost does: the 200 is sent once and the timeout is for outgoing
\* calls.)
AttemptsEnd ==
  Reliable /\ session.state \in {"calling", "ringing", "incoming"}
    ~> session.state \in {"idle", "established"}

\* "The configurable outgoing timeout SHALL bound ringing/call-attempt state"
\* (openspec sip-calling): as long as messages keep their order it does not
\* end a call that has been answered.  (A 180 that is overtaken by the 200
\* puts the answered call back under the timeout.)
TimeoutSparesAnswered ==
  [][~network.reorder /\ CheckTimeout => media = NoCall]_vars

\* No call with media ends without cause: neither unknown to its peer nor by
\* the timeout of an attempt that was answered.
CallsEndForCause == MediaEndsKnowingly /\ TimeoutSparesAnswered
=============================================================================
