----------------------------- MODULE CallTrace -----------------------------
(***************************************************************************)
(* How the events of the call session reach the broker: call_trace_start   *)
(* and call_trace_record of sip_media.c, called from the PJSIP, serial,    *)
(* ring-timeout and MQTT threads, and the publishing side of mqtt.c.       *)
(*                                                                         *)
(* The session mutex covers the session only.  What follows - overwriting  *)
(* the cached call id, building the packet from that cache, sending it     *)
(* under io_mutex, sending the event - is a sequence of steps that the     *)
(* threads interleave, with each other and with the republication the MQTT *)
(* thread makes from the cache after it has connected.                     *)
(***************************************************************************)
EXTENDS CallSession, Sequences

CONSTANTS Thread,   \* threads that report call events
          Mqtt,     \* the MQTT client thread, one of them
          Nobody    \* none of them

ASSUME ThreadAssumption == Mqtt \in Thread /\ Nobody \notin Thread

VARIABLES todo,      \* per thread, what it still has to publish
          at,        \* per thread, how far it is with the first of these
          packet,    \* per thread, the call/id payload it has built
          cachedId,  \* mqtt_state.call_id
          writer,    \* the thread that began to overwrite it last
          link,      \* the broker connection: "dead" is broken, not noticed
          brokerId,  \* retained wibox/<host>/call/id
          mixed      \* publications of the id have overlapped (history)

pubVars == <<todo, at, packet>>
cacheVars == <<cachedId, writer>>
vars == <<sessionVars, pubVars, cacheVars, link, brokerId, mixed>>

Ids == {NoId} \cup CallIds             \* NoId is published as "none"
Torn == -1                             \* a mixture of two writes of an id
Steps == {"start", "writing", "build", "send"}

IdJob(id) == [op |-> "id", id |-> id]
RepublishJob == [op |-> "republish", id |-> NoId]
EventJob == [op |-> "event", id |-> NoId]

ChangesId(t) == \E i \in DOMAIN todo[t] : todo[t][i].op # "event"
Busy(t) == todo[t] # <<>>

\* mqtt_state.connected, which stays set until the MQTT thread notices
Connected == link # "down"

Init ==
  /\ SessionInit
  /\ todo = [t \in Thread |-> <<>>]
  /\ at = [t \in Thread |-> "start"]
  /\ packet = [t \in Thread |-> NoId]
  /\ cachedId = NoId /\ writer = Nobody
  /\ link = "down"
  /\ brokerId \in Ids                 \* retained since an earlier run
  /\ mixed = FALSE

\* The MQTT thread reports events only from its receive loop
Free(t) == ~Busy(t) /\ (t = Mqtt => Connected)

\* An id publication that starts alone settles the board again; one that
\* starts while another is under way makes its outcome depend on the order.
NoteOverlap(t) == mixed' = \E u \in Thread \ {t} : ChangesId(u)

\* call_trace_start: a new session publishes its id, then its first event
TraceStart(t) ==
  /\ Free(t)
  /\ Start
  /\ todo' = [todo EXCEPT ![t] = <<IdJob(session'.id), EventJob>>]
  /\ NoteOverlap(t)
  /\ UNCHANGED <<at, packet, cacheVars, link, brokerId>>

\* call_trace_record: an event, and for a terminal one the id "none" after it
TraceRecord(t, terminal) ==
  /\ Free(t)
  /\ Record(terminal)
  /\ todo' = [todo EXCEPT ![t] =
                IF terminal THEN <<EventJob, IdJob(NoId)>>
                ELSE <<EventJob>>]
  /\ IF terminal THEN NoteOverlap(t) ELSE UNCHANGED mixed
  /\ UNCHANGED <<at, packet, cacheVars, link, brokerId>>

Finish(t) ==
  /\ todo' = [todo EXCEPT ![t] = Tail(@)]
  /\ at' = [at EXCEPT ![t] = "start"]

Goto(t, step) == at' = [at EXCEPT ![t] = step] /\ UNCHANGED todo

\* mqtt_publish_call_id overwrites the shared cache without a lock ...
BeginCache(t) ==
  /\ Busy(t) /\ Head(todo[t]).op = "id" /\ at[t] = "start"
  /\ writer' = t
  /\ Goto(t, "writing")
  /\ UNCHANGED <<sessionVars, packet, cachedId, link, brokerId, mixed>>

\* ... and if another thread wrote in between, may leave parts of both
EndCache(t) ==
  /\ Busy(t) /\ at[t] = "writing"
  /\ cachedId' \in IF writer = t THEN {Head(todo[t]).id}
                   ELSE {Head(todo[t]).id, Torn}
  /\ writer' = Nobody
  /\ Goto(t, "build")
  /\ UNCHANGED <<sessionVars, packet, link, brokerId, mixed>>

\* publish_suffix: nothing is sent while disconnected, and the payload is
\* read from the cache - perhaps half overwritten - not from the caller
BuildId(t) ==
  /\ Busy(t)
  /\ \/ at[t] = "build"
     \/ at[t] = "start" /\ Head(todo[t]).op = "republish"
  /\ IF Connected
     THEN /\ \E id \in {cachedId} \cup
                      {Torn : u \in {w \in Thread : at[w] = "writing"}} :
               packet' = [packet EXCEPT ![t] = id]
          /\ Goto(t, "send")
     ELSE Finish(t) /\ UNCHANGED packet
  /\ UNCHANGED <<sessionVars, cacheVars, link, brokerId, mixed>>

SendId(t) ==
  /\ Busy(t) /\ at[t] = "send"
  /\ brokerId' = IF link = "up" THEN packet[t] ELSE brokerId
  /\ packet' = [packet EXCEPT ![t] = NoId]
  /\ Finish(t)
  /\ UNCHANGED <<sessionVars, cacheVars, link, mixed>>

\* mqtt_publish_call_event: not retained and built from the caller's own
\* event, so all it does to the state here is take time
SendEvent(t) ==
  /\ Busy(t) /\ Head(todo[t]).op = "event"
  /\ Finish(t)
  /\ UNCHANGED <<sessionVars, packet, cacheVars, link, brokerId, mixed>>

\* Mutant: the call id is not republished after a reconnection
ConnectSilently ==
  /\ link = "down" /\ ~Busy(Mqtt)
  /\ link' = "up"
  /\ UNCHANGED <<sessionVars, pubVars, cacheVars, brokerId, mixed>>

\* mqtt_thread_func: connect, subscribe, then republish from the cache
Connect ==
  /\ link = "down" /\ ~Busy(Mqtt)
  /\ link' = "up"
  /\ todo' = [todo EXCEPT ![Mqtt] = <<RepublishJob>>]
  /\ mixed' = (mixed \/ \E u \in Thread : ChangesId(u))
  /\ UNCHANGED <<sessionVars, at, packet, cacheVars, brokerId>>

\* The connection breaks: what is sent from now on is lost ...
Break ==
  /\ link = "up"
  /\ link' = "dead"
  /\ UNCHANGED <<sessionVars, pubVars, cacheVars, brokerId, mixed>>

\* ... until the receive loop fails and the MQTT thread closes the socket
NoticeBreak ==
  /\ link = "dead" /\ ~Busy(Mqtt)
  /\ link' = "down"
  /\ UNCHANGED <<sessionVars, pubVars, cacheVars, brokerId, mixed>>

ThreadStep(t) ==
  \/ TraceStart(t)
  \/ \E terminal \in BOOLEAN : TraceRecord(t, terminal)
  \/ BeginCache(t)
  \/ EndCache(t)
  \/ BuildId(t)
  \/ SendId(t)
  \/ SendEvent(t)

Next ==
  \/ \E t \in Thread : ThreadStep(t)
  \/ Connect
  \/ Break
  \/ NoticeBreak

Spec == Init /\ [][Next]_vars

-----------------------------------------------------------------------------

Settled == link = "up" /\ \A t \in Thread : ~Busy(t)

\* "The daemon SHALL retain the active call ID ... using none when no call
\* session is active" (openspec, call-lifecycle).  What the code keeps: once
\* nobody is publishing, the cache, and if the broker is reached the retained
\* id, are those of the session, through lost connections and republications,
\* whenever no other publication of an id overlapped the last one.  Two that
\* overlap may leave the older id.
RetainedIdCurrentUnlessMixed ==
  ~mixed => /\ Settled => brokerId = session.id
            /\ (\A t \in Thread : ~Busy(t)) => cachedId = session.id
=============================================================================
