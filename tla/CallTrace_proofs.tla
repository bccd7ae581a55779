--------------------------- MODULE CallTrace_proofs ----------------------------
(***************************************************************************)
(* Proofs about the call session and the stream of its events:             *)
(* CallSession, for every width of the counter and every bound on the      *)
(* events of a call, and CallTrace, for any number of reporting threads.   *)
(***************************************************************************)
EXTENDS CallTrace, TLAPS

-----------------------------------------------------------------------------
(* Proofs about CallSession, for every width of the counter and every      *)
(* bound on the events of a call.                                          *)

\* The name of the next call is never empty and never the name of the call
\* before it: the skip over 0 in call_session_start keeps both.
LEMMA NextCallFresh ==
  ASSUME NEW n \in {NoId} \cup CallIds
  PROVE  NextCall(n) \in CallIds /\ NextCall(n) # n
BY ModAssumption DEF NextCall, CallIds, NoId

\* The session always matches the last event (SessionMatchesLast); this is
\* inductive together with the types.
THEOREM SessionInvariant == SessionSpec => []SessionInv
<1>1. SessionInit => SessionInv
  BY ModAssumption
  DEF SessionInit, SessionInv, SessionTypeOK, SessionMatchesLast, NoSession,
      NoEvent, NoId, CallIds
<1>2. SessionInv /\ [SessionNext]_sessionVars => SessionInv'
  <2> SUFFICES ASSUME SessionInv, [SessionNext]_sessionVars
               PROVE  SessionInv'
    OBVIOUS
  <2> USE DEF SessionInv, SessionTypeOK, SessionMatchesLast
  <2>1. CASE Start
    <3>1. /\ nextCall' \in CallIds
          /\ nextCall' = NextCall(nextCall)
      BY <2>1, NextCallFresh DEF Start
    <3> QED
      BY <2>1, <3>1 DEF Start, Event, NoId, CallIds
  <2>2. ASSUME NEW terminal \in BOOLEAN, Record(terminal)
        PROVE  SessionInv'
    <3>1. CASE terminal = TRUE
      BY <2>2, <3>1 DEF Record, Event, NoSession, NoId, CallIds
    <3>2. CASE terminal = FALSE
      <4>1. /\ session.active
            /\ last' = Event(session.id, session.seq + 1, FALSE)
            /\ session' = [session EXCEPT !.seq = @ + 1]
            /\ nextCall' = nextCall
        BY <2>2, <3>2, Zenon DEF Record
      <4> QED
        BY <4>1 DEF Event, NoId, CallIds
    <3> QED
      BY <3>1, <3>2
  <2>3. CASE UNCHANGED sessionVars
    BY <2>3 DEF sessionVars, Event
  <2> QED
    BY <2>1, <2>2, <2>3 DEF SessionNext
<1> QED
  BY <1>1, <1>2, PTL DEF SessionSpec

\* The numbering and naming of events that consumers rely on (EventStream),
\* whatever the width of next_call.
THEOREM EventStreamHolds == SessionSpec => EventStream
<1>1. SessionInv /\ [SessionNext]_sessionVars
      => [last' # last => EventFollows(last, last')]_sessionVars
  <2> SUFFICES ASSUME SessionInv, SessionNext
               PROVE  EventFollows(last, last')
    BY DEF sessionVars
  <2> USE DEF SessionInv, SessionTypeOK, SessionMatchesLast
  <2>1. CASE Start
    <3>1. /\ nextCall' \in CallIds
          /\ nextCall' # nextCall
      BY <2>1, NextCallFresh DEF Start
    <3> QED
      BY <2>1, <3>1 DEF Start, Event, EventFollows, NoId, CallIds
  <2>2. ASSUME NEW terminal \in BOOLEAN, Record(terminal)
        PROVE  EventFollows(last, last')
    BY <2>2 DEF Record, Event, EventFollows
  <2> QED
    BY <2>1, <2>2 DEF SessionNext
<1> QED
  BY <1>1, SessionInvariant, PTL DEF SessionSpec, EventStream

-----------------------------------------------------------------------------
(* Proofs about CallTrace, for any number of reporting threads: the        *)
(* threads, the cache and the broker leave the session what CallSession    *)
(* says, and the id the broker retains is that of the session whenever no  *)
(* two publications of an id overlapped.                                   *)

\* What a thread may have to publish.
Jobs == {<<>>, <<EventJob>>, <<RepublishJob>>}
          \cup { <<IdJob(id)>> : id \in Ids }
          \cup { <<IdJob(id), EventJob>> : id \in Ids }
          \cup { <<EventJob, IdJob(id)>> : id \in Ids }

Changes(jobs) == \E i \in DOMAIN jobs : jobs[i].op # "event"
IdsAre(jobs, id) == \A i \in DOMAIN jobs : jobs[i].op = "id" => jobs[i].id = id
Republishes(jobs) == \E i \in DOMAIN jobs : jobs[i].op = "republish"

TraceTypeOK ==
  /\ todo \in [Thread -> Jobs] /\ at \in [Thread -> Steps]
  /\ packet \in [Thread -> Ids \cup {Torn}] /\ cachedId \in Ids \cup {Torn}

\* How far a thread is fits what it is doing.
InStep ==
  \A t \in Thread :
    /\ at[t] \in {"writing", "build"} => Busy(t) /\ Head(todo[t]).op = "id"
    /\ at[t] = "send" => Busy(t) /\ Head(todo[t]).op \in {"id", "republish"}

\* Publications that do not overlap are made by one thread at a time.
Alone ==
  ~mixed => \A t, u \in Thread : Changes(todo[t]) /\ Changes(todo[u]) => t = u

\* What thread t still has to do ends with the id of the session at the broker.
Underway(t) ==
  /\ at[t] \in {"start", "writing"} => IdsAre(todo[t], session.id)
  /\ at[t] = "start" /\ Republishes(todo[t]) => cachedId = session.id
  /\ at[t] = "writing" => writer = t
  /\ at[t] \in {"build", "send"} => cachedId = session.id
  /\ at[t] = "send" => packet[t] = session.id

Current == cachedId = session.id /\ (link = "up" => brokerId = session.id)

Followed ==
  ~mixed => /\ \A t \in Thread : Changes(todo[t]) => Underway(t)
            /\ (\A t \in Thread : ~Changes(todo[t])) => Current

TraceInv == TraceTypeOK /\ InStep /\ Alone /\ Followed

-----------------------------------------------------------------------------

\* Every step of the threads and of the connection is a step of the session,
\* or leaves it alone.
LEMMA StepsOfSession == [Next]_vars => [SessionNext]_sessionVars
<1> SUFFICES ASSUME Next \/ UNCHANGED vars PROVE SessionNext \/ UNCHANGED sessionVars
  OBVIOUS
<1>1. CASE UNCHANGED vars
  BY <1>1 DEF vars
<1>2. ASSUME NEW t \in Thread, ThreadStep(t) PROVE SessionNext \/ UNCHANGED sessionVars
  <2>1. CASE TraceStart(t)
    BY <2>1, Zenon DEF TraceStart, SessionNext
  <2>2. CASE \E terminal \in BOOLEAN : TraceRecord(t, terminal)
    BY <2>2, Zenon DEF TraceRecord, SessionNext
  <2>3. CASE BeginCache(t) \/ EndCache(t) \/ BuildId(t) \/ SendId(t) \/ SendEvent(t)
    BY <2>3, Zenon DEF BeginCache, EndCache, BuildId, SendId, SendEvent
  <2> QED
    BY <1>2, <2>1, <2>2, <2>3, Zenon DEF ThreadStep
<1>3. CASE Connect \/ Break \/ NoticeBreak
  BY <1>3, Zenon DEF Connect, Break, NoticeBreak
<1> QED
  BY <1>1, <1>2, <1>3, Zenon DEF Next

\* The composed system implements the session: what holds of the session alone
\* holds of it among its threads.
THEOREM TraceKeepsSession == Spec => SessionSpec
BY StepsOfSession, PTL DEF Spec, Init, SessionSpec

\* The numbering and naming of events that consumers rely on (EventStream), with
\* every thread that reports events and every break of the connection.
THEOREM TraceKeepsStream == Spec => EventStream
BY TraceKeepsSession, EventStreamHolds, PTL

-----------------------------------------------------------------------------

\* What finishing the first job of a list leaves.
LEMMA JobFacts ==
  ASSUME NEW jobs \in Jobs, jobs # <<>>
  PROVE  /\ Tail(jobs) \in Jobs
         /\ Head(jobs).op \in {"id", "republish"}
              => Changes(jobs) /\ ~Changes(Tail(jobs))
         /\ Head(jobs).op = "event"
              => /\ Changes(Tail(jobs)) <=> Changes(jobs)
                 /\ \A id \in Ids : IdsAre(jobs, id) => IdsAre(Tail(jobs), id)
                 /\ ~Republishes(Tail(jobs))
         /\ Head(jobs).op = "id"
              => /\ ~Republishes(jobs) /\ Head(jobs).id \in Ids
                 /\ \A id \in Ids : IdsAre(jobs, id) => Head(jobs).id = id
         /\ Head(jobs).op = "republish" => Republishes(jobs)
<1> USE DEF Changes, IdsAre, Republishes, EventJob, RepublishJob, IdJob
<1>1. CASE jobs = <<EventJob>>
  BY <1>1 DEF Jobs
<1>2. CASE jobs = <<RepublishJob>>
  BY <1>2 DEF Jobs
<1>3. CASE \E id \in Ids : jobs = <<IdJob(id)>>
  BY <1>3 DEF Jobs
<1>4. CASE \E id \in Ids : jobs = <<IdJob(id), EventJob>>
  BY <1>4 DEF Jobs
<1>5. CASE \E id \in Ids : jobs = <<EventJob, IdJob(id)>>
  BY <1>5 DEF Jobs
<1> QED
  BY <1>1, <1>2, <1>3, <1>4, <1>5 DEF Jobs

LEMMA TraceStarts == Init => TraceInv
<1> SUFFICES ASSUME Init PROVE TraceInv
  OBVIOUS
<1>1. TraceTypeOK /\ InStep
  BY DEF Init, TraceTypeOK, InStep, Jobs, Ids, Steps
<1>2. /\ cachedId = session.id /\ link # "up"
      /\ \A t \in Thread : ~Changes(todo[t])
  BY DEF Init, SessionInit, NoSession, Changes
<1> QED
  BY <1>1, <1>2 DEF TraceInv, Alone, Followed, Current

\* A thread that publishes nothing begins to publish an id, that of the session.
LEMMA BeginKeeps ==
  ASSUME TraceInv, NEW t \in Thread, todo[t] = <<>>,
         NEW jobs \in Jobs, todo' = [todo EXCEPT ![t] = jobs],
         Changes(jobs), ~Republishes(jobs), IdsAre(jobs, session'.id),
         NoteOverlap(t), UNCHANGED <<at, packet, cacheVars>>
  PROVE  TraceInv'
<1> USE DEF TraceInv
<1>1. TraceTypeOK'
  BY DEF TraceTypeOK, cacheVars
<1>2. at[t] = "start"
  BY DEF InStep, Busy, TraceTypeOK, Steps
<1>3. \A u \in Thread : u # t => todo'[u] = todo[u]
  BY DEF TraceTypeOK
<1>4. todo'[t] = jobs
  BY DEF TraceTypeOK
<1>5. InStep'
  BY <1>2, <1>3, <1>4 DEF InStep, Busy
<1>6. ~mixed' => \A u \in Thread : u # t => ~Changes(todo'[u])
  BY <1>3 DEF NoteOverlap, ChangesId, Changes
<1>7. Alone'
  BY <1>6 DEF Alone
<1>8. Underway(t)'
  BY <1>2, <1>4 DEF Underway
<1>9. Followed'
  BY <1>4, <1>6, <1>8 DEF Followed
<1> QED
  BY <1>1, <1>5, <1>7, <1>9

\* A thread reports an event that changes no id.
LEMMA ReportKeeps ==
  ASSUME TraceInv, NEW t \in Thread, todo[t] = <<>>,
         todo' = [todo EXCEPT ![t] = <<EventJob>>], session'.id = session.id,
         UNCHANGED <<at, packet, cacheVars, link, brokerId, mixed>>
  PROVE  TraceInv'
<1> USE DEF TraceInv
<1>1. TraceTypeOK'
  BY DEF TraceTypeOK, cacheVars, Jobs
<1>2. at[t] = "start"
  BY DEF InStep, Busy, TraceTypeOK, Steps
<1>3. \A u \in Thread : u # t => todo'[u] = todo[u]
  BY DEF TraceTypeOK
<1>4. todo'[t] = <<EventJob>> /\ ~Changes(todo'[t]) /\ ~Changes(todo[t])
  BY DEF TraceTypeOK, EventJob, Changes
<1>5. InStep'
  BY <1>2, <1>3, <1>4 DEF InStep, Busy
<1>6. Alone'
  BY <1>3, <1>4 DEF Alone
<1>7. \A u \in Thread : Changes(todo'[u]) => Changes(todo[u]) /\ u # t
  BY <1>3, <1>4
<1>8. \A u \in Thread : u # t /\ Underway(u) => Underway(u)'
  BY <1>3 DEF Underway, cacheVars
<1>9. (\A u \in Thread : ~Changes(todo'[u])) => \A u \in Thread : ~Changes(todo[u])
  BY <1>3, <1>4
<1>10. Current => Current'
  BY DEF Current, cacheVars
<1>11. Followed'
  BY <1>7, <1>8, <1>9, <1>10 DEF Followed
<1> QED
  BY <1>1, <1>5, <1>6, <1>11

LEMMA TraceCallKeeps ==
  ASSUME TraceInv, SessionInv', NEW t \in Thread, TraceStart(t) PROVE TraceInv'
<1>1. session'.id \in Ids
  BY DEF SessionInv, SessionTypeOK, Ids
<1> DEFINE jobs == <<IdJob(session'.id), EventJob>>
<1>2. jobs \in Jobs
  BY <1>1 DEF Jobs
<1>3. Changes(jobs) /\ ~Republishes(jobs) /\ IdsAre(jobs, session'.id)
  BY DEF Changes, Republishes, IdsAre, IdJob, EventJob
<1> HIDE DEF jobs
<1> QED
  BY <1>2, <1>3, BeginKeeps DEF TraceStart, Free, Busy, jobs

LEMMA TraceRecordKeeps ==
  ASSUME TraceInv, SessionInv, NEW t \in Thread, NEW terminal \in BOOLEAN,
         TraceRecord(t, terminal)
  PROVE  TraceInv'
<1>1. CASE terminal
  <2> DEFINE jobs == <<EventJob, IdJob(NoId)>>
  <2>1. jobs \in Jobs
    BY DEF Jobs, Ids
  <2>2. Changes(jobs) /\ ~Republishes(jobs) /\ IdsAre(jobs, NoId)
    BY DEF Changes, Republishes, IdsAre, IdJob, EventJob
  <2>3. session'.id = NoId
    BY <1>1 DEF TraceRecord, Record, NoSession
  <2> HIDE DEF jobs
  <2> QED
    BY <1>1, <2>1, <2>2, <2>3, BeginKeeps DEF TraceRecord, Free, Busy, jobs
<1>2. CASE ~terminal
  <2>1. session'.id = session.id
    BY <1>2 DEF TraceRecord, Record, SessionInv, SessionTypeOK
  <2> QED
    BY <1>2, <2>1, ReportKeeps DEF TraceRecord, Free, Busy
<1> QED
  BY <1>1, <1>2

\* A thread that is past the start of a job publishes an id.
LEMMA PastStart ==
  ASSUME TraceTypeOK, InStep, NEW t \in Thread,
         at[t] # "start" \/ (Busy(t) /\ Head(todo[t]).op \in {"id", "republish"})
  PROVE  /\ todo[t] \in Jobs /\ todo[t] # <<>>
         /\ Changes(todo[t]) /\ ~Changes(Tail(todo[t])) /\ Tail(todo[t]) \in Jobs
<1>1. todo[t] \in Jobs /\ Busy(t) /\ Head(todo[t]).op \in {"id", "republish"}
  BY DEF InStep, TraceTypeOK, Steps
<1> QED
  BY <1>1, JobFacts DEF Busy

\* Nothing but thread t's progress changes.
LEMMA OthersKeep ==
  ASSUME TraceInv, NEW t \in Thread, UNCHANGED mixed, session'.id = session.id,
         \A u \in Thread : u # t => /\ todo'[u] = todo[u] /\ at'[u] = at[u]
                                    /\ packet'[u] = packet[u],
         Changes(todo'[t]) => Changes(todo[t]),
         Changes(todo[t]) /\ ~mixed /\ Changes(todo'[t]) => Underway(t)',
         Changes(todo[t]) /\ ~mixed /\ ~Changes(todo'[t]) => Current',
         ~Changes(todo[t]) => UNCHANGED <<cacheVars, link, brokerId>>
  PROVE  (Alone /\ Followed)'
<1> USE DEF TraceInv
<1>1. Alone'
  BY DEF Alone
<1>2. CASE Changes(todo[t])
  <2>1. ~mixed => \A u \in Thread : u # t => ~Changes(todo'[u])
    BY <1>2 DEF Alone
  <2> QED
    BY <1>1, <1>2, <2>1 DEF Followed
<1>3. CASE ~Changes(todo[t])
  <2>1. \A u \in Thread : u # t /\ Underway(u) => Underway(u)'
    BY <1>3 DEF Underway, cacheVars
  <2>2. Current => Current'
    BY <1>3 DEF Current, cacheVars
  <2> QED
    BY <1>1, <1>3, <2>1, <2>2 DEF Followed
<1> QED
  BY <1>2, <1>3

LEMMA BeginCacheKeeps ==
  ASSUME TraceInv, NEW t \in Thread, BeginCache(t) PROVE TraceInv'
<1> USE DEF TraceInv, BeginCache, Goto
<1>1. (TraceTypeOK /\ InStep)'
  BY DEF TraceTypeOK, InStep, Busy, Steps
<1>2. Changes(todo[t]) /\ todo[t] \in Jobs
  BY PastStart
<1>3. ~mixed => Underway(t)'
  BY <1>2 DEF Followed, Underway, TraceTypeOK, sessionVars
<1>4. \A u \in Thread : u # t => at'[u] = at[u]
  BY DEF TraceTypeOK
<1>5. (Alone /\ Followed)'
  BY <1>2, <1>3, <1>4, OthersKeep DEF sessionVars
<1> QED
  BY <1>1, <1>5

LEMMA EndCacheKeeps ==
  ASSUME TraceInv, SessionInv, NEW t \in Thread, EndCache(t) PROVE TraceInv'
<1> USE DEF TraceInv, EndCache, Goto
<1>1. /\ todo[t] \in Jobs /\ todo[t] # <<>> /\ Changes(todo[t])
      /\ Head(todo[t]).op = "id" /\ Head(todo[t]).id \in Ids
      /\ ~Republishes(todo[t])
  BY PastStart, JobFacts DEF InStep, TraceTypeOK
<1>2. (TraceTypeOK /\ InStep)'
  BY <1>1 DEF TraceTypeOK, InStep, Busy, Steps
<1>3. session.id \in Ids
  BY DEF SessionInv, SessionTypeOK, Ids
<1>4. ~mixed => Head(todo[t]).id = session.id /\ writer = t
  BY <1>1, <1>3, JobFacts DEF Followed, Underway
<1>5. at' = [at EXCEPT ![t] = "build"] /\ at'[t] = "build"
  BY DEF TraceTypeOK
<1>6. ~mixed => Underway(t)'
  BY <1>4, <1>5 DEF Underway, sessionVars
<1>7. \A u \in Thread : u # t => at'[u] = at[u]
  BY <1>5 DEF TraceTypeOK
<1>8. (Alone /\ Followed)'
  BY <1>1, <1>6, <1>7, OthersKeep DEF sessionVars
<1> QED
  BY <1>2, <1>8

\* A thread that has nothing left but events leaves the board as it is.
LEMMA FinishKeeps ==
  ASSUME TraceTypeOK, InStep, NEW t \in Thread, Busy(t),
         Finish(t)
  PROVE  /\ todo' \in [Thread -> Jobs] /\ at' \in [Thread -> Steps]
         /\ InStep'
         /\ todo'[t] = Tail(todo[t]) /\ at'[t] = "start"
         /\ \A u \in Thread : u # t => todo'[u] = todo[u] /\ at'[u] = at[u]
<1> USE DEF TraceTypeOK, Finish, Steps
<1>1. Tail(todo[t]) \in Jobs
  BY JobFacts DEF Busy
<1> QED
  BY <1>1 DEF InStep, Busy

LEMMA BuildIdKeeps ==
  ASSUME TraceInv, SessionInv, NEW t \in Thread, BuildId(t) PROVE TraceInv'
<1> USE DEF TraceInv
<1>1. Changes(todo[t]) /\ ~Changes(Tail(todo[t])) /\ todo[t] \in Jobs
      /\ todo[t] # <<>> /\ at[t] \in {"start", "build"}
  <2>1. /\ at[t] # "start" \/ (Busy(t) /\ Head(todo[t]).op \in {"id", "republish"})
        /\ at[t] \in {"start", "build"}
    BY DEF BuildId
  <2> QED
    BY <2>1, PastStart
<1>2. ~mixed => /\ cachedId = session.id
                /\ \A w \in Thread : at[w] # "writing"
  <2>1. ASSUME ~mixed, NEW w \in Thread, at[w] = "writing" PROVE FALSE
    <3>1. at[w] # "start" /\ w # t
      BY <1>1, <2>1
    <3> QED
      BY <1>1, <2>1, <3>1, PastStart DEF Alone
  <2>2. ~mixed => Underway(t)
    BY <1>1 DEF Followed
  <2>3. at[t] = "start" => Republishes(todo[t])
    BY <1>1, JobFacts DEF BuildId
  <2> QED
    BY <1>1, <2>1, <2>2, <2>3 DEF Underway
<1>3. CASE Connected
  <2>1. PICK id \in {cachedId} \cup {Torn : u \in {w \in Thread : at[w] = "writing"}} :
          packet' = [packet EXCEPT ![t] = id]
    BY <1>3 DEF BuildId
  <2>2. Goto(t, "send") /\ UNCHANGED <<session, cachedId, link, brokerId, mixed>>
    BY <1>3 DEF BuildId, sessionVars, cacheVars
  <2>3. id \in Ids \cup {Torn}
    BY <2>1 DEF TraceTypeOK
  <2>4. (TraceTypeOK /\ InStep)'
    BY <2>1, <2>2, <2>3 DEF TraceTypeOK, InStep, Busy, Goto, Steps, BuildId
  <2>5. ~mixed => id = session.id
    BY <1>2, <2>1
  <2>6. packet'[t] = id /\ at'[t] = "send" /\ todo' = todo
    BY <2>1, <2>2 DEF TraceTypeOK, Goto
  <2>7. ~mixed => Underway(t)'
    BY <1>2, <2>2, <2>5, <2>6 DEF Underway
  <2>8. \A u \in Thread : u # t => at'[u] = at[u] /\ packet'[u] = packet[u]
    BY <2>1, <2>2 DEF TraceTypeOK, Goto
  <2>9. (Alone /\ Followed)'
    BY <1>1, <2>2, <2>6, <2>7, <2>8, OthersKeep
  <2> QED
    BY <2>4, <2>9
<1>4. CASE ~Connected
  <2>1. Finish(t) /\ Busy(t)
        /\ UNCHANGED <<session, packet, cachedId, link, brokerId, mixed>>
    BY <1>4 DEF BuildId, sessionVars, cacheVars
  <2>2. (TraceTypeOK /\ InStep)'
    BY <2>1, FinishKeeps DEF TraceTypeOK
  <2>3. ~mixed => Current'
    BY <1>2, <1>4, <2>1 DEF Current, Connected
  <2>4. ~Changes(todo'[t])
    BY <1>1, <2>1, FinishKeeps
  <2>5. \A u \in Thread : u # t => /\ todo'[u] = todo[u] /\ at'[u] = at[u]
                                   /\ packet'[u] = packet[u]
    BY <2>1, FinishKeeps
  <2>6. (Alone /\ Followed)'
    BY <1>1, <2>1, <2>3, <2>4, <2>5, OthersKeep
  <2> QED
    BY <2>2, <2>6
<1> QED
  BY <1>3, <1>4

LEMMA SendIdKeeps ==
  ASSUME TraceInv, NEW t \in Thread, SendId(t) PROVE TraceInv'
<1> USE DEF TraceInv
<1>1. Changes(todo[t]) /\ ~Changes(Tail(todo[t]))
  BY PastStart DEF SendId
<1>2. /\ Finish(t) /\ Busy(t) /\ packet' = [packet EXCEPT ![t] = NoId]
      /\ UNCHANGED <<session, cachedId, link, mixed>>
  BY DEF SendId, sessionVars, cacheVars
<1>3. (TraceTypeOK /\ InStep)'
  BY <1>2, FinishKeeps DEF TraceTypeOK, Ids
<1>4. ~mixed => Current'
  BY <1>1, <1>2 DEF SendId, Followed, Underway, Current
<1>5. ~Changes(todo'[t])
  BY <1>1, <1>2, FinishKeeps
<1>6. \A u \in Thread : u # t => /\ todo'[u] = todo[u] /\ at'[u] = at[u]
                                 /\ packet'[u] = packet[u]
  BY <1>2, FinishKeeps DEF TraceTypeOK
<1>7. (Alone /\ Followed)'
  BY <1>1, <1>2, <1>4, <1>5, <1>6, OthersKeep
<1> QED
  BY <1>3, <1>7

LEMMA SendEventKeeps ==
  ASSUME TraceInv, SessionInv, NEW t \in Thread, SendEvent(t) PROVE TraceInv'
<1> USE DEF TraceInv
<1>1. /\ Finish(t) /\ Busy(t) /\ Head(todo[t]).op = "event"
      /\ UNCHANGED <<session, packet, cacheVars, cachedId, writer, link, brokerId, mixed>>
  BY DEF SendEvent, sessionVars, cacheVars
<1>2. (TraceTypeOK /\ InStep)'
  BY <1>1, FinishKeeps DEF TraceTypeOK
<1>3. at[t] = "start"
  BY <1>1 DEF InStep, TraceTypeOK, Steps
<1>4. session.id \in Ids
  BY DEF SessionInv, SessionTypeOK, Ids
<1>5. /\ todo[t] \in Jobs /\ todo[t] # <<>> /\ todo'[t] = Tail(todo[t])
      /\ at'[t] = "start"
  BY <1>1, FinishKeeps DEF TraceTypeOK, Busy
<1>6. /\ Changes(todo'[t]) <=> Changes(todo[t])
      /\ IdsAre(todo[t], session.id) => IdsAre(todo'[t], session.id)
      /\ ~Republishes(todo'[t])
  BY <1>1, <1>4, <1>5, JobFacts
<1>7. ~mixed /\ Changes(todo[t]) => Underway(t)'
  BY <1>1, <1>3, <1>5, <1>6 DEF Followed, Underway
<1>8. \A u \in Thread : u # t => /\ todo'[u] = todo[u] /\ at'[u] = at[u]
                                 /\ packet'[u] = packet[u]
  BY <1>1, FinishKeeps
<1>9. (Alone /\ Followed)'
  BY <1>1, <1>6, <1>7, <1>8, OthersKeep
<1> QED
  BY <1>2, <1>9

LEMMA ConnectKeeps ==
  ASSUME TraceInv, Connect PROVE TraceInv'
<1> USE DEF TraceInv
<1>1. Mqtt \in Thread /\ at[Mqtt] = "start" /\ ~Changes(todo[Mqtt])
  BY ThreadAssumption DEF Connect, InStep, TraceTypeOK, Steps, Busy, Changes
<1>2. /\ todo' = [todo EXCEPT ![Mqtt] = <<RepublishJob>>]
      /\ UNCHANGED <<session, at, packet, cachedId, writer, brokerId>>
  BY DEF Connect, sessionVars, cacheVars
<1>3. (TraceTypeOK /\ InStep)'
  BY <1>1, <1>2 DEF TraceTypeOK, InStep, Jobs, Busy
<1>4. todo'[Mqtt] = <<RepublishJob>>
      /\ \A u \in Thread : u # Mqtt => todo'[u] = todo[u]
  BY <1>1, <1>2 DEF TraceTypeOK
<1>5. ~mixed' => ~mixed /\ \A u \in Thread : ~Changes(todo[u])
  BY DEF Connect, ChangesId, Changes
<1>6. Changes(<<RepublishJob>>) /\ \A id \in Ids : IdsAre(<<RepublishJob>>, id)
  BY DEF Changes, IdsAre, RepublishJob
<1>7. Alone'
  BY <1>1, <1>4, <1>5 DEF Alone
<1>8. ~mixed' => Underway(Mqtt)'
  BY <1>1, <1>2, <1>4, <1>5 DEF Followed, Current, Underway, IdsAre, RepublishJob
<1>9. Followed'
  BY <1>1, <1>4, <1>5, <1>6, <1>8 DEF Followed
<1> QED
  BY <1>3, <1>7, <1>9

LEMMA LinkKeeps ==
  ASSUME TraceInv, Break \/ NoticeBreak \/ UNCHANGED vars PROVE TraceInv'
<1>1. /\ UNCHANGED <<session, todo, at, packet, cachedId, writer, brokerId, mixed>>
      /\ link' = "up" => link = "up"
  BY DEF Break, NoticeBreak, vars, sessionVars, pubVars, cacheVars
<1> QED
  BY <1>1 DEF TraceInv, TraceTypeOK, InStep, Busy, Alone, Followed, Underway, Current

-----------------------------------------------------------------------------

\* The publications follow the session (TraceInv): inductive with SessionInv.
THEOREM TraceKept == Spec => []TraceInv
<1>1. TraceInv /\ SessionInv /\ SessionInv' /\ [Next]_vars => TraceInv'
  <2> SUFFICES ASSUME TraceInv, SessionInv, SessionInv', Next \/ UNCHANGED vars
               PROVE  TraceInv'
    OBVIOUS
  <2>1. ASSUME NEW t \in Thread, ThreadStep(t) PROVE TraceInv'
    <3>1. CASE TraceStart(t)
      BY <3>1, TraceCallKeeps
    <3>2. CASE \E terminal \in BOOLEAN : TraceRecord(t, terminal)
      BY <3>2, TraceRecordKeeps
    <3>3. CASE BeginCache(t)
      BY <3>3, BeginCacheKeeps
    <3>4. CASE EndCache(t)
      BY <3>4, EndCacheKeeps
    <3>5. CASE BuildId(t)
      BY <3>5, BuildIdKeeps
    <3>6. CASE SendId(t)
      BY <3>6, SendIdKeeps
    <3>7. CASE SendEvent(t)
      BY <3>7, SendEventKeeps
    <3> QED
      BY <2>1, <3>1, <3>2, <3>3, <3>4, <3>5, <3>6, <3>7 DEF ThreadStep
  <2>2. CASE Connect
    BY <2>2, ConnectKeeps
  <2>3. CASE Break \/ NoticeBreak \/ UNCHANGED vars
    BY <2>3, LinkKeeps
  <2> QED
    BY <2>1, <2>2, <2>3 DEF Next
<1>2. Spec => []SessionInv
  BY TraceKeepsSession, SessionInvariant, PTL
<1> QED
  BY <1>1, <1>2, TraceStarts, PTL DEF Spec

\* What the broker retains is the id of the session, once nobody publishes,
\* unless two publications of an id overlapped: for any number of threads.
THEOREM RetainedIdFollows == Spec => []RetainedIdCurrentUnlessMixed
<1>1. TraceInv => RetainedIdCurrentUnlessMixed
  <2> SUFFICES ASSUME TraceInv, ~mixed, \A t \in Thread : ~Busy(t)
               PROVE  Current
    BY DEF RetainedIdCurrentUnlessMixed, Settled, Current
  <2>1. \A t \in Thread : ~Changes(todo[t])
    BY DEF Busy, Changes
  <2> QED
    BY <2>1 DEF TraceInv, Followed
<1> QED
  BY <1>1, TraceKept, PTL
================================================================================
