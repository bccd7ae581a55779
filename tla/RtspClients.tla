----------------------------- MODULE RtspClients -----------------------------
(***************************************************************************)
(* The connections of rtsp_stream.c.  The listener puts an accepted socket *)
(* into a free slot and starts a worker thread for it; the worker reads    *)
(* requests, and the threads that send media close a client whose socket   *)
(* fails.  clients_mutex covers the slots, bc_mutex the playout thread of  *)
(* the audio backchannel, which is started by the first SETUP of a         *)
(* backchannel and stopped by the last worker that leaves.  What a worker  *)
(* does between these sections the others may overtake.                    *)
(*                                                                         *)
(* A slot keeps its descriptor number; the kernel gives a closed number to *)
(* the next connection.  Audio and video are not told apart.               *)
(***************************************************************************)
EXTENDS FiniteSetsExt, Integers

CONSTANTS Settings,    \* the surroundings the server runs in
          Workers,     \* bound: worker threads at a time
          Fds,         \* descriptor numbers
          Playouts     \* bound: playout threads at a time

\* maxClients: MAX_RTSP_CLIENTS; fds (a bound): the numbers the kernel gives
\* out; restarts: RTSP may be switched off and on
ASSUME SettingAssumption ==
  Settings \subseteq [maxClients : Nat \ {0}, fds : SUBSET Fds, restarts : BOOLEAN]
ASSUME FdAssumption == 0 \notin Fds

Reader == "reader"             \* the threads that send media
Actors == Workers \cup {Reader}
ASSUME ReaderAssumption == Reader \notin Workers
NoFd == 0
NoThread == "none"

VARIABLES
  setting,     \* the surroundings, which stay
  running,     \* the service is on
  slot,        \* clients[]
  open, shut,  \* sockets that are open, and those shut down
  worker,      \* per actor, its next step, its slot and its own socket
  told,        \* the client count last given to the callback
  flag,        \* bc_thread_running
  handle,      \* bc_thread
  playouts     \* playout threads alive

sockets == <<open, shut>>
playout == <<flag, handle, playouts>>
vars == <<setting, running, slot, sockets, worker, told, playout>>

Slots == 1 .. setting.maxClients

Empty == [fd |-> NoFd, active |-> FALSE, playing |-> FALSE,
          backchannel |-> FALSE, owned |-> FALSE]
NoWorker == [pc |-> "none", slot |-> 1, fd |-> NoFd, join |-> NoThread]

Init ==
  /\ setting \in Settings
  /\ running = TRUE
  /\ slot = [s \in Slots |-> Empty]
  /\ open = {} /\ shut = {}
  /\ worker = [a \in Actors |-> NoWorker]
  /\ told = 0
  /\ flag = FALSE /\ handle = NoThread /\ playouts = {}

At(a, step) == worker[a].pc = step
Go(a, step) == worker' = [worker EXCEPT ![a].pc = step]
Mine(w) == worker[w].slot

-----------------------------------------------------------------------------
\* The slots

\* Mutant: only active is looked at, the old worker may still run
UnusedInactive == {s \in Slots : ~slot[s].active}

\* allocate_client
Unused == {s \in Slots : ~slot[s].active /\ ~slot[s].owned}

Accept(w) ==
  /\ running /\ At(w, "none") /\ Unused # {}
  /\ LET s == Min(Unused)
     IN \E fd \in setting.fds \ open :
          /\ open' = open \cup {fd}
          /\ slot' = [slot EXCEPT ![s] =
                        [Empty EXCEPT !.fd = fd, !.active = TRUE, !.owned = TRUE]]
          /\ worker' = [worker EXCEPT ![w] =
                          [NoWorker EXCEPT !.pc = "test", !.slot = s, !.fd = fd]]
  /\ UNCHANGED <<setting, running, shut, told, playout>>

Inactive(client) ==
  [client EXCEPT !.active = FALSE, !.playing = FALSE, !.backchannel = FALSE]

\* Mutant: the worker is not woken
CloseQuietly(S) ==
  /\ slot' = [s \in Slots |-> IF s \in S THEN Inactive(slot[s]) ELSE slot[s]]
  /\ UNCHANGED <<setting, sockets>>

\* close_client_locked: the socket is shut down, its worker closes it
Close(S) ==
  /\ slot' = [s \in Slots |-> IF s \in S THEN Inactive(slot[s]) ELSE slot[s]]
  /\ shut' = shut \cup ({slot[s].fd : s \in S} \cap open)
  /\ UNCHANGED <<setting, open>>

\* broadcast_video_rtp and rtsp_stream_send_audio_rtp
SendFails ==
  /\ At(Reader, "none")
  /\ \E S \in SUBSET {s \in Slots : slot[s].active /\ slot[s].playing} \ {{}} :
       Close(S)
  /\ Go(Reader, "notify")
  /\ UNCHANGED <<setting, running, told, playout>>

Count == Cardinality({s \in Slots : slot[s].active /\ slot[s].playing})

\* notify_client_count
Notify(a) ==
  /\ At(a, "notify") \/ At(a, "leave")
  /\ told' = Count
  /\ IF told = Count
     THEN IF At(a, "leave") \/ a = Reader
          THEN worker' = [worker EXCEPT ![a] = NoWorker]
          ELSE Go(a, "test")
     ELSE Go(a, IF At(a, "leave") \/ a = Reader THEN "lastCallback" ELSE "callback")
  /\ UNCHANGED <<setting, running, slot, sockets, playout>>

\* The callback opens and closes the intercom line and starts and stops media:
\* it takes as long as it takes (see IntercomLine and MediaSinks)
CallbackReturns(a) ==
  /\ \/ At(a, "callback") /\ Go(a, "test")
     \/ At(a, "lastCallback") /\ worker' = [worker EXCEPT ![a] = NoWorker]
  /\ UNCHANGED <<setting, running, slot, sockets, told, playout>>

-----------------------------------------------------------------------------
\* A worker

\* while (running && client->active)
Test(w) ==
  /\ At(w, "test")
  /\ Go(w, IF running /\ slot[Mine(w)].active THEN "recv" ELSE "exit")
  /\ UNCHANGED <<setting, running, slot, sockets, told, playout>>

\* A request arrives, or what was buffered is a request
Request(w) ==
  /\ At(w, "recv") /\ Go(w, "request")
  /\ UNCHANGED <<setting, running, slot, sockets, told, playout>>

\* recv() fails at once on a socket that is shut down or closed ...
RecvWoken(w) ==
  /\ At(w, "recv")
  /\ slot[Mine(w)].fd \notin open \ shut
  /\ Go(w, "exit")
  /\ UNCHANGED <<setting, running, slot, sockets, told, playout>>

\* ... or because the peer is gone, or has been silent before PLAY
RecvFails(w) ==
  /\ At(w, "recv") /\ Go(w, "exit")
  /\ UNCHANGED <<setting, running, slot, sockets, told, playout>>

\* SETUP of the backchannel
Setup(w) ==
  /\ At(w, "request")
  /\ slot' = [slot EXCEPT ![Mine(w)].backchannel = TRUE]
  /\ Go(w, "start")
  /\ UNCHANGED <<setting, running, sockets, told, playout>>

\* Mutant: PAUSE is not notified
PlayOrPauseSilently(w) ==
  /\ At(w, "request")
  /\ \/ slot' = [slot EXCEPT ![Mine(w)].playing = TRUE] /\ Go(w, "notify")
     \/ slot' = [slot EXCEPT ![Mine(w)].playing = FALSE] /\ Go(w, "test")
  /\ UNCHANGED <<setting, running, sockets, told, playout>>

PlayOrPause(w) ==
  /\ At(w, "request")
  /\ \E playing \in BOOLEAN : slot' = [slot EXCEPT ![Mine(w)].playing = playing]
  /\ Go(w, "notify")
  /\ UNCHANGED <<setting, running, sockets, told, playout>>

\* TEARDOWN and bad requests; all others
OtherRequest(w) ==
  /\ At(w, "request")
  /\ Go(w, "exit") \/ Go(w, "test")
  /\ UNCHANGED <<setting, running, slot, sockets, told, playout>>

\* Mutant: a worker counts itself
OthersOrSelf(w) == \E s \in Slots : slot[s].active /\ slot[s].backchannel

\* Another client has a backchannel
Others(w) ==
  \E s \in Slots \ {Mine(w)} : slot[s].active /\ slot[s].backchannel

\* The end of client_thread_func, up to the decision about the playout
Leave(w) ==
  /\ At(w, "exit")
  /\ LET s == Mine(w)
         fd == slot[s].fd
     IN /\ slot' = [slot EXCEPT ![s] =
                      [Inactive(@) EXCEPT !.fd = NoFd, !.owned = FALSE]]
        /\ open' = open \ {fd} /\ shut' = shut \ {fd}
  /\ Go(w, IF Others(w) THEN "leave" ELSE "stop")
  /\ UNCHANGED <<setting, running, told, playout>>

-----------------------------------------------------------------------------
\* The playout thread

\* bc_playout_start: the flag is set under bc_mutex ...
PlayoutStart(w) ==
  /\ At(w, "start")
  /\ flag' = TRUE
  /\ Go(w, IF flag THEN "test" ELSE "create")
  /\ UNCHANGED <<setting, running, slot, sockets, told, handle, playouts>>

\* ... the thread is created after it
PlayoutCreate(w) ==
  /\ At(w, "create")
  /\ \/ \E p \in Playouts \ playouts :
          /\ \A v \in Workers : worker[v].join # p
          /\ playouts' = playouts \cup {p} /\ handle' = p
          /\ UNCHANGED flag
     \/ flag' = FALSE /\ UNCHANGED <<handle, playouts>>
  /\ Go(w, "test")
  /\ UNCHANGED <<setting, running, slot, sockets, told>>

\* bc_playout_stop
PlayoutStop(w) ==
  /\ At(w, "stop")
  /\ flag' = FALSE
  /\ worker' = [worker EXCEPT ![w].pc = IF flag THEN "join" ELSE "leave",
                              ![w].join = IF flag THEN handle ELSE NoThread]
  /\ UNCHANGED <<setting, running, slot, sockets, told, handle, playouts>>

Join(w) ==
  /\ At(w, "join") /\ worker[w].join \notin playouts
  /\ worker' = [worker EXCEPT ![w].pc = "leave", ![w].join = NoThread]
  /\ UNCHANGED <<setting, running, slot, sockets, told, playout>>

\* The thread looks at the flag between two frames
PlayoutEnds(p) ==
  /\ p \in playouts /\ ~flag
  /\ playouts' = playouts \ {p}
  /\ UNCHANGED <<setting, running, slot, sockets, worker, told, flag, handle>>

-----------------------------------------------------------------------------
\* The service, switched over MQTT

\* rtsp_stream_stop wakes the workers ...
ServiceStop ==
  /\ setting.restarts /\ running /\ running' = FALSE
  /\ Close(Slots)
  /\ told' = -1
  /\ UNCHANGED <<setting, worker, playout>>

\* ... and waits for them, at most 2 s, which only a callback outlasts;
\* rtsp_stream_start clears the slots
ServiceStart ==
  /\ ~running /\ running' = TRUE
  /\ \A w \in Workers : worker[w].pc \in {"none", "leave", "stop", "join",
                                         "lastCallback", "callback"}
  /\ slot' = [s \in Slots |-> Empty]
  /\ told' = -1
  /\ UNCHANGED <<setting, sockets, worker, playout>>

-----------------------------------------------------------------------------

\* The steps of a worker that do not wait for its peer
Progress(w) ==
  \/ Test(w) \/ RecvWoken(w) \/ Leave(w)
  \/ Setup(w) \/ PlayOrPause(w) \/ OtherRequest(w)
  \/ PlayoutStart(w) \/ PlayoutCreate(w) \/ PlayoutStop(w) \/ Join(w)

Next ==
  \/ \E w \in Workers : Accept(w) \/ Request(w) \/ RecvFails(w) \/ Progress(w)
  \/ \E a \in Actors : Notify(a) \/ CallbackReturns(a)
  \/ SendFails
  \/ \E p \in Playouts : PlayoutEnds(p)
  \/ ServiceStop \/ ServiceStart

Spec == Init /\ [][Next]_vars

\* Threads run and callbacks return; peers owe nothing
Fairness ==
  /\ \A w \in Workers : WF_vars(Progress(w))
  /\ \A a \in Actors : WF_vars(Notify(a) \/ CallbackReturns(a))
  /\ \A p \in Playouts : WF_vars(PlayoutEnds(p))

FairSpec == Spec /\ Fairness

-----------------------------------------------------------------------------

Serving(w) == worker[w].pc \notin {"none", "leave", "stop", "join", "lastCallback"}

\* "The owning worker thread closes its own fd on exit, so the fd number cannot
\* be recycled by accept() while that thread might still recv()/send() on it"
\* (close_client_locked): every open socket is in one slot, and the worker that
\* serves a slot finds its own socket there however often it was reused.  (A
\* restart clears the slots of workers that outlast rtsp_stream_stop's wait.)
SlotOwned ==
  ~setting.restarts =>
    /\ open = {slot[s].fd : s \in Slots} \ {NoFd}
    /\ \A w \in Workers : Serving(w) => slot[Mine(w)].fd = worker[w].fd
    /\ \A v, w \in Workers : Serving(v) /\ Serving(w) /\ Mine(v) = Mine(w) => v = w

Waiting(a) == worker[a].pc \in {"none", "recv"}

\* Once nobody is about to report, the count the callback was given last is
\* the number of clients in PLAY: connections that break in the middle of a
\* request and failed sends included.  (A switch forgets what was told.)
ToldIsCurrent ==
  ~setting.restarts /\ (\A a \in Actors : Waiting(a)) => told = Count

Abandoned(s) == s \in Slots /\ slot[s].owned /\ ~slot[s].active

\* The slot of a client that was closed by a sender comes back without its
\* peer's help, also when the playout thread is slow to end.
SlotComesBack ==
  \A s \in UNION {1 .. h.maxClients : h \in Settings} :
    Abandoned(s) ~> ~Abandoned(s)

\* When the last client has gone, no playout thread keeps the audio output.
PlayoutGoes ==
  (\A w \in Workers : At(w, "none")) /\ playouts # {}
    ~> playouts = {} \/ \E w \in Workers : ~At(w, "none")

\* A client that has gone leaves nothing behind, neither its slot nor the
\* playout thread it started.
GoneLeavesNothing == SlotComesBack /\ PlayoutGoes
=============================================================================
