-------------------------- MODULE RtspClients_proofs --------------------------
(***************************************************************************)
(* Proofs about RtspClients for any number of clients, slots and           *)
(* descriptors: a worker finds its own socket in its slot for as long as   *)
(* it serves it, and the count the callback was given last is the right    *)
(* one as soon as nobody is about to report another.                       *)
(***************************************************************************)
EXTENDS RtspClients, FiniteSetTheorems, WellFoundedInduction, TLAPS

\* What the arithmetic prover does not see by itself.
LEMMA BooleanValues == \A b : b = TRUE \/ b = FALSE => b \in BOOLEAN
BY Zenon

\* allocate_client takes the first of the slots that are free.
LEMMA MinIsMember ==
  ASSUME NEW S \in SUBSET Nat, S # {}
  PROVE  Min(S) \in S
<1> DEFINE Less == {ss \in Nat \X Nat : ss[1] < ss[2]}
<1>1. IsWellFoundedOn(Less, Nat)
  BY NatLessThanWellFounded, Zenon DEF OpToRel
<1> HIDE DEF Less
<1>2. \E x \in S : \A y \in S : <<y, x>> \notin Less
  BY <1>1, WFMin, Zenon
<1>3. ASSUME NEW x \in Nat, NEW y \in Nat, <<y, x>> \notin Less
      PROVE  x =< y
  <2>1. /\ <<y, x>> \in Nat \X Nat
        /\ <<y, x>>[1] = y /\ <<y, x>>[2] = x
    OBVIOUS
  <2>2. ~(y < x)
    BY <1>3, <2>1, Zenon DEF Less
  <2> QED
    BY <2>2
<1>4. \E x \in S : \A y \in S : x =< y
  BY <1>2, <1>3
<1> QED
  BY <1>4 DEF Min

-----------------------------------------------------------------------------
Clients == [fd : Fds \cup {NoFd}, active : BOOLEAN, playing : BOOLEAN,
            backchannel : BOOLEAN, owned : BOOLEAN]

WorkerSteps == {"none", "test", "recv", "request", "start", "create", "notify",
                "callback", "exit", "stop", "join", "leave", "lastCallback"}

Records == [pc : WorkerSteps, slot : Slots, fd : Fds \cup {NoFd},
            join : Playouts \cup {NoThread}]

RtspTypeOK ==
  /\ setting \in Settings /\ running \in BOOLEAN
  /\ slot \in [Slots -> Clients]
  /\ handle \in Playouts \cup {NoThread}
  /\ worker \in [Actors -> Records]

\* The slots and the open sockets are the same thing, and each serving worker
\* has one to itself.
SlotsAreSockets ==
  /\ running
  /\ open = {slot[s].fd : s \in Slots} \ {NoFd}
  /\ \A s, t \in Slots : slot[s].fd # NoFd /\ slot[s].fd = slot[t].fd => s = t
  /\ \A s \in Slots : slot[s].fd # NoFd => slot[s].owned
  /\ \A w \in Workers :
       Serving(w) => slot[Mine(w)].fd = worker[w].fd /\ worker[w].fd # NoFd
  /\ \A v, w \in Workers : Serving(v) /\ Serving(w) /\ Mine(v) = Mine(w) => v = w

\* Whoever changed the number of clients in PLAY has still to report it.
Reports == {"notify", "leave", "stop", "join"}
CountIsReported ==
  told = Count \/ \E a \in Actors : worker[a].pc \in Reports

RtspInv ==
  RtspTypeOK /\ (~setting.restarts => SlotsAreSockets /\ CountIsReported)

LEMMA RtspStart == Init => RtspInv
<1> SUFFICES ASSUME Init PROVE RtspInv
  OBVIOUS
<1> USE SettingAssumption DEF Init
<1>1. 1 \in Slots
  BY DEF Slots
<1>2. Empty \in Clients /\ NoWorker \in Records
  BY <1>1, BooleanValues DEF Empty, Clients, NoWorker, Records, WorkerSteps
<1>3. RtspTypeOK
  BY <1>2, BooleanValues DEF RtspTypeOK
<1>4. SlotsAreSockets
  BY <1>1 DEF SlotsAreSockets, Empty, NoWorker, Serving, Actors
<1>5. {s \in Slots : slot[s].active /\ slot[s].playing} = {}
  BY DEF Empty
<1>6. CountIsReported
  BY <1>5, FS_EmptySet DEF CountIsReported, Count
<1> QED
  BY <1>3, <1>4, <1>6 DEF RtspInv

-----------------------------------------------------------------------------
\* An actor goes on in its own record, and nobody else does.
Moves(a, step) ==
  /\ worker' \in [Actors -> Records]
  /\ worker'[a].pc = step
  /\ worker'[a].slot = worker[a].slot /\ worker'[a].fd = worker[a].fd
  /\ \A b \in Actors \ {a} : worker'[b] = worker[b]

LEMMA GoMoves ==
  ASSUME RtspTypeOK, setting' = setting, NEW a \in Actors, NEW step \in WorkerSteps,
         Go(a, step)
  PROVE  Moves(a, step)
BY DEF Go, Moves, RtspTypeOK, Records

\* A step that leaves slots, sockets and counts alone, of an actor that serves
\* no slot it did not serve, and owes no less than it owed.
LEMMA MoveKeeps ==
  ASSUME RtspInv, NEW a \in Actors, NEW step \in WorkerSteps, Moves(a, step),
         UNCHANGED <<setting, running, slot, sockets, told>>,
         handle' \in Playouts \cup {NoThread},
         Serving(a)' => Serving(a),
         worker[a].pc \in Reports => step \in Reports
  PROVE  RtspInv'
<1>1. RtspTypeOK'
  BY DEF RtspInv, RtspTypeOK, Moves, Slots, Records
<1>2. ASSUME ~setting.restarts
      PROVE  SlotsAreSockets'
  <2>1. \A w \in Actors : Serving(w)' => Serving(w)
    BY DEF Serving, Moves
  <2>2. \A w \in Actors : Mine(w)' = Mine(w) /\ worker'[w].fd = worker[w].fd
    BY DEF Mine, Moves
  <2> QED
    BY <1>2, <2>1, <2>2 DEF RtspInv, SlotsAreSockets, Slots, Actors, sockets
<1>3. ASSUME ~setting.restarts
      PROVE  CountIsReported'
  <2>1. told' = told /\ Count' = Count
    BY DEF Count, Slots
  <2>2. \A b \in Actors : worker[b].pc \in Reports => worker'[b].pc \in Reports
    BY DEF Moves
  <2> QED
    BY <1>3, <2>1, <2>2 DEF RtspInv, CountIsReported
<1> QED
  BY <1>1, <1>2, <1>3 DEF RtspInv

\* The steps of a worker between its sections.
LEMMA WorkerKeeps ==
  ASSUME RtspInv, NEW w \in Workers,
         \/ Test(w) \/ Request(w) \/ RecvWoken(w) \/ RecvFails(w) \/ OtherRequest(w)
         \/ PlayoutStart(w) \/ PlayoutCreate(w)
  PROVE  RtspInv'
<1>1. w \in Actors /\ RtspTypeOK
  BY DEF Actors, RtspInv
<1>2. /\ UNCHANGED <<setting, running, slot, sockets, told>>
      /\ handle' \in Playouts \cup {NoThread}
      /\ worker[w].pc \in {"test", "recv", "request", "start", "create"}
  BY <1>1 DEF Test, Request, RecvWoken, RecvFails, OtherRequest, PlayoutStart,
     PlayoutCreate, RtspTypeOK, playout, At
<1>3. PICK step \in {"recv", "exit", "request", "test", "create"} : Go(w, step)
  BY Zenon DEF Test, Request, RecvWoken, RecvFails, OtherRequest, PlayoutStart,
     PlayoutCreate
<1>4. step \in WorkerSteps
  BY DEF WorkerSteps
<1>5. Moves(w, step)
  BY <1>1, <1>2, <1>3, <1>4, GoMoves, Zenon
<1>6. Serving(w)' => Serving(w)
  BY <1>2 DEF Serving
<1>7. worker[w].pc \notin Reports
  BY <1>2 DEF Reports
<1> QED
  BY <1>1, <1>2, <1>4, <1>5, <1>6, <1>7, MoveKeeps, Zenon

LEMMA StopKeeps ==
  ASSUME RtspInv, NEW w \in Workers, PlayoutStop(w) \/ Join(w)
  PROVE  RtspInv'
<1>1. w \in Actors /\ RtspTypeOK
  BY DEF Actors, RtspInv
<1>2. /\ UNCHANGED <<setting, running, slot, sockets, told, handle>>
      /\ worker[w].pc \in {"stop", "join"}
  BY DEF PlayoutStop, Join, playout, At
<1>3. PICK step \in {"join", "leave"} :
        \E p \in Playouts \cup {NoThread} :
          worker' = [worker EXCEPT ![w].pc = step, ![w].join = p]
  BY <1>1, Zenon DEF PlayoutStop, Join, RtspTypeOK
<1>4. step \in WorkerSteps /\ step \in Reports
  BY DEF WorkerSteps, Reports
<1>5. PICK p \in Playouts \cup {NoThread} :
        worker' = [worker EXCEPT ![w].pc = step, ![w].join = p]
  BY <1>3
<1>6. Moves(w, step)
  BY <1>1, <1>4, <1>5 DEF Moves, RtspTypeOK, Records
<1>7. ~Serving(w)'
  BY <1>6 DEF Serving, Moves
<1>8. handle' \in Playouts \cup {NoThread}
  BY <1>1, <1>2 DEF RtspTypeOK
<1> QED
  BY <1>1, <1>2, <1>4, <1>6, <1>7, <1>8, MoveKeeps, Zenon

\* A request that is answered, and the media of it.
LEMMA RequestKeeps ==
  ASSUME RtspInv, NEW w \in Workers, Setup(w) \/ PlayOrPause(w)
  PROVE  RtspInv'
<1> USE DEF RtspInv
<1>1. w \in Actors /\ RtspTypeOK /\ Mine(w) \in Slots
  BY DEF Actors, RtspTypeOK, Records, Mine
<1>2. /\ UNCHANGED <<setting, running, sockets, told, playout>>
      /\ worker[w].pc = "request"
  BY DEF Setup, PlayOrPause, At
<1>3. /\ slot' \in [Slots -> Clients]
      /\ \A s \in Slots : /\ slot'[s].fd = slot[s].fd
                          /\ slot'[s].owned = slot[s].owned
  <2>1. CASE Setup(w)
    BY <1>1, <2>1, BooleanValues DEF Setup, RtspTypeOK, Clients
  <2>2. CASE PlayOrPause(w)
    BY <1>1, <2>2, BooleanValues DEF PlayOrPause, RtspTypeOK, Clients
  <2> QED
    BY <2>1, <2>2
<1>4. Moves(w, worker'[w].pc) /\ worker'[w].pc \in {"start", "notify"}
  BY <1>1, <1>2, GoMoves DEF Setup, PlayOrPause, Moves, WorkerSteps
<1>5. RtspTypeOK'
  BY <1>1, <1>2, <1>3, <1>4 DEF RtspTypeOK, Moves, playout, Slots, Records
<1>6. ASSUME ~setting.restarts
      PROVE  SlotsAreSockets'
  <2>1. \A v \in Actors : /\ Serving(v)' => Serving(v)
                          /\ Mine(v)' = Mine(v) /\ worker'[v].fd = worker[v].fd
    BY <1>2, <1>4 DEF Serving, Moves, Mine
  <2>2. \A v \in Workers : v \in Actors /\ Mine(v) \in Slots
    BY <1>1 DEF Actors, RtspTypeOK, Records, Mine
  <2> QED
    BY <1>2, <1>3, <1>6, <2>1, <2>2 DEF SlotsAreSockets, Slots, sockets
<1>7. ASSUME ~setting.restarts
      PROVE  CountIsReported'
  <2>1. CASE PlayOrPause(w)
    BY <1>1, <2>1, GoMoves DEF PlayOrPause, CountIsReported, Reports, Moves, WorkerSteps
  <2>2. CASE Setup(w)
    <3>1. {s \in Slots : slot'[s].active /\ slot'[s].playing}
            = {s \in Slots : slot[s].active /\ slot[s].playing}
      BY <1>1, <2>2 DEF Setup, RtspTypeOK, Clients
    <3>2. Count' = Count
      BY <1>2, <3>1 DEF Count, Slots
    <3>3. \A b \in Actors : worker[b].pc \in Reports => worker'[b].pc \in Reports
      BY <1>2, <1>4 DEF Moves, Reports
    <3> QED
      BY <1>2, <1>7, <3>2, <3>3 DEF CountIsReported
  <2> QED
    BY <2>1, <2>2
<1> QED
  BY <1>2, <1>5, <1>6, <1>7

\* A new connection: its slot was nobody's, and its descriptor no open one's.
LEMMA AcceptKeeps ==
  ASSUME RtspInv, NEW w \in Workers, Accept(w)
  PROVE  RtspInv'
<1> USE DEF RtspInv
<1>1. w \in Actors /\ RtspTypeOK /\ Unused # {} /\ worker[w].pc = "none"
  BY DEF Actors, Accept, At
<1>2. Min(Unused) \in Unused
  BY <1>1, MinIsMember DEF Unused, Slots
<1> DEFINE s == Min(Unused)
<1>3. PICK fd \in setting.fds \ open :
        /\ open' = open \cup {fd}
        /\ slot' = [slot EXCEPT ![s] =
                      [Empty EXCEPT !.fd = fd, !.active = TRUE, !.owned = TRUE]]
        /\ worker' = [worker EXCEPT ![w] =
                        [NoWorker EXCEPT !.pc = "test", !.slot = s, !.fd = fd]]
  BY Zenon DEF Accept
<1>4. UNCHANGED <<setting, running, shut, told, playout>>
  BY DEF Accept
<1>5. fd \in Fds /\ fd # NoFd /\ fd \notin open
  BY <1>1, <1>3, SettingAssumption, FdAssumption DEF RtspTypeOK, NoFd
<1>6. s \in Slots /\ ~slot[s].active /\ ~slot[s].owned
  BY <1>2 DEF Unused
<1> HIDE DEF s
<1>7. /\ slot' \in [Slots -> Clients]
      /\ slot'[s].fd = fd /\ slot'[s].owned /\ ~slot'[s].playing
      /\ \A t \in Slots \ {s} : slot'[t] = slot[t]
  BY <1>1, <1>3, <1>5, <1>6, BooleanValues DEF RtspTypeOK, Clients, Empty
<1>8. /\ worker' \in [Actors -> Records]
      /\ worker'[w].pc = "test" /\ worker'[w].slot = s /\ worker'[w].fd = fd
      /\ \A b \in Actors \ {w} : worker'[b] = worker[b]
  BY <1>1, <1>3, <1>5, <1>6 DEF RtspTypeOK, Records, NoWorker, WorkerSteps
<1>9. RtspTypeOK'
  BY <1>1, <1>4, <1>7, <1>8 DEF RtspTypeOK, playout, Slots, Records
<1>10. ASSUME ~setting.restarts
       PROVE  SlotsAreSockets'
  <2>1. SlotsAreSockets
    BY <1>10
  <2>2. \A v \in Workers \ {w} :
           /\ Serving(v)' => Serving(v)
           /\ Mine(v)' = Mine(v) /\ worker'[v].fd = worker[v].fd
           /\ Mine(v) \in Slots
    BY <1>1, <1>8 DEF Serving, Mine, Actors, RtspTypeOK, Records
  <2>3. \A v \in Workers \ {w} : Serving(v) => Mine(v) # s
    BY <1>6, <2>1, <2>2 DEF SlotsAreSockets
  <2>4. slot[s].fd = NoFd /\ \A t \in Slots : slot[t].fd # fd
    BY <1>5, <1>6, <2>1 DEF SlotsAreSockets
  <2>5. open' = {slot'[t].fd : t \in Slots} \ {NoFd}
    BY <1>3, <1>5, <1>6, <1>7, <2>1, <2>4 DEF SlotsAreSockets
  <2>6. Mine(w)' = s /\ Slots' = Slots /\ running'
    BY <1>4, <1>8, <2>1 DEF Mine, Slots, SlotsAreSockets
  <2> QED
    BY <1>5, <1>6, <1>7, <1>8, <2>1, <2>2, <2>3, <2>4, <2>5, <2>6 DEF SlotsAreSockets
<1>11. ASSUME ~setting.restarts
       PROVE  CountIsReported'
  <2>1. {t \in Slots : slot'[t].active /\ slot'[t].playing}
          = {t \in Slots : slot[t].active /\ slot[t].playing}
    BY <1>6, <1>7
  <2>2. Count' = Count
    BY <1>4, <2>1 DEF Count, Slots
  <2>3. \A b \in Actors : worker[b].pc \in Reports => worker'[b].pc \in Reports
    BY <1>1, <1>8 DEF Reports
  <2> QED
    BY <1>4, <1>11, <2>2, <2>3 DEF CountIsReported
<1> QED
  BY <1>4, <1>9, <1>10, <1>11

\* A worker leaves its slot: the descriptor it closes is in no other slot.
LEMMA LeaveKeeps ==
  ASSUME RtspInv, NEW w \in Workers, Leave(w)
  PROVE  RtspInv'
<1> USE DEF RtspInv
<1> DEFINE s == Mine(w)
<1>1. w \in Actors /\ RtspTypeOK /\ s \in Slots /\ worker[w].pc = "exit"
  BY DEF Actors, RtspTypeOK, Records, Mine, Leave, At
<1>2. /\ slot' = [slot EXCEPT ![s] = [Inactive(slot[s]) EXCEPT !.fd = NoFd, !.owned = FALSE]]
      /\ open' = open \ {slot[s].fd}
      /\ UNCHANGED <<setting, running, told, playout>>
  BY <1>1 DEF Leave, RtspTypeOK
<1>3. PICK step \in {"leave", "stop"} : Go(w, step)
  BY Zenon DEF Leave
<1>4. step \in WorkerSteps /\ step \in Reports
  BY DEF WorkerSteps, Reports
<1>5. Moves(w, step)
  BY <1>1, <1>2, <1>3, <1>4, GoMoves, Zenon
<1> HIDE DEF s
<1>6. /\ slot' \in [Slots -> Clients]
      /\ slot'[s].fd = NoFd
      /\ \A t \in Slots \ {s} : slot'[t] = slot[t]
  BY <1>1, <1>2, BooleanValues DEF RtspTypeOK, Clients, Inactive
<1>7. RtspTypeOK'
  BY <1>1, <1>2, <1>5, <1>6 DEF RtspTypeOK, playout, Slots, Moves, Records
<1>8. ASSUME ~setting.restarts
      PROVE  SlotsAreSockets'
  <2>1. SlotsAreSockets /\ Mine(w) = s
    BY <1>8 DEF s
  <2>2. \A v \in Workers \ {w} :
           /\ Serving(v)' => Serving(v)
           /\ Mine(v)' = Mine(v) /\ worker'[v].fd = worker[v].fd
           /\ Mine(v) \in Slots
    BY <1>1, <1>5 DEF Serving, Mine, Actors, RtspTypeOK, Records, Moves
  <2>3. ~Serving(w)' /\ Serving(w)
    BY <1>1, <1>5 DEF Serving, Moves
  <2>4. \A v \in Workers \ {w} : Serving(v) => Mine(v) # s
    BY <2>1, <2>3 DEF SlotsAreSockets
  <2>5. open' = {slot'[t].fd : t \in Slots} \ {NoFd}
    <3>1. \A t \in Slots \ {s} : slot[t].fd # NoFd => slot[t].fd # slot[s].fd
      BY <1>1, <2>1 DEF SlotsAreSockets
    <3> QED
      BY <1>1, <1>2, <1>6, <2>1, <3>1 DEF SlotsAreSockets
  <2>6. Slots' = Slots /\ running'
    BY <1>2, <2>1 DEF Slots, SlotsAreSockets
  <2>7. \A v \in Workers : Serving(v)' => v # w
    BY <2>3
  <2> QED
    BY <1>6, <2>1, <2>2, <2>4, <2>5, <2>6, <2>7 DEF SlotsAreSockets
<1>9. CountIsReported'
  BY <1>1, <1>4, <1>5 DEF CountIsReported, Moves
<1> QED
  BY <1>2, <1>7, <1>8, <1>9

\* The threads that send media close clients without their workers.
LEMMA SendKeeps ==
  ASSUME RtspInv, SendFails
  PROVE  RtspInv'
<1> USE DEF RtspInv
<1>1. Reader \in Actors /\ RtspTypeOK
  BY DEF Actors
<1>2. PICK S \in SUBSET Slots :
        /\ slot' = [s \in Slots |-> IF s \in S THEN Inactive(slot[s]) ELSE slot[s]]
        /\ UNCHANGED <<setting, open, running, told, playout>>
  BY Zenon DEF SendFails, Close
<1>3. Moves(Reader, "notify")
  BY <1>1, <1>2, GoMoves DEF SendFails, WorkerSteps
<1>4. /\ slot' \in [Slots -> Clients]
      /\ \A s \in Slots : /\ slot'[s].fd = slot[s].fd
                          /\ slot'[s].owned = slot[s].owned
  BY <1>1, <1>2, BooleanValues DEF RtspTypeOK, Clients, Inactive
<1>5. RtspTypeOK'
  BY <1>1, <1>2, <1>3, <1>4 DEF RtspTypeOK, playout, Slots, Moves, Records
<1>6. ASSUME ~setting.restarts
      PROVE  SlotsAreSockets'
  <2>1. \A v \in Workers : /\ Serving(v)' <=> Serving(v)
                           /\ Mine(v)' = Mine(v) /\ worker'[v].fd = worker[v].fd
                           /\ Mine(v) \in Slots
    BY <1>1, <1>3, ReaderAssumption DEF Serving, Moves, Mine, Actors, RtspTypeOK, Records
  <2>2. {slot'[s].fd : s \in Slots} = {slot[s].fd : s \in Slots}
    BY <1>4
  <2>3. Slots' = Slots /\ open' = open /\ running' = running
    BY <1>2 DEF Slots
  <2>4. SlotsAreSockets
    BY <1>6
  <2> QED
    BY <1>4, <2>1, <2>2, <2>3, <2>4 DEF SlotsAreSockets
<1>7. CountIsReported'
  BY <1>1, <1>3 DEF CountIsReported, Moves, Reports
<1> QED
  BY <1>2, <1>5, <1>6, <1>7

\* The count is reported, and the callback that is given it returns.
LEMMA NotifyKeeps ==
  ASSUME RtspInv, NEW a \in Actors, Notify(a) \/ CallbackReturns(a)
  PROVE  RtspInv'
<1> USE DEF RtspInv
<1>1. RtspTypeOK /\ NoWorker \in Records
  <2>1. 1 \in Slots
    BY SettingAssumption DEF RtspTypeOK, Slots
  <2> QED
    BY <2>1 DEF NoWorker, Records, WorkerSteps
<1>2. /\ UNCHANGED <<setting, running, slot, sockets, playout>>
      /\ worker[a].pc \in {"notify", "leave", "callback", "lastCallback"}
      /\ told' = told \/ told' = Count
  BY Zenon DEF Notify, CallbackReturns, At
<1>3. /\ worker' \in [Actors -> Records]
      /\ \A b \in Actors \ {a} : worker'[b] = worker[b]
      /\ \/ worker'[a].pc \in {"none", "lastCallback"}
         \/ /\ worker[a].pc \in {"notify", "callback"}
            /\ worker'[a].slot = worker[a].slot /\ worker'[a].fd = worker[a].fd
  <2>1. CASE worker' = [worker EXCEPT ![a] = NoWorker]
    BY <1>1, <2>1 DEF RtspTypeOK, NoWorker
  <2>2. ASSUME NEW step \in {"test", "callback", "lastCallback"}, Go(a, step)
        PROVE  /\ worker' \in [Actors -> Records]
               /\ \A b \in Actors \ {a} : worker'[b] = worker[b]
               /\ worker'[a].pc = step
               /\ worker'[a].slot = worker[a].slot /\ worker'[a].fd = worker[a].fd
    <3>1. Moves(a, step)
      BY <1>1, <1>2, <2>2, GoMoves DEF WorkerSteps
    <3> QED
      BY <3>1 DEF Moves
  <2>3. \/ worker' = [worker EXCEPT ![a] = NoWorker]
        \/ Go(a, "lastCallback")
        \/ worker[a].pc \in {"notify", "callback"} /\ (Go(a, "test") \/ Go(a, "callback"))
    BY Zenon DEF Notify, CallbackReturns, At
  <2> QED
    BY <2>1, <2>2, <2>3
<1>4. RtspTypeOK'
  BY <1>1, <1>2, <1>3 DEF RtspTypeOK, playout, Slots, Records
<1>5. ASSUME ~setting.restarts
      PROVE  SlotsAreSockets'
  <2>1. \A v \in Workers : v \in Actors /\ Mine(v) \in Slots
    BY <1>1 DEF Mine, Actors, RtspTypeOK, Records
  <2>2. \A v \in Workers :
          Serving(v)' => /\ Serving(v)
                         /\ Mine(v)' = Mine(v) /\ worker'[v].fd = worker[v].fd
    BY <1>3, <2>1 DEF Serving, Mine
  <2> QED
    BY <1>2, <1>5, <2>1, <2>2 DEF SlotsAreSockets, Slots, sockets
<1>6. ASSUME ~setting.restarts
      PROVE  CountIsReported'
  <2>1. Count' = Count
    BY <1>2 DEF Count, Slots
  <2>2. CASE Notify(a)
    BY <2>1, <2>2 DEF Notify, CountIsReported
  <2>3. CASE CallbackReturns(a)
    <3>1. worker[a].pc \notin Reports /\ told' = told
      BY <2>3 DEF CallbackReturns, At, Reports
    <3> QED
      BY <1>3, <1>6, <2>1, <3>1 DEF CountIsReported
  <2> QED
    BY <2>2, <2>3
<1> QED
  BY <1>2, <1>4, <1>5, <1>6

LEMMA RtspStep == RtspInv /\ [Next]_vars => RtspInv'
<1> SUFFICES ASSUME RtspInv, [Next]_vars PROVE RtspInv'
  OBVIOUS
<1> USE DEF RtspInv
<1>1. CASE \E w \in Workers : Accept(w) \/ Request(w) \/ RecvFails(w) \/ Progress(w)
  BY <1>1, AcceptKeeps, WorkerKeeps, RequestKeeps, LeaveKeeps, StopKeeps
  DEF Progress
<1>2. CASE \E a \in Actors : Notify(a) \/ CallbackReturns(a)
  BY <1>2, NotifyKeeps
<1>3. CASE SendFails
  BY <1>3, SendKeeps
<1>4. CASE (\E p \in Playouts : PlayoutEnds(p)) \/ UNCHANGED vars
  <2>1. UNCHANGED <<setting, running, slot, sockets, worker, told, handle>>
    BY <1>4 DEF PlayoutEnds, vars, playout
  <2> QED
    BY <2>1 DEF RtspTypeOK, SlotsAreSockets, CountIsReported, Slots, Count, Serving,
       Mine, sockets, Records
<1>5. CASE ServiceStop
  <2>1. /\ setting.restarts /\ running' = FALSE
        /\ slot' = [s \in Slots |-> Inactive(slot[s])]
        /\ UNCHANGED <<setting, worker, playout>>
    BY <1>5 DEF ServiceStop, Close
  <2>2. slot' \in [Slots -> Clients]
    BY <2>1, BooleanValues DEF RtspTypeOK, Clients, Inactive
  <2> QED
    BY <2>1, <2>2, BooleanValues DEF RtspTypeOK, Slots, playout, Records
<1>6. CASE ServiceStart
  <2>1. /\ ~running /\ running' = TRUE
        /\ slot' = [s \in Slots |-> Empty]
        /\ UNCHANGED <<setting, worker, playout>>
    BY <1>6 DEF ServiceStart
  <2>2. Empty \in Clients
    BY BooleanValues DEF Empty, Clients
  <2>3. setting.restarts
    BY <2>1 DEF SlotsAreSockets
  <2> QED
    BY <2>1, <2>2, <2>3, BooleanValues DEF RtspTypeOK, Slots, playout, Records
<1> QED
  BY <1>1, <1>2, <1>3, <1>4, <1>5, <1>6 DEF Next

-----------------------------------------------------------------------------
\* Slots, sockets, workers and the count that was told fit together (RtspInv),
\* whatever order connections come, break and are closed in.
THEOREM RtspInvariant == Spec => []RtspInv
BY RtspStart, RtspStep, PTL DEF Spec

\* Every open socket is in one slot, and a worker never reads from or closes a
\* descriptor that the kernel has meanwhile given to another connection
\* (SlotOwned, close_client_locked): for any number of workers and slots.
THEOREM SlotsAreOwned == Spec => []SlotOwned
<1>1. RtspInv => SlotOwned
  BY DEF RtspInv, SlotsAreSockets, SlotOwned
<1> QED
  BY <1>1, RtspInvariant, PTL

\* The count that was told last is the right one once nobody is about to report
\* another (ToldIsCurrent, notify_client_count), whoever changed it last.
THEOREM CountIsCurrent == Spec => []ToldIsCurrent
<1>1. RtspInv => ToldIsCurrent
  BY DEF RtspInv, CountIsReported, ToldIsCurrent, Waiting, Reports
<1> QED
  BY <1>1, RtspInvariant, PTL
=============================================================================
