----------------------------- MODULE VideoWorker -----------------------------
(***************************************************************************)
(* The encoder process and its pipes.  The daemon forks one worker, sends  *)
(* it commands over a control pipe (write_video_control_command) and reads *)
(* its RTP packets, each behind its length, from a pipe that outlives the  *)
(* worker (video_reader_thread_func).  One thread of the worker does all:  *)
(* it polls the control pipe, takes a frame, and writes it to the sink     *)
(* pipe, which blocks while the pipe is full.  Who decides to start, stop  *)
(* and attach is in MediaSinks.                                            *)
(*                                                                         *)
(*  - A packet is two chunks, so that a write can end in its middle.       *)
(*  - RTSP is enabled at first and may be disabled once.                   *)
(***************************************************************************)
EXTENDS Integers, Sequences

CONSTANTS Capacity,    \* chunks that fit the sink pipe
          MaxWorkers,  \* bound: workers forked
          MaxPending,  \* bound: commands waiting in the control pipe
          MaxShots     \* bound: snapshots asked for

ASSUME VideoAssumption ==
  /\ Capacity \in Nat \ {0} /\ MaxWorkers \in Nat
  /\ MaxPending \in Nat /\ MaxShots \in Nat

VARIABLES
  encoder,   \* the process, see NoWorker
  control,   \* commands it has not read
  asked,     \* what it was last told: [rtp, sink]
  missed,    \* it did not do what it was told: read behind another command,
             \* or the socket could not be opened
  pipe,      \* chunks the reader thread has not read
  reader,    \* the reader thread: the chunk it holds, whether a client's
             \* socket holds it up, whether the pipe is there
  halves,    \* a worker ended in the middle of a packet
  torn,      \* the clients were sent a packet made of two
  file,      \* the picture's path: "none", "part" or "whole"
  shot,      \* snapshot_thread_func: its step, and what it published
  shots

sinkVars == << pipe, reader, halves, torn >>
shotVars == << file, shot, shots >>
commandVars == << control, asked, missed >>
videoVars == << encoder, commandVars, sinkVars, shotVars >>

None == [gen |-> 0, part |-> 0]

\* run: "off", "starting" until it enters its loop, "on", or "stopping" after
\* SIGTERM; rtp, sink: where it sends;
\* next: the chunk it is about to write; snap: SNAPSHOT is armed; jpeg: it is
\* writing the picture
NoWorker == [run |-> "off", gen |-> 0, rtp |-> FALSE, sink |-> FALSE,
             next |-> None, snap |-> FALSE, jpeg |-> FALSE]

VideoInit ==
  /\ encoder = NoWorker
  /\ control = << >> /\ asked = [rtp |-> FALSE, sink |-> FALSE] /\ missed = FALSE
  /\ pipe = << >> /\ halves = FALSE /\ torn = FALSE
  /\ reader = [held |-> None, stalled |-> FALSE, open |-> TRUE]
  /\ file = "none" /\ shot = [step |-> "idle", published |-> "none"] /\ shots = 0

On == encoder.run \in {"starting", "on"}    \* the daemon takes it for running
Loops == encoder.run = "on"
Busy == encoder.next # None \/ encoder.jpeg

-----------------------------------------------------------------------------
(* The daemon: each holds video_lifecycle_mutex                            *)

\* start_video_worker: there is a SIP target or the RTSP pipe.
StartWorker ==
  /\ encoder.run = "off" /\ encoder.gen < MaxWorkers
  /\ \E rtp \in BOOLEAN :
       /\ rtp \/ reader.open
       /\ asked' = [rtp |-> rtp, sink |-> reader.open]
       /\ encoder' = [NoWorker EXCEPT !.run = "starting", !.gen = encoder.gen + 1,
                                     !.rtp = rtp, !.sink = reader.open]
  /\ control' = << >> /\ missed' = FALSE
  /\ UNCHANGED << sinkVars, shotVars >>

\* write_video_control_command
Tell(command) == /\ On /\ Len(control) < MaxPending
                 /\ control' = Append(control, command)

\* attach_video_worker_rtp, and clear_video_worker_rtp when it has a target
TellTarget ==
  /\ Tell(IF asked.rtp THEN "CLEAR_RTP" ELSE "SET_RTP")
  /\ asked' = [asked EXCEPT !.rtp = ~@]
  /\ UNCHANGED << encoder, missed, sinkVars, shotVars >>

ForceIdr ==
  /\ Tell("FORCE_IDR")
  /\ UNCHANGED << encoder, asked, missed, sinkVars, shotVars >>

\* stop_rtsp_service: a worker that serves a call loses its sink, any other is
\* stopped.
StopRtsp ==
  /\ reader.open
  /\ pipe' = << >> /\ reader' = [held |-> None, stalled |-> FALSE, open |-> FALSE]
  /\ IF On /\ asked.rtp
       THEN /\ Tell("CLEAR_RTSP") /\ asked' = [asked EXCEPT !.sink = FALSE]
            /\ UNCHANGED encoder
       ELSE /\ encoder' = IF On THEN [encoder EXCEPT !.run = "stopping"] ELSE encoder
            /\ UNCHANGED << control, asked >>
  /\ UNCHANGED << missed, halves, torn, shotVars >>

\* The process is gone and waited for.
Gone == encoder' = [NoWorker EXCEPT !.gen = encoder.gen]
        /\ control' = << >> /\ missed' = FALSE
        /\ asked' = [rtp |-> FALSE, sink |-> FALSE]

\* stop_video_session: SIGTERM, which the worker heeds between two packets.
\* A write that it interrupts goes on (signal() restarts it).
Terminate ==
  /\ On /\ encoder' = [encoder EXCEPT !.run = "stopping"]
  /\ UNCHANGED << commandVars, sinkVars, shotVars >>

\* Mutant: a write that SIGTERM interrupts is given up.
HeedsAlways == TRUE

HeedsStop == ~Busy

\* It also ends when its set-up fails, or when the encoder gives no frame
\* thirty times in a row.
WorkerEnds ==
  /\ encoder.run # "off" /\ HeedsStop
  /\ Gone
  /\ UNCHANGED << sinkVars, shotVars >>

\* After two seconds, SIGKILL; or a fault in the vendor's library.
Kill ==
  /\ encoder.run # "off" /\ Gone
  /\ halves' = (halves \/ encoder.next.part = 2)
  /\ UNCHANGED << pipe, reader, torn, shotVars >>

-----------------------------------------------------------------------------
(* The worker                                                              *)

\* video_bridge_run_options up to its loop: the sockets, the vendor's SDK and
\* the encoder's streams.
SetUp ==
  /\ encoder.run = "starting"
  /\ encoder' = [encoder EXCEPT !.run = "on"]
  /\ UNCHANGED << commandVars, sinkVars, shotVars >>

Done(command, ok) ==
  CASE command = "SET_RTP" -> [encoder EXCEPT !.rtp = ok]
    [] command = "CLEAR_RTP" -> [encoder EXCEPT !.rtp = FALSE]
    [] command = "CLEAR_RTSP" -> [encoder EXCEPT !.sink = FALSE]
    [] command = "SNAPSHOT" -> [encoder EXCEPT !.snap = @ \/ ok]
    [] OTHER -> encoder

\* Mutant: detaching the call detaches the viewers.
DoneAll(command, ok) ==
  IF command = "CLEAR_RTP" THEN [encoder EXCEPT !.rtp = FALSE, !.sink = FALSE]
  ELSE Done(command, ok)

\* poll_rtp_control, between two frames.  One read takes all that is there and
\* one command is recognised in it, the first; rtp_sender_open or the start of
\* the MJPEG stream may fail.
Obeys(command, ok) == Done(command, ok)

Poll ==
  /\ Loops /\ ~Busy /\ control # << >>
  /\ \E ok \in BOOLEAN :
       /\ encoder' = Obeys(Head(control), ok)
       /\ missed' = (missed \/ Len(control) > 1 \/ ~ok)
  /\ file' = IF Head(control) = "SNAPSHOT" /\ ~encoder.snap THEN "none" ELSE file
  /\ control' = << >>
  /\ UNCHANGED << asked, sinkVars, shot, shots >>

\* A frame of stream 0 for the sink; without one it only goes to the call.
TakeFrame ==
  /\ Loops /\ ~Busy /\ control = << >> /\ encoder.sink
  /\ encoder' = [encoder EXCEPT !.next = [gen |-> encoder.gen, part |-> 1]]
  /\ UNCHANGED << commandVars, sinkVars, shotVars >>

\* rtp_sink_write_packet: it blocks on a full pipe, and gives the packet up
\* when nobody can read it any more.
WriteChunk ==
  /\ encoder.run # "off" /\ encoder.next # None
  /\ encoder' = [encoder EXCEPT !.next = IF @.part = 1 /\ reader.open
                                         THEN [@ EXCEPT !.part = 2] ELSE None]
  /\ \/ reader.open /\ Len(pipe) < Capacity /\ pipe' = Append(pipe, encoder.next)
     \/ ~reader.open /\ UNCHANGED pipe
  /\ UNCHANGED << commandVars, reader, halves, torn, shotVars >>

\* A JPEG of stream 2: snapshot_file_write_atomic writes a file of its own ...
TakeJpeg ==
  /\ Loops /\ ~Busy /\ encoder.snap
  /\ encoder' = [encoder EXCEPT !.jpeg = TRUE]
  /\ UNCHANGED << commandVars, sinkVars, shotVars >>

\* Mutant: it writes to the path.
InPlace == "part"

Beside == file

WriteJpeg ==
  /\ encoder.jpeg /\ encoder.snap
  /\ file' = Beside
  /\ encoder' = [encoder EXCEPT !.snap = FALSE]
  /\ UNCHANGED << commandVars, sinkVars, shot, shots >>

\* ... and renames it, unless a write failed.
RenameJpeg ==
  /\ encoder.jpeg /\ ~encoder.snap
  /\ encoder' = [encoder EXCEPT !.jpeg = FALSE]
  /\ file' \in {"whole", file}
  /\ UNCHANGED << commandVars, sinkVars, shot, shots >>

-----------------------------------------------------------------------------
(* The reader thread of the RTSP server                                    *)

\* The bytes after the length are the packet, whoever wrote them; bytes that
\* are no length are skipped, or taken for one.
ReadChunk ==
  LET c == Head(pipe) IN
  /\ reader.open /\ ~reader.stalled /\ pipe # << >>
  /\ pipe' = Tail(pipe)
  /\ IF reader.held = None
       THEN /\ reader' \in {[reader EXCEPT !.held = c]}
                             \cup IF c.part = 2 THEN {reader} ELSE {}
            /\ UNCHANGED torn
       ELSE /\ reader' \in {[reader EXCEPT !.held = None, !.stalled = s] : s \in BOOLEAN}
            /\ torn' = (torn \/ reader.held # [c EXCEPT !.part = 1] \/ c.part = 1)
  /\ UNCHANGED << encoder, commandVars, halves, shotVars >>

\* Mutant: the client's socket has no SO_SNDTIMEO.
WaitsForever == FALSE

SendTimesOut == reader.stalled

\* broadcast_video_rtp: the client takes the packet, or its send times out and
\* it is closed.
SendEnds ==
  /\ SendTimesOut
  /\ reader' = [reader EXCEPT !.stalled = FALSE]
  /\ UNCHANGED << encoder, commandVars, pipe, halves, torn, shotVars >>

-----------------------------------------------------------------------------
(* The snapshot thread; snapshot_active admits one                         *)

Shoot(step, published) == shot' = [step |-> step, published |-> published]

ShotBegins ==
  /\ shot.step = "idle" /\ shots < MaxShots /\ shots' = shots + 1
  /\ file' = "none" /\ Shoot("ask", "none")
  /\ UNCHANGED << encoder, commandVars, sinkVars >>

\* The worker is asked if there is one; one that is being stopped cannot be.
ShotAsks ==
  /\ shot.step = "ask"
  /\ \/ Tell("SNAPSHOT") /\ Shoot("wait", "none")
     \/ encoder.run = "stopping" /\ Shoot("idle", "none") /\ UNCHANGED control
     \/ encoder.run = "off" /\ Shoot("own", "none") /\ UNCHANGED control
  /\ UNCHANGED << encoder, asked, missed, sinkVars, file, shots >>

\* wait_for_snapshot_file sees a file that is not empty, or five seconds pass.
ShotWaits ==
  /\ shot.step = "wait"
  /\ \/ file # "none" /\ Shoot("idle", file)
     \/ Shoot("idle", "none")
  /\ UNCHANGED << encoder, commandVars, sinkVars, file, shots >>

\* A process of its own opens the path, and writes; its exit status tells.
OwnOpens ==
  /\ shot.step = "own" /\ file' = "part" /\ Shoot("writing", "none")
  /\ UNCHANGED << encoder, commandVars, sinkVars, shots >>

OwnEnds ==
  /\ shot.step = "writing"
  /\ \/ file' = "whole" /\ Shoot("idle", file')
     \/ Shoot("idle", "none") /\ UNCHANGED file
  /\ UNCHANGED << encoder, commandVars, sinkVars, shots >>

-----------------------------------------------------------------------------
Daemon == StartWorker \/ TellTarget \/ ForceIdr \/ StopRtsp \/ Terminate \/ Kill
Works == SetUp \/ WorkerEnds \/ Poll \/ TakeFrame \/ WriteChunk
           \/ TakeJpeg \/ WriteJpeg \/ RenameJpeg
Snapshot == ShotBegins \/ ShotAsks \/ ShotWaits \/ OwnOpens \/ OwnEnds

VideoNext == Daemon \/ Works \/ ReadChunk \/ SendEnds \/ Snapshot

\* The reader thread is scheduled, a send ends, a write that can go on does.
VideoFairness == /\ WF_videoVars(ReadChunk) /\ WF_videoVars(SendEnds)
                 /\ WF_videoVars(WriteChunk)

VideoSpec == VideoInit /\ [][VideoNext]_videoVars /\ VideoFairness

-----------------------------------------------------------------------------
(* Properties                                                              *)

\* "SIP and RTSP SHALL add or remove RTP sinks dynamically" (openspec
\* video-media): a worker that has read its commands sends to the call and to
\* the viewers as it was last told, unless commands met in the pipe or a
\* socket failed (poll_rtp_control, attach_video_worker_rtp).
SinksFollowCommands ==
  On /\ control = << >> /\ ~missed => [rtp |-> encoder.rtp, sink |-> encoder.sink] = asked

\* Viewers are sent packets that one worker wrote, whole, across stops and
\* restarts, unless a worker was killed in the middle of one.
PacketsAreWhole == torn => halves

\* The picture that is published is whole, whoever wrote it
\* (snapshot_file_write_atomic, wait_for_snapshot_file).
PictureIsWhole == shot.published # "part"

\* Nothing that leaves the worker is made of parts.
OutputIsWhole == PacketsAreWhole /\ PictureIsWhole

\* A viewer that stops reading holds up the worker, and the call's video with
\* it, for a time only.
VideoGoesOn == (encoder.next # None) ~> (encoder.next = None)
=============================================================================
