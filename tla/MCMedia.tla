------------------------------- MODULE MCMedia -------------------------------
\* The media, its two sides each checked on its own: the daemon's threads that
\* share the audio engine and the video worker, and the worker process with the
\* pipes that join it to them.  The side that is not checked stays in its
\* initial state.
EXTENDS MediaSinks, VideoWorker

VARIABLE part

\* SIP calls with RTSP clients and the main loop; the main loop with the
\* snapshot; and SIP calls with the snapshot and a worker that may die.  The
\* capture thread is left to MCMediaSinks: joined by whoever stops the engine,
\* it can stop the daemon.
Calm == [others |-> {"sip", "main"}, maxClients |-> 1, crashes |-> FALSE]
Watched == [others |-> {"main", "snapshot"}, maxClients |-> 2, crashes |-> FALSE]
Crashing == [others |-> {"sip", "snapshot"}, maxClients |-> 1, crashes |-> TRUE]
MCSettings == {Calm, Watched, Crashing}

MediaInit ==
  /\ Init /\ VideoInit
  /\ part \in {"daemon", "worker"}
  /\ part = "worker" => setting = Calm

Sharing(action) == part = "daemon" /\ action /\ UNCHANGED <<part, videoVars>>
Working(action) == part = "worker" /\ action /\ UNCHANGED <<part, vars>>

\* Workers and snapshots are finite in number
Over == Working(encoder.run = "off" /\ UNCHANGED videoVars)

MediaNext == Sharing(Next) \/ Working(VideoNext) \/ Over

MediaSpec ==
  /\ MediaInit /\ [][MediaNext]_<<part, vars, videoVars>>
  /\ \A a \in Actors : WF_vars(Sharing(Progress(a)))
  /\ SF_vars(Sharing(MainLoop)) /\ WF_vars(Sharing(InputEnds))
  /\ WF_videoVars(Working(ReadChunk)) /\ WF_videoVars(Working(SendEnds))
  /\ WF_videoVars(Working(WriteChunk))
=============================================================================
