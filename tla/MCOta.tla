-------------------------------- MODULE MCOta --------------------------------
\* The two halves of the updater, each checked on its own: what it chooses and
\* downloads, and how it gets at the flash (which OtaGuard begins with a
\* download that succeeds or fails).  The half that is not checked stays in its
\* initial state.
EXTENDS OtaGuard, FirmwareRelease

VARIABLE part

Unset == [enabled |-> Nothing, repo |-> Nothing]
Online == [mode |-> "online", force |-> FALSE, cli |-> LegacyRepo, conf |-> Unset,
           fallback |-> Unset, local |-> 1,
           image |-> [repo |-> "other", tag |-> 1, build |-> 0],
           fits |-> TRUE, vouches |-> Nothing]
MCRuns ==
  { Online, [Online EXCEPT !.force = TRUE], [Online EXCEPT !.local = BadTag],
    [Online EXCEPT !.conf = [enabled |-> "1", repo |-> "other"],
                   !.fallback = [enabled |-> "0", repo |-> DefaultRepo]],
    [Online EXCEPT !.fallback = [enabled |-> "0", repo |-> Nothing], !.force = TRUE],
    [Online EXCEPT !.mode = "status"], [Online EXCEPT !.mode = "guardtest"] }
  \cup { [Online EXCEPT !.mode = "image", !.fits = f, !.vouches = v] :
           f \in BOOLEAN, v \in {Nothing, Online.image, [Online.image EXCEPT !.build = 1]} }

\* A device at rest: nothing for the half that is not checked to do
Resting ==
  /\ up = [u \in Updater |-> "off"] /\ source = [u \in Updater |-> FALSE]
  /\ guard = NoGuard /\ image = NoImage /\ flash = "old"
  /\ daemon = "up" /\ installing = FALSE /\ armed = FALSE /\ sup = SupStart

OtaInit ==
  /\ ReleaseInit
  /\ \/ part = "release" /\ Resting
     \/ part = "guard" /\ Init /\ job = Online /\ \A repo \in Repo : latest[repo] = 1

Guarding(action) == part = "guard" /\ action /\ UNCHANGED <<part, releaseVars>>
Releasing(action) == part = "release" /\ action /\ UNCHANGED <<part, vars>>

\* A run of the updater that has ended stays so
Over == Releasing(stage = "ended" /\ UNCHANGED releaseVars)

OtaNext == Guarding(Next) \/ Releasing(ReleaseNext) \/ Over

OtaSpec ==
  /\ OtaInit /\ [][OtaNext]_<<part, vars, releaseVars>>
  /\ WF_vars(Guarding(Supervise))
  /\ \A u \in Updater : SF_vars(Guarding(UpdaterStep(u)))
  /\ WF_vars(Guarding(DaemonLook)) /\ WF_vars(Guarding(DaemonArm))
  /\ WF_vars(Guarding(DaemonExit))
  /\ WF_releaseVars(Releasing(Main)) /\ WF_releaseVars(Releasing(Answer))
=============================================================================
