--------------------------- MODULE FirmwareRelease ---------------------------
(***************************************************************************)
(* Which image firmware_update installs: main, from its options to the     *)
(* call of guarded_flash_file, with the downloads in between.  A run asks  *)
(* the repository for its latest release, reads MD5SUMS of that release,   *)
(* then its image, each over a connection that may redirect, break or end  *)
(* early, while the maintainers publish releases and replace files.        *)
(* What follows, and updaters that run at once, are in OtaGuard.           *)
(*                                                                         *)
(*  - An image is its repository, its release and its build; two images    *)
(*    have the same MD5 if they are the same.                              *)
(*  - A release is its number: the triplet after "v" or "wibox-media-".    *)
(***************************************************************************)
EXTENDS Integers

CONSTANTS Runs,         \* options and configuration of a run, see RunType
          Releases,     \* numbers of releases
          MaxBuild,     \* bound: how often a release's image is replaced
          MaxEdits,     \* bound: what the maintainers do during a run
          MaxRedirects, \* MAX_REDIRECTS
          Nothing       \* no release, no image, no value

DefaultRepo == "default"
LegacyRepo == "legacy"
Repo == {DefaultRepo, LegacyRepo, "other"}
Build == 0..MaxBuild

\* A tag that is no version; the empty file; a file that ends early.
BadTag == -1
Tag == Releases \cup {BadTag}
Images == [repo : Repo, tag : Tag, build : Build]
Broken == [repo |-> LegacyRepo, tag |-> BadTag, build |-> -1]

\* What can be installed: a release, or the operator's image.
Operator == [by |-> "operator", repo |-> Nothing, tag |-> Nothing]
Release(repo, version) == [by |-> "release", repo |-> repo, tag |-> version]
Choices == { Release(r, v) : r \in Repo, v \in Releases } \cup {Operator}

\* mode: what the options ask for; cli: --repo; conf and fallback: the two
\* configuration files; local: the release that runs; image, vouches: the
\* operator's file, whether it fits the flash, and the one the given MD5 is of
FileType == [enabled : {"0", "1", Nothing}, repo : Repo \cup {Nothing}]
RunType ==
  [mode : {"online", "status", "image", "guardtest"}, force : BOOLEAN,
   cli : Repo, conf : FileType, fallback : FileType, local : Tag,
   image : Images, fits : BOOLEAN, vouches : Images \cup {Nothing}]

ASSUME ReleaseAssumption ==
  /\ Runs \subseteq RunType /\ Releases \subseteq Nat
  /\ MaxBuild \in Nat /\ MaxEdits \in Nat /\ MaxRedirects \in Nat
  /\ Nothing \notin Images /\ Nothing \notin Tag /\ Nothing \notin Repo
  /\ Nothing \notin {"0", "1"} /\ Nothing \notin Choices

VARIABLES
  job,       \* the run: its member of Runs
  stage,     \* its next step
  hop,       \* redirects followed in this download
  tag,       \* remote_version
  expected,  \* the image that expected_md5 is of
  file,      \* the image file at update_file or install_image
  given,     \* what guarded_flash_file was called with
  told,      \* what --status printed as available
  latest,    \* the repositories: their latest releases,
  built,     \*   the builds of the images they hold,
  summed,    \*   and the builds that MD5SUMS is of, Nothing when not listed
  edits

hubVars == << latest, built, summed, edits >>
releaseVars == << job, stage, hop, tag, expected, file, given, told, hubVars >>

ReleaseInit ==
  /\ job \in Runs
  /\ stage = "start" /\ hop = 0
  /\ tag = Nothing /\ expected = Nothing /\ given = Nothing /\ told = Nothing
  /\ file = IF job.mode = "image" THEN job.image ELSE Nothing
  /\ latest \in { [r \in Repo |-> t] : t \in Tag }
  /\ built = [r \in Repo |-> [t \in Tag |-> 0]]
  /\ summed = [r \in Repo |-> [t \in Tag |-> 0]]
  /\ edits = 0

-----------------------------------------------------------------------------
(* The repositories (external)                                             *)

Edit == /\ stage # "ended" /\ edits < MaxEdits /\ edits' = edits + 1
        /\ UNCHANGED << job, stage, hop, tag, expected, file, given, told >>

Publish == /\ Edit
           /\ \E r \in Repo, t \in Tag : latest' = [latest EXCEPT ![r] = t]
           /\ UNCHANGED << built, summed >>

ReplaceImage ==
  /\ Edit
  /\ \E r \in Repo, t \in Tag :
       built[r][t] < MaxBuild /\ built' = [built EXCEPT ![r][t] = @ + 1]
  /\ UNCHANGED << latest, summed >>

ReplaceSums ==
  /\ Edit
  /\ \E r \in Repo, t \in Tag :
       \E b \in {built[r][t], Nothing} : summed' = [summed EXCEPT ![r][t] = b]
  /\ UNCHANGED << latest, built >>

-----------------------------------------------------------------------------
(* Settings and versions                                                   *)

\* read_cfg_value, in the given file and then in the fallback.
FirstOf(key, default) ==
  IF job.conf[key] # Nothing THEN job.conf[key]
  ELSE IF job.fallback[key] # Nothing THEN job.fallback[key] ELSE default

Enabled == FirstOf("enabled", "1") # "0"

\* The configuration is asked before --repo.
ChosenRepo ==
  LET asked == FirstOf("repo", job.cli)
  IN IF asked = LegacyRepo THEN DefaultRepo ELSE asked

\* version_is_valid
Valid(version) == version # BadTag

\* version_compare(remote, local) > 0, or the local version is no version
Newer(remote) == ~Valid(job.local) \/ remote > job.local

\* Mutant: the version is compared only to answer --status.
GoesOnAlways(remote) == TRUE

GoesOn(remote) == job.force \/ Newer(remote)

-----------------------------------------------------------------------------
(* main                                                                    *)

At(step) == stage = step
End == stage' = "ended"
Proceed(step) == stage' = step /\ hop' = 0

\* --test-watchdog-guard takes the guard and gives it back.
GuardTest ==
  /\ At("start") /\ job.mode = "guardtest" /\ End
  /\ UNCHANGED << job, hop, tag, expected, file, given, told, hubVars >>

\* Mutant: the given MD5 is compared by the flash routine only.
OperatorKnows == job.vouches # Nothing

\* --image: the size, then the MD5 that the operator gave.
OperatorVouches == job.vouches = job.image

LocalImage ==
  /\ At("start") /\ job.mode = "image"
  /\ IF job.vouches # Nothing /\ job.fits /\ OperatorVouches
       THEN Proceed("flash") /\ expected' = job.vouches
       ELSE End /\ UNCHANGED << hop, expected >>
  /\ UNCHANGED << job, tag, file, given, told, hubVars >>

ReadConfig ==
  /\ At("start") /\ job.mode \in {"online", "status"}
  /\ IF Enabled THEN Proceed("query") ELSE End /\ UNCHANGED hop
  /\ UNCHANGED << job, tag, expected, file, given, told, hubVars >>

Downloading == stage \in {"query", "sums", "image"}

\* Mutant: the count begins again before it reaches the limit.
HopsWrap == (hop + 1) % MaxRedirects

HopsSoFar == hop + 1

\* fetch_url: a redirection with a Location; beyond MAX_REDIRECTS it fails.
Redirected ==
  /\ Downloading
  /\ IF hop < MaxRedirects THEN hop' = HopsSoFar /\ UNCHANGED << stage, file >>
     ELSE /\ End /\ hop' = hop
          /\ file' = IF At("image") THEN Nothing ELSE file
  /\ UNCHANGED << job, tag, expected, given, told, hubVars >>

\* No connection, no certificate, no status 200, a redirection without a
\* Location, a body that does not fit; the image file is unlinked.
FetchFails ==
  /\ Downloading /\ End
  /\ file' = IF At("image") THEN Nothing ELSE file
  /\ UNCHANGED << job, hop, tag, expected, given, told, hubVars >>

\* fetch_latest_release.  A body that ends early has no closing quote.
LatestFetched ==
  /\ At("query")
  /\ tag' = latest[ChosenRepo]
  /\ IF Valid(tag') THEN Proceed("compare") ELSE End /\ UNCHANGED hop
  /\ UNCHANGED << job, expected, file, given, told, hubVars >>

Status ==
  /\ At("compare") /\ job.mode = "status" /\ End
  /\ told' = Newer(tag)
  /\ UNCHANGED << job, hop, tag, expected, file, given, hubVars >>

CompareVersions ==
  /\ At("compare") /\ job.mode = "online"
  /\ IF GoesOn(tag) THEN Proceed("sums") ELSE End /\ UNCHANGED hop
  /\ UNCHANGED << job, tag, expected, file, given, told, hubVars >>

\* download_text and parse_md5sum; the list may not name the image.
SumsFetched ==
  /\ At("sums")
  /\ LET build == summed[ChosenRepo][tag] IN
       \/ /\ build # Nothing /\ Proceed("create")
          /\ expected' = [repo |-> ChosenRepo, tag |-> tag, build |-> build]
       \/ build = Nothing /\ End /\ UNCHANGED << hop, expected >>
  /\ UNCHANGED << job, tag, file, given, told, hubVars >>

\* unlink, and fopen, which may fail.
Create ==
  /\ At("create")
  /\ \/ Proceed("image") /\ file' = Broken
     \/ End /\ file' = Nothing /\ UNCHANGED hop
  /\ UNCHANGED << job, tag, expected, given, told, hubVars >>

\* A body that ends early ends the download like a whole one.
ImageFetched ==
  /\ At("image") /\ Proceed("check")
  /\ file' \in { [repo |-> ChosenRepo, tag |-> tag, build |-> built[ChosenRepo][tag]],
                 Broken }
  /\ UNCHANGED << job, tag, expected, given, told, hubVars >>

\* Mutant: a download that ended is a download that is whole.
FileIsThere == file # Nothing

\* read_md5sum_file
FileIsExpected == file = expected

\* The image may also be too large for the flash.
Check ==
  /\ At("check")
  /\ \/ FileIsExpected /\ Proceed("flash") /\ UNCHANGED file
     \/ End /\ file' = Nothing /\ UNCHANGED hop
  /\ UNCHANGED << job, tag, expected, given, told, hubVars >>

\* guarded_flash_file
HandOverFile ==
  /\ At("flash") /\ End
  /\ given' = file
  /\ UNCHANGED << job, hop, tag, expected, file, told, hubVars >>

Answer == Redirected \/ FetchFails \/ LatestFetched \/ SumsFetched \/ ImageFetched

Main == GuardTest \/ LocalImage \/ ReadConfig \/ Status \/ CompareVersions \/ Create
          \/ Check \/ HandOverFile

Hub == Publish \/ ReplaceImage \/ ReplaceSums

ReleaseNext == Main \/ Answer \/ Hub

\* The process runs, and every server that was asked answers in the end: no
\* connection has a timeout.
ReleaseFairness == WF_releaseVars(Main) /\ WF_releaseVars(Answer)

ReleaseSpec == ReleaseInit /\ [][ReleaseNext]_releaseVars

FairReleaseSpec == ReleaseSpec /\ ReleaseFairness

-----------------------------------------------------------------------------
(* Properties                                                              *)

\* The choices a run allows: the operator's image, or a release of the
\* configured repository that is newer than the one running, or forced.
Allowed(choice) ==
  \/ choice.by = "operator" /\ job.mode = "image"
  \/ /\ choice.by = "release" /\ job.mode = "online" /\ Enabled
     /\ choice.repo = ChosenRepo /\ (job.force \/ Newer(choice.tag))

Chosen ==
  CASE expected = Nothing -> Nothing
    [] expected # Nothing /\ job.mode = "image" -> Operator
    [] OTHER -> Release(ChosenRepo, tag)

Trusted == INSTANCE TrustedUpdate WITH
  Choice <- Choices, Image <- Images,
  wishes <- { c \in Choices : Allowed(c) },
  chosen <- Chosen, vouched <- expected, handed <- given

\* Whatever the network delivers and the maintainers replace meanwhile, the
\* flash is handed only an image that the operator vouched for, or one that
\* MD5SUMS lists for a release of the configured repository that is newer
\* than the one running, unless forced, and only with updates enabled
\* ("verify the image MD5 and size before touching flash", openspec
\* firmware-updates).
HandsOverTrusted == Trusted!UpdateSpec

\* "follow at most five redirects": a run that has begun ends, wherever servers
\* send it.
UpdaterEnds == stage # "start" ~> stage = "ended"
=============================================================================
