CONSTANTS
  Updater = {u1, u2}
  NoPid = NoPid
  Deaths = TRUE
  PromptPass = TRUE
  Runs <- MCRuns
  Releases = {1, 2}
  MaxBuild = 1
  MaxEdits = 2
  MaxRedirects = 2
  Nothing = Nothing
SPECIFICATION OtaSpec
INVARIANTS
  FlashUndisturbed
  PartialFlashGuarded
  CriticalExclusive
PROPERTIES
  DaemonRecovers
  HandsOverTrusted
  UpdaterEnds
