CONSTANTS
  Timeouts = {3, 4, 5}
  Feeds = {1, 2}
  Poll = 2
  Fault = 4
  Retries = 3
  MaxQuiet = 13
  Day = 5
  Hour = 2
  Dues = {0, 2, 3}
  Year = 2
SPECIFICATION BoardSpec
INVARIANTS
  HungLoopIsReset
  ResetIsReported
  RebootNeedsSilence
  RebootIsLawful
PROPERTIES
  DeadCaptureEnds
  DueIsDone
