CONSTANTS
  Settings <- MCSettings
  MaxFrames = 1
  Scenes = {"framing", "forwarding", "button"}
  Codes <- MCCodes
  Addresses = {1, 250}
  MaxSent = 4
  MaxBursts = 1
  MaxBurst = 6
  MaxSets = 1
SPECIFICATION PanelPartsSpec
INVARIANTS LineAgrees DamageIsLocal ForwardingIsKept
PROPERTIES NoRepeatedStart ActsOnWhatWasSent
