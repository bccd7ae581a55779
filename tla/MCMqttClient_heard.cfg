SPECIFICATION MqttSpec
CONSTANTS
  Items <- MCItems
  Commands <- MCCommands
  MaxChanges = 1
  MaxFaults = 1
  MaxPress = 2
  FirmwareEnabled = TRUE
  CheckResults = {"newer"}
CHECK_DEADLOCK FALSE
INVARIANT OfferedIsHeard
