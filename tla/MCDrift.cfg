SPECIFICATION LiveSpec
CONSTANTS
  Fields = {"k3sVersion", "extraArgs"}
  Paths <- SomePaths
  Live = {"k3sVersion"}
  Values = {0, 1}
  Owned = {"extraArgs"}
  Modes = {"enabled", "warn", "disabled"}
  Lag = TRUE
  Faults = {"host", "worker", "version"}
  MaxEdits = 2
  MaxFaults = 1
PROPERTIES
  SpecIsUsers
  HandsOff
  IgnoredStaysRecorded
  RejectedMeansUntouched
  ConvergesOutsideIgnored
  WarnTells
  DeletionEnds
CHECK_DEADLOCK FALSE
