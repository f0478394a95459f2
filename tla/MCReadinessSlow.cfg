SPECIFICATION LiveSpec
CONSTANTS
  StartTicks = 5
  PollTicks = 3
  MaxEdits = 0
  MaxFaults = 0
PROPERTY
  Settles
