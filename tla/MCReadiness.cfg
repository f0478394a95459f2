SPECIFICATION LiveSpec
CONSTANTS
  StartTicks = 3
  PollTicks = 5
  MaxEdits = 2
  MaxFaults = 2
INVARIANT
  RestartsAreFew
PROPERTY
  Settles
