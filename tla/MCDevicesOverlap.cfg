\* An account of two devices: one removes the other while a third enrols.
SPECIFICATION DevicesSpec
CONSTANTS
  Clients = {"a", "x", "b"}
  First = "a"
  Enrolled <- MCTwo
  MaxRemovals = 1
  MaxFaults = 0
  ENTROPY = 1
  CHECKSUM = 1
  GROUP = 3
  MAX_LABEL = 2
  MAX_LABEL_BYTES = 3
INVARIANT PendingIsNotAFork
CHECK_DEADLOCK FALSE
