\* A new account: one client signs it up, another joins it, and either removes a
\* device.  Calls are lost and tasks given up, once.
SPECIFICATION DevicesFairSpec
CONSTANTS
  Clients = {"a", "b"}
  First = "a"
  Enrolled <- MCNobody
  MaxRemovals = 1
  MaxFaults = 1
  ENTROPY = 1
  CHECKSUM = 1
  GROUP = 3
  MAX_LABEL = 2
  MAX_LABEL_BYTES = 3
CHECK_DEADLOCK FALSE
 
INVARIANT SignedSaysOneThing
 
 
 
PROPERTY EnrolmentEnds
