SPECIFICATION SyncFairSpec
CONSTANTS
    d1 = d1
    Devices = {d1}
    me = d1
    Batches <- OneByOne
    MAILBOX_MAX_BYTES = 9
    ENVELOPE_TTL_DAYS = 0
    BATCH = 1
    MaxSeq = 4
    MaxDay = 1
    MaxFaults = 0
    Groups = {g1}
    Outcomes = {"commit"}
    PageSize = 2
    maximumInboxEntries = 2
    maximumHeld = 2
    MaxCrashes = 0
    MaxLost = 0
    MaxRetries = 0
PROPERTY GapHoldsNothingBack
