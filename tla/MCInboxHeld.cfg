SPECIFICATION SyncSpec
CONSTANTS
    d1 = d1
    Devices = {d1}
    me = d1
    Batches <- OneByOne
    MAILBOX_MAX_BYTES = 9
    ENVELOPE_TTL_DAYS = 0
    BATCH = 1
    MaxSeq = 3
    MaxDay = 0
    MaxFaults = 1
    Groups = {}
    Outcomes = {"commit", "reject", "retry", "initial", "followUp"}
    PageSize = 2
    maximumInboxEntries = 2
    maximumHeld = 2
    MaxCrashes = 1
    MaxLost = 1
    MaxRetries = 1
INVARIANT AckedIsKept
INVARIANT OutcomeOnce
PROPERTY LeavesForGood
