SPECIFICATION SyncFairSpec
CONSTANTS
    d1 = d1
    Devices = {d1}
    me = d1
    Batches <- OneByOne
    MAILBOX_MAX_BYTES = 9
    ENVELOPE_TTL_DAYS = 0
    BATCH = 1
    MaxSeq = 2
    MaxDay = 1
    MaxFaults = 0
    Groups = {g1}
    Outcomes = {"commit", "retry"}
    PageSize = 1
    maximumInboxEntries = 9
    maximumHeld = 2
    MaxCrashes = 1
    MaxLost = 1
    MaxRetries = 1
INVARIANT CheckpointIsTrue
PROPERTY EveryEnvelopeEnds
PROPERTY LossIsHandled
