SPECIFICATION FairSpec
CONSTANTS
    d1 = d1
    Devices = {d1}
    Batches <- OneDeviceBatches
    MAILBOX_MAX_BYTES = 3
    ENVELOPE_TTL_DAYS = 1
    BATCH = 2
    MaxSeq = 4
    MaxDay = 4
    MaxFaults = 1
INVARIANT Ledger
INVARIANT WatermarkIsTrue
INVARIANT WithinCeiling
PROPERTY CountersGrow
PROPERTY ExpiredIsRemoved
